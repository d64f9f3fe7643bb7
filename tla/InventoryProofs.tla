-------------------------- MODULE InventoryProofs ---------------------------
(***************************************************************************)
(* The product service is atomic: for any number of products, quantities   *)
(* and concurrent requests.                                                *)
(***************************************************************************)
EXTENDS Inventory, TLAPS

StockOp(r) == job[r].op \in {"reserve", "release"}

(* What a request knows while it is suspended before its write. *)
Control ==
  \A r \in Requests :
    /\ pc[r] \in {"select", "write"} => job[r] \in Jobs
    /\ pc[r] = "write" => seen[r] \in Row /\ phase[job[r].product] # "new"

(* The heart of the argument: between the SELECT FOR UPDATE and the COMMIT of a
   reservation or a release the request holds the row's lock and the row is still
   the one it read and checked. *)
Ready(r) ==
  /\ lock[job[r].product] = r
  /\ seen[r].stock = stock[job[r].product]
  /\ phase[job[r].product] \in {"active", "inactive"}
  /\ job[r].op = "reserve" => /\ phase[job[r].product] = "active"
                             /\ stock[job[r].product] >= job[r].quantity

LockedRow == \A r \in Requests : pc[r] = "write" /\ StockOp(r) => Ready(r)

Inv == TypeOK /\ Control /\ LockedRow

(* No request is on its way at the start. *)
LEMMA InitInv == Init => Inv
  BY InventoryAssumption
  DEF Init, Inv, TypeOK, Control, LockedRow, Phases, Steps

(* What the fields of a request are. *)
LEMMA JobFields ==
  ASSUME NEW j \in Jobs
  PROVE  /\ j.product \in Products
         /\ j.op \in {"reserve", "release", "update", "delete"}
         /\ j.op \in {"reserve", "release"} => j.quantity \in Quantities /\ j.quantity \in Nat
         /\ j.op = "update" => /\ j.units \in Quantities \cup {None}
                               /\ j.phase \in {"active", "inactive", None}
  BY InventoryAssumption DEF Jobs, StockJob, EditJob, DeleteJob

(* What is stored for a product is a row. *)
LEMMA RowTyped == ASSUME TypeOK, NEW p \in Products PROVE TheRow(p) \in Row
  BY DEF TypeOK, TheRow, Row

(* A committed reservation or release acts on the row as it is now. *)
LEMMA Moved ==
  ASSUME Inv, NEW r \in Requests, CommitStock(r)
  PROVE  /\ job[r].product \in Products
         /\ job[r].quantity \in Quantities
         /\ \/ job[r].op = "reserve" /\ Atomic!Reserve(job[r].product, job[r].quantity)
            \/ job[r].op = "release" /\ Atomic!Release(job[r].product, job[r].quantity)
         /\ stock' \in [Products -> Nat]
         /\ UNCHANGED phase
  <1> DEFINE p == job[r].product
             q == job[r].quantity
  <1>1. job[r] \in Jobs /\ StockOp(r) /\ pc[r] = "write"
    BY DEF CommitStock, Inv, Control, StockOp
  <1>2. p \in Products /\ q \in Quantities /\ q \in Nat
    BY <1>1, JobFields DEF StockOp
  <1>3. Ready(r)
    BY <1>1 DEF Inv, LockedRow
  <1>4. stock[p] \in Nat
    BY <1>2 DEF Inv, TypeOK
  <1>5. CASE job[r].op = "reserve"
    <2>1. phase[p] = "active" /\ stock[p] >= q
      BY <1>3, <1>5 DEF Ready
    <2>2. stock' = [stock EXCEPT ![p] = stock[p] - q] /\ UNCHANGED phase
      BY <1>3, <1>5 DEF CommitStock, Ready
    <2>3. stock[p] - q \in Nat
      BY <1>2, <1>4, <2>1
    <2>4. stock' \in [Products -> Nat]
      BY <2>2, <2>3 DEF Inv, TypeOK
    <2>5. Atomic!Reserve(p, q)
      BY <2>1, <2>2 DEF Atomic!Reserve, Atomic!CanReserve
    <2> QED BY <1>2, <1>5, <2>2, <2>4, <2>5
  <1>6. CASE job[r].op = "release"
    <2>1. phase[p] \in {"active", "inactive"}
      BY <1>3 DEF Ready
    <2>2. stock' = [stock EXCEPT ![p] = stock[p] + q] /\ UNCHANGED phase
      BY <1>3, <1>6 DEF CommitStock, Ready
    <2>3. stock' \in [Products -> Nat]
      BY <1>2, <1>4, <2>2 DEF Inv, TypeOK
    <2>4. Atomic!Release(p, q)
      BY <2>1, <2>2 DEF Atomic!Release, Atomic!Listed
    <2> QED BY <1>2, <1>6, <2>2, <2>3, <2>4
  <1> QED BY <1>1, <1>5, <1>6 DEF StockOp

(* What an update leaves in a column: what it asks for where that differs from the row
   it read, and else what is there. *)
Left(r, c) ==
  IF c \in ToWrite(r) THEN Atomic!Wanted(job[r], c) ELSE Atomic!Current(job[r].product, c)

(* A committed update is one edit of the row as it then is, unless the row is gone. *)
LEMMA Edited ==
  ASSUME Inv, NEW r \in Requests, CommitUpdate(r), Listed(job[r].product)
  PROVE  /\ job[r].product \in Products
         /\ Left(r, "stock") \in Quantities \cup {stock[job[r].product]}
         /\ Left(r, "phase") \in {"active", "inactive"}
         /\ Atomic!Edit(job[r].product, Left(r, "stock"), Left(r, "phase"))
         /\ pc' = [pc EXCEPT ![r] = "done"]
  <1> DEFINE p == job[r].product
  <1>1. job[r] \in Jobs /\ job[r].op = "update" /\ pc[r] = "write"
    BY DEF CommitUpdate, Inv, Control
  <1>2. p \in Products /\ job[r].units \in Quantities \cup {None}
                       /\ job[r].phase \in {"active", "inactive", None}
    BY <1>1, JobFields
  <1>3. seen[r] \in Row
    BY <1>1 DEF Inv, Control
  <1>4. /\ Left(r, "stock") = IF Changed(job[r].units, seen[r].stock) THEN job[r].units ELSE stock[p]
        /\ Left(r, "phase") = IF Changed(job[r].phase, seen[r].phase) THEN job[r].phase ELSE phase[p]
    BY <1>1, <1>3 DEF Left, ToWrite, Row, Atomic!Wanted, Atomic!Current
  <1>5. /\ stock' = [stock EXCEPT ![p] = Left(r, "stock")]
        /\ phase' = [phase EXCEPT ![p] = Left(r, "phase")]
        /\ pc' = [pc EXCEPT ![r] = "done"]
    BY <1>4 DEF CommitUpdate, Goto
  <1>6. Atomic!Edit(p, Left(r, "stock"), Left(r, "phase"))
    BY <1>5 DEF Atomic!Edit, Atomic!Listed, Listed
  <1> QED BY <1>2, <1>4, <1>5, <1>6 DEF Changed, Listed

(* A committed update sets the stock level or leaves it. *)
LEMMA Updated ==
  ASSUME Inv, NEW r \in Requests, CommitUpdate(r)
  PROVE  \/ UNCHANGED tableVars
         \/ \E p \in Products :
              \E units \in Quantities \cup {stock[p]}, ph \in {"active", "inactive"} :
                Atomic!Edit(p, units, ph)
  <1>1. CASE Listed(job[r].product) BY <1>1, Edited
  <1>2. CASE ~Listed(job[r].product) BY <1>2 DEF CommitUpdate
  <1> QED BY <1>1, <1>2

(* The table keeps its types through every step of the warehouse. *)
LEMMA EditTypes ==
  ASSUME TypeOK, NEW p \in Products, NEW units \in Quantities \cup {stock[p]},
         NEW ph \in {"active", "inactive"}, Atomic!Edit(p, units, ph)
  PROVE  /\ phase' \in [Products -> Phases] /\ stock' \in [Products -> Nat]
         /\ \A x \in Products : phase[x] # "new" => phase'[x] # "new"
  BY InventoryAssumption DEF TypeOK, Phases, Atomic!Edit

(* Writers of a row wait for its lock, so rows under a lock stay as they are. *)
LEMMA LockedRowKept ==
  ASSUME Inv, NEW r \in Requests, TypeOK', Control',
         \A q \in Requests \ {r} :
            pc'[q] = pc[q] /\ job'[q] = job[q] /\ seen'[q] = seen[q],
         \A q \in Requests \ {r} :
            pc[q] = "write" /\ StockOp(q) =>
              /\ lock'[job[q].product] = q
              /\ stock'[job[q].product] = stock[job[q].product]
              /\ phase'[job[q].product] = phase[job[q].product],
         pc'[r] = "write" /\ StockOp(r)' => Ready(r)'
  PROVE  Inv'
  <1>1. ASSUME NEW q \in Requests, pc'[q] = "write", StockOp(q)'
        PROVE  Ready(q)'
    <2>1. CASE q = r
      BY <1>1, <2>1
    <2>2. CASE q # r
      <3>1. pc[q] = "write" /\ StockOp(q)
        BY <1>1, <2>2 DEF StockOp
      <3>2. Ready(q)
        BY <3>1 DEF Inv, LockedRow
      <3> QED BY <2>2, <3>1, <3>2 DEF Ready
    <2> QED BY <2>1, <2>2
  <1>2. LockedRow'
    BY <1>1 DEF LockedRow
  <1> QED BY <1>2 DEF Inv

(* Every step of a request keeps the invariant: only a write can disturb the row,
   and a write that took stock finds the row as it was when it was locked. *)
LEMMA StepInv == Inv /\ [Next]_vars => Inv'
  <1> SUFFICES ASSUME Inv, [Next]_vars PROVE Inv'
    OBVIOUS
  <1>0. Inv => TypeOK /\ Control /\ LockedRow
    BY DEF Inv
  <1>1. ASSUME NEW r \in Requests, NEW p \in Products, NEW units \in Quantities, Create(r, p, units)
        PROVE  Inv'
    <2>1. TypeOK'
      BY <1>0, <1>1, InventoryAssumption DEF Create, Goto, TypeOK, Phases, Steps
    <2>2. Control'
      BY <1>0, <1>1 DEF Create, Goto, TypeOK, Control
    <2>3. ASSUME NEW q \in Requests, pc[q] = "write", StockOp(q)
          PROVE  job[q].product # p
      BY <1>0, <1>1, <2>3 DEF Create, Control
    <2> QED BY <1>0, <1>1, <2>1, <2>2, <2>3, LockedRowKept
            DEF Create, Goto, TypeOK, LockedRow, Ready
  <1>2. ASSUME NEW r \in Requests, NEW j \in Jobs, Arrive(r, j) PROVE Inv'
    <2>1. TypeOK'
      BY <1>0, <1>2 DEF Arrive, Goto, TypeOK, Steps, tableVars
    <2>2. Control'
      BY <1>0, <1>2 DEF Arrive, Goto, TypeOK, Control, tableVars
    <2> QED BY <1>0, <1>2, <2>1, <2>2, LockedRowKept
            DEF Arrive, Goto, TypeOK, LockedRow, Ready, tableVars
  <1>3. ASSUME NEW r \in Requests, SelectForUpdate(r) PROVE Inv'
    <2>1. job[r] \in Jobs /\ job[r].product \in Products
      BY <1>0, <1>3, JobFields DEF SelectForUpdate, Control
    <2>2. TheRow(job[r].product) \in Row
      BY <1>0, <2>1, RowTyped
    <2>3. TypeOK'
      BY <1>0, <1>3, <2>1, <2>2 DEF SelectForUpdate, Goto, TypeOK, Steps, tableVars
    <2>4. Control'
      <3>1. ~Refuses(job[r], TheRow(job[r].product)) => phase[job[r].product] # "new"
        BY DEF Refuses, TheRow
      <3> QED BY <1>0, <1>3, <2>2, <3>1 DEF SelectForUpdate, Goto, TypeOK, Control, tableVars
    <2>5. ASSUME NEW q \in Requests \ {r}, pc[q] = "write", StockOp(q)
          PROVE  lock'[job[q].product] = q
      <3>1. lock[job[q].product] = q /\ q # None /\ job[q].product \in Products
        BY <1>0, <2>5, JobFields, InventoryAssumption DEF LockedRow, Ready, Control
      <3> QED BY <1>0, <1>3, <3>1 DEF SelectForUpdate, TypeOK
    <2>6. ASSUME pc'[r] = "write" PROVE Ready(r)'
      <3>1. ~Refuses(job[r], TheRow(job[r].product)) /\ UNCHANGED <<tableVars, job>>
        BY <1>0, <1>3, <2>6 DEF SelectForUpdate, Goto, TypeOK
      <3>2. /\ lock'[job[r].product] = r
            /\ seen'[r] = TheRow(job[r].product)
        BY <1>0, <1>3, <2>1, <2>6 DEF SelectForUpdate, Goto, TypeOK
      <3>3. stock[job[r].product] \in Nat
        BY <1>0, <2>1 DEF TypeOK
      <3> QED BY <1>3, <2>1, <3>1, <3>2, <3>3, JobFields
              DEF SelectForUpdate, tableVars, TheRow, Ready, Refuses
    <2> QED BY <1>0, <1>3, <2>3, <2>4, <2>5, <2>6, LockedRowKept
            DEF SelectForUpdate, Goto, TypeOK, tableVars
  <1>4. ASSUME NEW r \in Requests, CommitStock(r) PROVE Inv'
    <2>1. /\ job[r].product \in Products /\ pc[r] = "write" /\ StockOp(r)
          /\ stock' \in [Products -> Nat] /\ UNCHANGED phase
      BY <1>4, Moved DEF CommitStock, StockOp
    <2>2. TypeOK'
      BY <1>0, <1>4, <2>1 DEF CommitStock, Goto, TypeOK, Steps
    <2>3. Control'
      BY <1>0, <1>4 DEF CommitStock, Goto, TypeOK, Control
    <2>4. ASSUME NEW q \in Requests \ {r}, pc[q] = "write", StockOp(q)
          PROVE  job[q].product # job[r].product
      BY <1>0, <2>1, <2>4 DEF LockedRow, Ready
    <2> QED BY <1>0, <1>4, <2>1, <2>2, <2>3, <2>4, LockedRowKept
            DEF CommitStock, Goto, TypeOK, LockedRow, Ready
  <1>5. ASSUME NEW r \in Requests, Select(r) PROVE Inv'
    <2>1. job[r] \in Jobs /\ job[r].product \in Products
      BY <1>0, <1>5, JobFields DEF Select, Control
    <2>2. TheRow(job[r].product) \in Row
      BY <1>0, <2>1, RowTyped
    <2>3. TypeOK'
      BY <1>0, <1>5, <2>2 DEF Select, Goto, TypeOK, Steps, tableVars
    <2>4. Control'
      BY <1>0, <1>5, <2>2 DEF Select, Goto, TypeOK, Control, Listed, tableVars
    <2> QED BY <1>0, <1>5, <2>3, <2>4, LockedRowKept
            DEF Select, Goto, TypeOK, LockedRow, Ready, StockOp, tableVars
  <1>6. ASSUME NEW r \in Requests, CommitUpdate(r) PROVE Inv'
    <2>1. /\ phase' \in [Products -> Phases] /\ stock' \in [Products -> Nat]
          /\ \A x \in Products : phase[x] # "new" => phase'[x] # "new"
      BY <1>0, <1>6, Updated, EditTypes DEF TypeOK, tableVars
    <2>2. TypeOK'
      BY <1>0, <1>6, <2>1 DEF CommitUpdate, Goto, TypeOK, Steps
    <2>3. Control'
      <3>1. \A q \in Requests : pc[q] = "write" => job[q].product \in Products
        BY <1>0, JobFields DEF Control
      <3> QED BY <1>0, <1>6, <2>1, <3>1 DEF CommitUpdate, Goto, TypeOK, Control
    <2>4. ASSUME NEW q \in Requests \ {r}, pc[q] = "write", StockOp(q)
          PROVE  /\ stock'[job[q].product] = stock[job[q].product]
                 /\ phase'[job[q].product] = phase[job[q].product]
      <3>1. lock[job[q].product] # None /\ job[q].product \in Products
        BY <1>0, <2>4, JobFields, InventoryAssumption DEF LockedRow, Ready, Control
      <3>2. CASE job[q].product # job[r].product
        BY <1>0, <1>6, <3>1, <3>2 DEF CommitUpdate, TypeOK, tableVars
      <3>3. CASE job[q].product = job[r].product
        BY <1>0, <1>6, <3>1, <3>3 DEF CommitUpdate, TypeOK, tableVars
      <3> QED BY <3>2, <3>3
    <2> QED BY <1>0, <1>6, <2>2, <2>3, <2>4, LockedRowKept
            DEF CommitUpdate, Goto, TypeOK, LockedRow, Ready
  <1>7. ASSUME NEW r \in Requests, CommitDelete(r) PROVE Inv'
    <2>1. job[r] \in Jobs /\ job[r].product \in Products
      BY <1>0, <1>7, JobFields DEF CommitDelete, Control
    <2>2. TypeOK'
      BY <1>0, <1>7 DEF CommitDelete, Goto, TypeOK, Steps, Phases
    <2>3. Control'
      BY <1>0, <1>7, <2>1 DEF CommitDelete, Goto, TypeOK, Control
    <2>4. ASSUME NEW q \in Requests \ {r}, pc[q] = "write", StockOp(q)
          PROVE  job[q].product # job[r].product
      BY <1>0, <1>7, <2>4, InventoryAssumption DEF CommitDelete, LockedRow, Ready
    <2> QED BY <1>0, <1>7, <2>1, <2>2, <2>3, <2>4, LockedRowKept
            DEF CommitDelete, Goto, TypeOK, LockedRow, Ready
  <1>8. ASSUME NEW r \in Requests, RollBack(r) PROVE Inv'
    <2>1. TypeOK'
      BY <1>0, <1>8 DEF RollBack, Goto, TypeOK, Steps, tableVars
    <2>2. Control'
      BY <1>0, <1>8 DEF RollBack, Goto, TypeOK, Control, tableVars
    <2>3. ASSUME NEW q \in Requests \ {r}, pc[q] = "write", StockOp(q)
          PROVE  lock'[job[q].product] = q
      BY <1>0, <1>8, <2>3, JobFields DEF RollBack, LockedRow, Ready, Control, TypeOK
    <2> QED BY <1>0, <1>8, <2>1, <2>2, <2>3, LockedRowKept
            DEF RollBack, Goto, TypeOK, tableVars
  <1>9. CASE UNCHANGED vars
    <2>1. TypeOK' /\ Control' /\ LockedRow'
      BY <1>0, <1>9 DEF vars, tableVars, TypeOK, Control, LockedRow, StockOp, Ready
    <2> QED BY <2>1 DEF Inv
  <1> QED
    BY <1>1, <1>2, <1>3, <1>4, <1>5, <1>6, <1>7, <1>8, <1>9 DEF Next, Serve

(* The invariant holds throughout. *)
LEMMA InvHolds == Spec => []Inv
  BY InitInv, StepInv, PTL DEF Spec

(* Stock never goes negative (the CHECK constraint on the column is never what
   stops an order), and every variable keeps its type. *)
THEOREM NoOverselling == Spec => []TypeOK
  BY InvHolds, PTL DEF Inv

-----------------------------------------------------------------------------
(* The refinement *)

(* A step of r changes only how r looks. *)
LEMMA ViewMoves ==
  ASSUME NEW r \in Requests,
         \A q \in Requests \ {r} : pc'[q] = pc[q] /\ job'[q] = job[q] /\ seen'[q] = seen[q]
  PROVE  /\ [q \in Requests |-> StateOf(q)'] =
              [[q \in Requests |-> StateOf(q)] EXCEPT ![r] = StateOf(r)']
         /\ [q \in Requests |-> ToWrite(q)'] =
              [[q \in Requests |-> ToWrite(q)] EXCEPT ![r] = ToWrite(r)']
  <1>1. ASSUME NEW q \in Requests \ {r} PROVE StateOf(q)' = StateOf(q) /\ ToWrite(q)' = ToWrite(q)
    BY <1>1 DEF StateOf, ToWrite
  <1> QED BY <1>1

(* A step by which r is answered, and which leaves its job alone. *)
LEMMA Answered ==
  ASSUME Inv, NEW r \in Requests, NEW s \in {"done", "refused"}, Goto(r, s), UNCHANGED <<job, seen>>
  PROVE  Atomic!Answer(r, s)
  <1>1. pc'[r] = s /\ \A q \in Requests \ {r} : pc'[q] = pc[q]
    BY DEF Inv, TypeOK, Goto
  <1>2. StateOf(r)' = s /\ ToWrite(r)' = {}
    BY <1>1 DEF StateOf, ToWrite
  <1>3. /\ [q \in Requests |-> StateOf(q)'] = [[q \in Requests |-> StateOf(q)] EXCEPT ![r] = s]
        /\ [q \in Requests |-> ToWrite(q)'] = [[q \in Requests |-> ToWrite(q)] EXCEPT ![r] = {}]
    BY <1>1, <1>2, ViewMoves
  <1> QED BY <1>3 DEF Atomic!Answer

(* A request that is on its way is open to its caller. *)
LEMMA OnItsWay ==
  ASSUME NEW r \in Requests, pc[r] \in {"select", "write"}
  PROVE  [q \in Requests |-> StateOf(q)][r] = "open"
  BY DEF StateOf

(* A request that is turned away, or whose transaction is rolled back. *)
LEMMA Refused ==
  ASSUME Inv, NEW r \in Requests, pc[r] \in {"select", "write"}, Goto(r, "refused"),
         UNCHANGED <<tableVars, job, seen>>
  PROVE  Atomic!AtomicNext
  <1>1. Atomic!Answer(r, "refused") BY Answered
  <1>2. Atomic!Refuse(r)
    BY <1>1, OnItsWay DEF Atomic!Refuse, Atomic!warehouseVars, tableVars
  <1> QED BY <1>2 DEF Atomic!AtomicNext

(* A request that has read its row, and has as much to write as before. *)
LEMMA StillOpen ==
  ASSUME Inv, NEW r \in Requests, pc[r] = "select", Goto(r, "write"), UNCHANGED <<tableVars, job>>,
         \A q \in Requests \ {r} : seen'[q] = seen[q]
  PROVE  /\ UNCHANGED [q \in Requests |-> StateOf(q)]
         /\ [q \in Requests |-> ToWrite(q)'] =
              [[q \in Requests |-> ToWrite(q)] EXCEPT ![r] = ToWrite(r)']
  <1>1. pc'[r] = "write" /\ \A q \in Requests \ {r} : pc'[q] = pc[q]
    BY DEF Inv, TypeOK, Goto
  <1>2. StateOf(r)' = StateOf(r)
    BY <1>1 DEF StateOf
  <1> QED BY <1>1, <1>2, ViewMoves

(* A request comes in with what it asks for. *)
LEMMA ArriveAsks ==
  ASSUME Inv, NEW r \in Requests, NEW j \in Jobs, Arrive(r, j)
  PROVE  Atomic!AtomicNext
  <1>1. /\ pc'[r] = "select" /\ job' = [job EXCEPT ![r] = j] /\ job'[r] = j
        /\ \A q \in Requests \ {r} : pc'[q] = pc[q] /\ job'[q] = job[q] /\ seen'[q] = seen[q]
    BY DEF Arrive, Goto, Inv, TypeOK
  <1>2. StateOf(r) = "new" /\ StateOf(r)' = "open"
    BY <1>1 DEF StateOf, Arrive
  <1>3. ToWrite(r)' = Atomic!NamedColumns(j)
    BY <1>1 DEF ToWrite, Atomic!NamedColumns, Atomic!Wanted
  <1>4. /\ [q \in Requests |-> StateOf(q)'] = [[q \in Requests |-> StateOf(q)] EXCEPT ![r] = "open"]
        /\ [q \in Requests |-> ToWrite(q)'] =
             [[q \in Requests |-> ToWrite(q)] EXCEPT ![r] = Atomic!NamedColumns(j)]
    BY <1>1, <1>2, <1>3, ViewMoves
  <1>5. Atomic!Ask(r, j)
    BY <1>1, <1>2, <1>4 DEF Atomic!Ask, Arrive, tableVars, Atomic!warehouseVars
  <1> QED BY <1>5 DEF Atomic!AtomicNext

(* A lock is taken and the row read, or the request is turned away. *)
LEMMA LockStutters ==
  ASSUME Inv, NEW r \in Requests, SelectForUpdate(r)
  PROVE  Atomic!AtomicNext \/ UNCHANGED Atomic!atomicVars
  <1>1. pc[r] = "select" /\ job[r].op # "update" /\ UNCHANGED <<tableVars, job>>
    BY DEF SelectForUpdate
  <1>2. CASE Goto(r, "refused") /\ UNCHANGED seen
    BY <1>1, <1>2, Refused
  <1>3. CASE Goto(r, "write") /\ seen' = [seen EXCEPT ![r] = TheRow(job[r].product)]
    <2>1. \A q \in Requests \ {r} : seen'[q] = seen[q]
      BY <1>3 DEF Inv, TypeOK
    <2>2. ToWrite(r) = {} /\ ToWrite(r)' = {}
      BY <1>1 DEF ToWrite
    <2>3. /\ UNCHANGED [q \in Requests |-> StateOf(q)]
          /\ [q \in Requests |-> ToWrite(q)'] = [[q \in Requests |-> ToWrite(q)] EXCEPT ![r] = {}]
      BY <1>1, <1>3, <2>1, <2>2, StillOpen
    <2>4. UNCHANGED [q \in Requests |-> ToWrite(q)]
      BY <2>2, <2>3
    <2> QED BY <1>1, <2>3, <2>4 DEF Atomic!atomicVars, Atomic!warehouseVars, tableVars
  <1> QED BY <1>2, <1>3 DEF SelectForUpdate

(* An update finds columns as it wants them: it will not write them. *)
LEMMA SelectSpares ==
  ASSUME Inv, NEW r \in Requests, Select(r)
  PROVE  Atomic!AtomicNext \/ UNCHANGED Atomic!atomicVars
  <1> DEFINE p == job[r].product
  <1>1. pc[r] = "select" /\ job[r].op \in {"update", "delete"} /\ UNCHANGED <<tableVars, job>>
    BY DEF Select
  <1>2. CASE Goto(r, "refused") /\ UNCHANGED seen
    BY <1>1, <1>2, Refused
  <1>3. CASE Goto(r, "write") /\ seen' = [seen EXCEPT ![r] = TheRow(p)]
    <2>1. /\ \A q \in Requests \ {r} : seen'[q] = seen[q]
          /\ seen'[r] = TheRow(p) /\ pc'[r] = "write"
      BY <1>3 DEF Inv, TypeOK, Goto
    <2>2. /\ UNCHANGED [q \in Requests |-> StateOf(q)]
          /\ [q \in Requests |-> ToWrite(q)'] =
               [[q \in Requests |-> ToWrite(q)] EXCEPT ![r] = ToWrite(r)']
      BY <1>1, <1>3, <2>1, StillOpen
    <2>3. CASE job[r].op = "delete"
      <3>1. ToWrite(r) = {} /\ ToWrite(r)' = {}
        BY <1>1, <2>3 DEF ToWrite
      <3>2. UNCHANGED [q \in Requests |-> ToWrite(q)]
        BY <2>2, <3>1
      <3> QED BY <1>1, <2>2, <3>2 DEF Atomic!atomicVars, Atomic!warehouseVars, tableVars
    <2>4. CASE job[r].op = "update"
      <3> DEFINE columns == ToWrite(r) \ ToWrite(r)'
      <3>1. seen'[r]["stock"] = stock[p] /\ seen'[r]["phase"] = phase[p]
        BY <2>1 DEF TheRow
      <3>2. ToWrite(r)' \subseteq ToWrite(r)
        BY <1>1, <2>1, <2>4 DEF ToWrite, Changed
      <3>3. ASSUME NEW c \in columns
            PROVE  Atomic!Wanted(job[r], c) = Atomic!Current(p, c)
        BY <1>1, <2>1, <2>4, <3>1, <3>3 DEF ToWrite, Changed, Atomic!Wanted, Atomic!Current
      <3>4. ToWrite(r)' = ToWrite(r) \ columns
        BY <3>2
      <3>5. [q \in Requests |-> ToWrite(q)'] =
              [[q \in Requests |-> ToWrite(q)] EXCEPT ![r] = @ \ columns]
        BY <2>2, <3>4
      <3>6. Atomic!Spare(r, columns)
        BY <1>1, <2>2, <2>4, <3>3, <3>5, OnItsWay
        DEF Atomic!Spare, Atomic!warehouseVars, tableVars
      <3>7. columns \in SUBSET ([q \in Requests |-> ToWrite(q)][r])
        OBVIOUS
      <3> QED BY <3>6, <3>7 DEF Atomic!AtomicNext
    <2> QED BY <1>1, <2>3, <2>4
  <1> QED BY <1>2, <1>3 DEF Select

(* A commit does what its request asked for. *)
LEMMA CommitPerforms ==
  ASSUME Inv, NEW r \in Requests, CommitStock(r) \/ CommitDelete(r) \/ CommitUpdate(r)
  PROVE  Atomic!AtomicNext
  <1> DEFINE p == job[r].product
  <1>1. pc[r] = "write" /\ UNCHANGED <<job, seen>>
    BY DEF CommitStock, CommitDelete, CommitUpdate
  <1>2. job[r] \in Jobs /\ p \in Products /\ phase[p] # "new"
    BY <1>1, JobFields DEF Inv, Control
  <1>3. ASSUME Atomic!Effect(r), Goto(r, "done") PROVE Atomic!AtomicNext
    <2>1. Atomic!Answer(r, "done") BY <1>1, <1>3, Answered
    <2>2. Atomic!Perform(r) BY <1>1, <1>3, <2>1, OnItsWay DEF Atomic!Perform
    <2> QED BY <2>2 DEF Atomic!AtomicNext
  <1>4. CASE CommitStock(r)
    <2>1. \/ job[r].op = "reserve" /\ Atomic!Reserve(p, job[r].quantity)
          \/ job[r].op = "release" /\ Atomic!Release(p, job[r].quantity)
      BY <1>4, Moved
    <2>2. Atomic!Effect(r) BY <2>1 DEF Atomic!Effect
    <2>3. Goto(r, "done") BY <1>4 DEF CommitStock
    <2> QED BY <1>3, <2>2, <2>3
  <1>5. CASE CommitDelete(r)
    <2>1. /\ job[r].op = "delete" /\ Goto(r, "done")
          /\ phase' = [phase EXCEPT ![p] = "deleted"] /\ UNCHANGED stock
      BY <1>5 DEF CommitDelete
    <2>2. CASE Listed(p)
      <3>1. Atomic!Remove(p)
        BY <2>1, <2>2 DEF Listed, Atomic!Remove, Atomic!Listed
      <3>2. Atomic!Effect(r) BY <2>1, <3>1 DEF Atomic!Effect
      <3> QED BY <1>3, <2>1, <3>2
    <2>3. CASE ~Listed(p)
      <3>1. phase[p] = "deleted"
        BY <1>2, <2>3 DEF Listed, Inv, TypeOK, Phases
      <3>2. phase' = phase
        BY <1>2, <2>1, <3>1 DEF Inv, TypeOK
      <3>3. Atomic!Effect(r)
        BY <2>1, <3>1, <3>2 DEF Atomic!Effect, Atomic!warehouseVars
      <3> QED BY <1>3, <2>1, <3>3
    <2> QED BY <2>2, <2>3
  <1>6. CASE CommitUpdate(r)
    <2>1. CASE Listed(p)
      <3>1. Atomic!Edit(p, Left(r, "stock"), Left(r, "phase")) /\ Goto(r, "done")
        BY <1>6, <2>1, Edited DEF Goto
      <3>2. job[r].op = "update" BY <1>6 DEF CommitUpdate
      <3>3. Atomic!Effect(r) BY <3>1, <3>2 DEF Atomic!Effect, Left
      <3> QED BY <1>3, <3>1, <3>3
    <2>2. CASE ~Listed(p)
      <3>1. Goto(r, "refused") /\ UNCHANGED tableVars BY <1>6, <2>2 DEF CommitUpdate
      <3> QED BY <1>1, <3>1, Refused
    <2> QED BY <2>1, <2>2
  <1> QED BY <1>4, <1>5, <1>6

(* A product comes in under a fresh id. *)
LEMMA CreateEnters ==
  ASSUME Inv, NEW r \in Requests, NEW p \in Products, NEW units \in Quantities, Create(r, p, units)
  PROVE  Atomic!AtomicNext
  <1>1. StateOf(r) = "new" BY DEF Create, StateOf
  <1>2. Atomic!Add(p, units) BY DEF Create, Atomic!Add
  <1>3. Atomic!Answer(r, "done") BY Answered DEF Create
  <1>4. Atomic!Enter(r, p, units) BY <1>1, <1>2, <1>3 DEF Atomic!Enter
  <1> QED BY <1>4 DEF Atomic!AtomicNext

(* Every step of a request is a step of the warehouse or is not to be seen there. *)
LEMMA StepAtomic == Inv /\ [Next]_vars => [Atomic!AtomicNext]_(Atomic!atomicVars)
  <1> SUFFICES ASSUME Inv, [Next]_vars
               PROVE  Atomic!AtomicNext \/ UNCHANGED Atomic!atomicVars
    OBVIOUS
  <1>1. ASSUME NEW r \in Requests, RollBack(r) PROVE Atomic!AtomicNext
    BY <1>1, Refused DEF RollBack
  <1>2. CASE UNCHANGED vars
    BY <1>2 DEF vars, tableVars, Atomic!atomicVars, Atomic!warehouseVars, StateOf, ToWrite
  <1> QED
    BY <1>1, <1>2, CreateEnters, ArriveAsks, LockStutters, SelectSpares, CommitPerforms
    DEF Next, Serve

(* Row locking makes the product service a warehouse of atomic operations: what a
   request answered with success asked for has been done to the row as it then was,
   in one step, and nothing else has. *)
THEOREM InventoryIsAtomic == Spec => AtomicStock
  <1>1. ASSUME Init PROVE Atomic!AtomicInit
    <2>1. /\ [r \in Requests |-> StateOf(r)] = [r \in Requests |-> "new"]
          /\ [r \in Requests |-> ToWrite(r)] = [r \in Requests |-> {}]
      BY <1>1 DEF Init, StateOf, ToWrite
    <2> QED BY <1>1, <2>1 DEF Init, Atomic!AtomicInit, Atomic!WarehouseInit
  <1> QED BY <1>1, StepAtomic, InvHolds, PTL DEF Spec, AtomicStock, Atomic!AtomicSpec
=============================================================================
