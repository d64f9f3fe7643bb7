------------------------------- MODULE Orders -------------------------------
(***************************************************************************)
(* The order service: create_order reserves stock item by item over HTTP   *)
(* and compensates when an item fails, cancel_order returns it, payment    *)
(* events and clients set the status.  The product service is a Warehouse  *)
(* at the other end of a network: a call may be lost, and its answer may   *)
(* come after the five-second timeout, or never.                           *)
(***************************************************************************)
EXTENDS Warehouse, Sequences

CONSTANTS
  Orders,     \* create requests, and the orders they create
  Cancels,    \* cancellation requests
  Updates,    \* status updates: payment event handlers, PUT and POST of a status
  Carts,      \* the item lists that create requests may carry
  MaxFaults,  \* bound on timeouts, failed commits and crashes
  None

Tasks == Orders \cup Cancels \cup Updates
Lines == UNION {DOMAIN c : c \in Carts}
Item == [product : Products, quantity : Quantities \ {0}]
OrderStatuses == {"PENDING", "CONFIRMED", "PAID", "CANCELLED", "FAILED", "REFUNDED"}

ASSUME OrdersAssumption ==
  /\ Orders \cap Cancels = {} /\ Orders \cap Updates = {} /\ Cancels \cap Updates = {}
  /\ Carts \subseteq Seq(Item) \ {<<>>}
  /\ MaxFaults \in Nat
  /\ None \notin Orders \cup OrderStatuses

VARIABLES
  status,     \* order -> "absent" or the status column of its row
  cart,       \* order -> the item list of its create request
  announced,  \* events published on the channel "orders"
  pc,         \* task -> where it is suspended
  about,      \* task -> its order
  new,        \* task -> the status it is to set
  read,       \* task -> the status its SELECT returned
  at, last,   \* task -> index of the item its call is about, of the last one to call about
  call,       \* task -> "none", "sent", or the warehouse's answer
  strays,     \* calls whose caller gave up before they reached the warehouse
  faults,     \* timeouts, failed commits and crashes so far
  taken,      \* history: order -> line -> how often its item was reserved
  returned,   \* history: task -> line -> how often the task had the item released
  cancelled   \* history: the cancellations that committed

tableVars == <<status, cart>>
taskVars == <<pc, about, new, read, at, last, call>>
history == <<taken, returned, cancelled>>
vars == <<warehouseVars, tableVars, announced, taskVars, strays, faults, history>>

Calling == {"reserve", "compensate", "release"}
Steps == Calling \cup {"idle", "persist", "commit", "announce", "done", "refused"}

TypeOK ==
  /\ WarehouseTypeOK
  /\ status \in [Orders -> OrderStatuses \cup {"absent"}]
  /\ cart \in [Orders -> Carts \cup {<<>>}]
  /\ pc \in [Tasks -> Steps]
  /\ about \in [Tasks -> Orders \cup {None}]
  /\ new \in [Tasks -> OrderStatuses \cup {None}]
  /\ read \in [Tasks -> OrderStatuses \cup {None}]
  /\ at \in [Tasks -> Nat] /\ last \in [Tasks -> Nat]
  /\ call \in [Tasks -> {"none", "sent", "granted", "refused"}]
  /\ \A t \in Tasks :
       IF pc[t] \in Calling
       THEN call[t] # "none" /\ at[t] \in 1..last[t] /\ last[t] \in DOMAIN cart[about[t]]
       ELSE call[t] = "none"
  /\ faults \in 0..MaxFaults
  /\ taken \in [Orders -> [Lines -> Nat]]
  /\ returned \in [Tasks -> [Lines -> Nat]]
  /\ cancelled \subseteq Cancels

Init ==
  /\ phase = [p \in Products |-> "active"]
  /\ stock \in [Products -> Quantities]
  /\ status = [o \in Orders |-> "absent"]
  /\ cart = [o \in Orders |-> <<>>]
  /\ announced = {}
  /\ pc = [t \in Tasks |-> "idle"]
  /\ about = [t \in Tasks |-> IF t \in Orders THEN t ELSE None]
  /\ new = [t \in Tasks |-> None]
  /\ read = [t \in Tasks |-> None]
  /\ at = [t \in Tasks |-> 0]
  /\ last = [t \in Tasks |-> 0]
  /\ call = [t \in Tasks |-> "none"]
  /\ strays = {}
  /\ faults = 0
  /\ taken = [o \in Orders |-> [i \in Lines |-> 0]]
  /\ returned = [t \in Tasks |-> [i \in Lines |-> 0]]
  /\ cancelled = {}

Goto(t, step) == pc' = [pc EXCEPT ![t] = step]
Fault == faults < MaxFaults /\ faults' = faults + 1

-----------------------------------------------------------------------------
(* Calls to the product service *)

(* t goes on at step, calling about items i, i + 1, ... n of its order in turn. *)
CallFrom(t, step, i, n) ==
  /\ Goto(t, step)
  /\ at' = [at EXCEPT ![t] = i]
  /\ last' = [last EXCEPT ![t] = n]
  /\ call' = [call EXCEPT ![t] = "sent"]

(* t goes on at step and calls no more. *)
StopCalling(t, step) ==
  /\ Goto(t, step)
  /\ call' = [call EXCEPT ![t] = "none"]
  /\ UNCHANGED <<at, last>>

TheCall(t) ==
  [by |-> t, at |-> at[t], kind |-> IF pc[t] = "reserve" THEN "reserve" ELSE "release",
   order |-> about[t], item |-> cart[about[t]][at[t]]]

(* The product service executes call c; answer is what it says. *)
Execute(c, answer) ==
  LET p == c.item.product
      q == c.item.quantity
  IN /\ \/ /\ c.kind = "reserve" /\ Reserve(p, q) /\ answer = "granted"
           /\ taken' = [taken EXCEPT ![c.order][c.at] = @ + 1]
           /\ UNCHANGED returned
        \/ /\ c.kind = "release" /\ Release(p, q) /\ answer = "granted"
           /\ returned' = [returned EXCEPT ![c.by][c.at] = @ + 1]
           /\ UNCHANGED taken
        \/ /\ answer = "refused"
           /\ IF c.kind = "reserve" THEN ~CanReserve(p, q) ELSE ~Listed(p)
           /\ UNCHANGED <<warehouseVars, taken, returned>>
     /\ UNCHANGED cancelled

Reach(t) ==
  /\ call[t] = "sent"
  /\ \E answer \in {"granted", "refused"} :
       /\ Execute(TheCall(t), answer)
       /\ call' = [call EXCEPT ![t] = answer]
  /\ UNCHANGED <<tableVars, announced, pc, about, new, read, at, last, strays, faults>>

ReachLate(c) ==
  /\ strays' = strays \ {c}
  /\ \E answer \in {"granted", "refused"} : Execute(c, answer)
  /\ UNCHANGED <<tableVars, announced, taskVars, faults>>

(* The caller of t's call is gone: the call may still arrive. *)
Abandon(t) ==
  \/ UNCHANGED strays
  \/ call[t] = "sent" /\ strays' = strays \cup {TheCall(t)}

-----------------------------------------------------------------------------
(* create_order *)

Create(o, c) ==
  /\ pc[o] = "idle"
  /\ cart' = [cart EXCEPT ![o] = c]
  /\ CallFrom(o, "reserve", 1, Len(c))
  /\ UNCHANGED <<warehouseVars, status, announced, about, new, read, strays, faults, history>>

Reserved(o) ==
  /\ pc[o] = "reserve" /\ call[o] = "granted"
  /\ IF at[o] < last[o] THEN CallFrom(o, "reserve", at[o] + 1, last[o])
                        ELSE StopCalling(o, "persist")
  /\ UNCHANGED <<warehouseVars, tableVars, announced, about, new, read, strays, faults, history>>

(* Fault: the compensation includes the item that failed. *)
CompensateAll(o) == CallFrom(o, "compensate", 1, at[o])

(* Fault: no compensation. *)
CompensateNothing(o) == StopCalling(o, "refused")

(* Release the items reserved before the one that failed. *)
Compensate(o) ==
  IF at[o] = 1 THEN StopCalling(o, "refused")
               ELSE CallFrom(o, "compensate", 1, at[o] - 1)

NotReserved(o) ==
  /\ pc[o] = "reserve" /\ call[o] = "refused"
  /\ Compensate(o)
  /\ UNCHANGED <<warehouseVars, tableVars, announced, about, new, read, strays, faults, history>>

Persist(o) ==
  /\ pc[o] = "persist"
  /\ status' = [status EXCEPT ![o] = "PENDING"]
  /\ Goto(o, "announce")
  /\ UNCHANGED <<warehouseVars, cart, announced, about, new, read, at, last, call, strays,
                 faults, history>>

(* OrderCreated or OrderCancelled, published when the work is done. *)
Announce(t) ==
  /\ pc[t] = "announce"
  /\ announced' = announced \cup {<<IF t \in Orders THEN "OrderCreated" ELSE "OrderCancelled",
                                    about[t]>>}
  /\ Goto(t, "done")
  /\ UNCHANGED <<warehouseVars, tableVars, about, new, read, at, last, call, strays, faults,
                 history>>

-----------------------------------------------------------------------------
(* cancel_order and update_status: SELECT without a lock, and later UPDATE *)

Accepts(t, o) ==
  /\ status[o] # "absent"
  /\ t \in Cancels => status[o] \notin {"CANCELLED", "REFUNDED"}

Load(t, o, s) ==
  /\ pc[t] = "idle"
  /\ about' = [about EXCEPT ![t] = o]
  /\ new' = [new EXCEPT ![t] = s]
  /\ \/ ~Accepts(t, o) /\ Goto(t, "refused") /\ UNCHANGED read
     \/ Accepts(t, o) /\ Goto(t, "commit") /\ read' = [read EXCEPT ![t] = status[o]]
  /\ UNCHANGED <<warehouseVars, tableVars, announced, at, last, call, strays, faults, history>>

(* The ORM writes the column only if it changes from the value read. *)
SetStatus(t) ==
  status' = IF read[t] = new[t] THEN status ELSE [status EXCEPT ![about[t]] = new[t]]

CommitCancel(t) ==
  /\ pc[t] = "commit" /\ t \in Cancels
  /\ SetStatus(t)
  /\ cancelled' = cancelled \cup {t}
  /\ CallFrom(t, "release", 1, Len(cart[about[t]]))
  /\ UNCHANGED <<warehouseVars, cart, announced, about, new, read, strays, faults, taken, returned>>

CommitUpdate(t) ==
  /\ pc[t] = "commit" /\ t \in Updates
  /\ SetStatus(t)
  /\ Goto(t, "done")
  /\ UNCHANGED <<warehouseVars, cart, announced, about, new, read, at, last, call, strays, faults,
                 history>>

(* Fault: off by one at the end of the items. *)
NextReleasePastEnd(t) ==
  IF at[t] =< last[t] THEN CallFrom(t, pc[t], at[t] + 1, last[t])
                      ELSE StopCalling(t, IF pc[t] = "release" THEN "announce" ELSE "refused")

(* _release_product looks neither at the answer nor at an error. *)
NextRelease(t) ==
  IF at[t] < last[t] THEN CallFrom(t, pc[t], at[t] + 1, last[t])
                     ELSE StopCalling(t, IF pc[t] = "release" THEN "announce" ELSE "refused")

Released(t) ==
  /\ pc[t] \in {"compensate", "release"} /\ call[t] \in {"granted", "refused"}
  /\ NextRelease(t)
  /\ UNCHANGED <<warehouseVars, tableVars, announced, about, new, read, strays, faults, history>>

-----------------------------------------------------------------------------
(* Failures *)

(* Fault: a reservation that timed out is taken for granted. *)
TimeOutGranted(t) ==
  /\ call[t] # "none"
  /\ Fault
  /\ Abandon(t)
  /\ IF pc[t] # "reserve" THEN NextRelease(t)
     ELSE IF at[t] < last[t] THEN CallFrom(t, "reserve", at[t] + 1, last[t])
                             ELSE StopCalling(t, "persist")
  /\ UNCHANGED <<warehouseVars, tableVars, announced, about, new, read, history>>

(* httpx raises: the call or its answer was lost, or is late. *)
TimeOut(t) ==
  /\ call[t] # "none"
  /\ Fault
  /\ Abandon(t)
  /\ IF pc[t] = "reserve" THEN Compensate(t) ELSE NextRelease(t)
  /\ UNCHANGED <<warehouseVars, tableVars, announced, about, new, read, history>>

(* Fault: a failed commit does not stop the cancellation. *)
CommitFailsOn(t) ==
  /\ pc[t] = "commit" /\ t \in Cancels
  /\ Fault
  /\ CallFrom(t, "release", 1, Len(cart[about[t]]))
  /\ UNCHANGED <<warehouseVars, tableVars, announced, about, new, read, strays, history>>

(* A commit raises and is rolled back: 500, and nothing compensates. *)
CommitFails(t) ==
  /\ pc[t] \in {"persist", "commit"}
  /\ Fault
  /\ Goto(t, "refused")
  /\ UNCHANGED <<warehouseVars, tableVars, announced, about, new, read, at, last, call, strays,
                 history>>

(* The replica dies. *)
Crash(t) ==
  /\ pc[t] \notin {"idle", "done", "refused"}
  /\ Fault
  /\ Abandon(t)
  /\ StopCalling(t, "refused")
  /\ UNCHANGED <<warehouseVars, tableVars, announced, about, new, read, history>>

-----------------------------------------------------------------------------
Work(t) ==
  \/ Reach(t) \/ Released(t) \/ Announce(t) \/ CommitCancel(t) \/ CommitUpdate(t)
  \/ t \in Orders /\ (Reserved(t) \/ NotReserved(t) \/ Persist(t))

(* The operations staff takes a product off the shelf. *)
Staff ==
  /\ \E p \in Products : \/ Remove(p)
                         \/ phase[p] = "active" /\ Edit(p, stock[p], "inactive")
  /\ UNCHANGED <<tableVars, announced, taskVars, strays, faults, history>>

Next ==
  \/ \E o \in Orders, c \in Carts : Create(o, c)
  \/ \E t \in Cancels, o \in Orders : Load(t, o, "CANCELLED")
  \/ \E t \in Updates, o \in Orders, s \in OrderStatuses : Load(t, o, s)
  \/ \E t \in Tasks : Work(t) \/ TimeOut(t) \/ CommitFails(t) \/ Crash(t)
  \/ \E c \in strays : ReachLate(c)
  \/ Staff

Spec == Init /\ [][Next]_vars

-----------------------------------------------------------------------------
(* Properties *)

(* An order row exists only if each of its items was reserved, exactly once, whatever
   was lost, late or refused on the way; and an order is announced only if it exists. *)
PersistedIsReserved ==
  \A o \in Orders :
    /\ status[o] # "absent" => \A i \in DOMAIN cart[o] : taken[o][i] = 1
    /\ <<"OrderCreated", o>> \in announced => status[o] # "absent"

(* The compensation of a create request returns only what that request reserved, and
   nothing of an order that exists, not even by a call that arrives late. *)
CompensatesOnlyReserved ==
  \A o \in Orders, i \in Lines :
    returned[o][i] =< IF status[o] = "absent" THEN taken[o][i] ELSE 0

(* Items of an order come back only because a cancellation of it was committed, each
   at most once for each; and only a committed one is announced. *)
ReturnsPerCancel ==
  /\ \A t \in Cancels, i \in Lines :
       returned[t][i] =< IF t \in cancelled /\ i \in DOMAIN cart[about[t]] THEN 1 ELSE 0
  /\ \A o \in Orders :
       <<"OrderCancelled", o>> \in announced => \E t \in cancelled : about[t] = o

Quiet == strays = {} /\ \A t \in Tasks : pc[t] \in {"idle", "done", "refused"}

CancelsOf(o) == {t \in cancelled : about[t] = o}

(* Without failures, and when no request is under way, an order cancelled at most once
   balances, item by item: a refused create request holds nothing; an order holds its
   units while no cancellation of it was committed, whatever its status says: one
   that FAILED keeps them too, although release_stock's words are "when order is
   cancelled or payment fails"; and after its one cancellation it holds nothing, even if a status
   update wrote over CANCELLED since.  (Of racing cancellations each returns the
   units: UnitsReturnedOnce.) *)
BooksBalance ==
  faults = 0 /\ Quiet =>
    \A o \in Orders : (\A t, u \in CancelsOf(o) : t = u) =>
      \A i \in DOMAIN cart[o] : Listed(cart[o][i].product) =>
        /\ status[o] = "absent" => taken[o][i] = returned[o][i]
        /\ status[o] # "absent" /\ CancelsOf(o) = {} =>
             taken[o][i] = 1 /\ \A t \in Cancels \cup {o} : about[t] = o => returned[t][i] = 0
        /\ \A t \in CancelsOf(o) : taken[o][i] = returned[o][i] + returned[t][i]

(* The units of an order come back once. *)
UnitsReturnedOnce ==
  \A t, u \in Tasks :
    t # u /\ about[t] = about[u] => \A i \in Lines : returned[t][i] + returned[u][i] =< 1
=============================================================================
