------------------------------ MODULE EventFlow -----------------------------
(***************************************************************************)
(* From a stored payment to the status of its order and the notification   *)
(* of its buyer: the payment service hands the events of its outbox to the *)
(* event bus, and the order service and the notification service handle    *)
(* what the bus delivers, each delivery in a task of its own.  The outbox  *)
(* is reduced to what Outbox proves of it (EventRelay): committed messages *)
(* are handed over, again and again up to a bound.                         *)
(***************************************************************************)
EXTENDS EventBus

CONSTANTS
  Orders,
  OrderReplicas, NotificationReplicas,  \* the subscribers
  Cancels,     \* POST /orders/{id}/cancel requests
  MaxSends,    \* bound on the publish calls for one message
  MaxFaults,   \* bound on what is repeated or goes wrong: see faults
  None, Done

ASSUME EventFlowAssumption ==
  /\ Subscribers = OrderReplicas \cup NotificationReplicas
  /\ OrderReplicas \cap NotificationReplicas = {}
  /\ MaxSends \in Nat \ {0} /\ MaxFaults \in Nat
  /\ None \notin Orders /\ Done \notin Orders

VARIABLES
  event,       \* message -> its content once its transaction has committed
  sends,       \* message -> publish calls for it
  status,      \* order -> "absent" or the status column of its row
  setting,     \* order replica -> message -> handlers about to commit the status
  cancelling,  \* cancellation -> the order it has read, then Done
  notices,     \* notification replica -> message -> notifications it stored
  faults,      \* publish calls that were repeated or not heard, restarts of subscribers
               \* and failed handlers so far
  lost         \* history: messages of which a delivery to an order replica was lost

flowVars == <<event, sends, status, setting, cancelling, notices, faults, lost>>

(* PaymentRefunded has no handler in the order service. *)
EventTypes == {"PaymentCompleted", "PaymentFailed"}
Event == [type: EventTypes, order: Orders]
OrderStatuses == {"PENDING", "PAID", "FAILED", "CANCELLED"}

FlowTypeOK ==
  /\ BusTypeOK
  /\ event \in [Messages -> Event \cup {None}]
  /\ sends \in [Messages -> 0..MaxSends]
  /\ status \in [Orders -> OrderStatuses \cup {"absent"}]
  /\ setting \in [OrderReplicas -> [Messages -> 0..MaxSends]]
  /\ cancelling \in [Cancels -> Orders \cup {None, Done}]
  /\ notices \in [NotificationReplicas -> [Messages -> 0..MaxSends]]
  /\ faults \in 0..MaxFaults
  /\ lost \subseteq Messages

FlowInit ==
  /\ BusInit
  /\ event = [m \in Messages |-> None]
  /\ sends = [m \in Messages |-> 0]
  /\ status = [o \in Orders |-> "absent"]
  /\ setting = [s \in OrderReplicas |-> [m \in Messages |-> 0]]
  /\ cancelling = [c \in Cancels |-> None]
  /\ notices = [n \in NotificationReplicas |-> [m \in Messages |-> 0]]
  /\ faults = 0
  /\ lost = {}

-----------------------------------------------------------------------------
Fault == faults < MaxFaults /\ faults' = faults + 1

(* The payment service *)

(* The transaction of a payment stores the event with it. *)
StoreEvent(m, type, o) == event' = [event EXCEPT ![m] = [type |-> type, order |-> o]]

(* By the request or by any processor. If Redis does not take the message, or no order
   replica listens, that is all: publish raises nothing. *)
HandOver(m) ==
  /\ event[m] # None
  /\ sends[m] < MaxSends
  /\ \E p \in Publishers : Publish(p, m)
  /\ sends' = [sends EXCEPT ![m] = @ + 1]
  /\ lost' = IF \E s \in OrderReplicas : inbox'[s] # inbox[s] THEN lost ELSE lost \cup {m}
  /\ IF sends[m] = 0 /\ inbox' # inbox THEN UNCHANGED faults ELSE Fault
  /\ UNCHANGED <<event, status, setting, cancelling, notices>>

-----------------------------------------------------------------------------
(* The subscribers *)

(* A handler task of s begins to run on m. *)
Take(s, m) ==
  /\ inbox[s][m] > 0
  /\ inbox' = [inbox EXCEPT ![s][m] = @ - 1]
  /\ UNCHANGED <<redisUp, connected, listening, reached>>

NewStatus(m) == IF event[m].type = "PaymentCompleted" THEN "PAID" ELSE "FAILED"

(* Fault: the handlers are registered under other event types. *)
HandleNothing(s, m) ==
  /\ Take(s, m)
  /\ UNCHANGED flowVars

(* handle_payment_completed and handle_payment_failed: update_status reads the
   order. Where it is missing, or the status is no other, nothing is written. *)
Handle(s, m) ==
  /\ Take(s, m)
  /\ setting' = [setting EXCEPT ![s][m] =
                   IF status[event[m].order] \in {"absent", NewStatus(m)} THEN @ ELSE @ + 1]
  /\ UNCHANGED <<event, sends, status, cancelling, notices, faults, lost>>

(* ... and commits the status, whatever it is by now. *)
CommitStatus(s, m) ==
  /\ setting[s][m] > 0
  /\ setting' = [setting EXCEPT ![s][m] = @ - 1]
  /\ status' = [status EXCEPT ![event[m].order] = NewStatus(m)]
  /\ UNCHANGED <<busVars, event, sends, cancelling, notices, faults, lost>>

(* The database fails a handler: it logs that and is done. *)
HandlerFails(s, m) ==
  /\ setting[s][m] > 0
  /\ Fault
  /\ setting' = [setting EXCEPT ![s][m] = @ - 1]
  /\ lost' = lost \cup {m}
  /\ UNCHANGED <<busVars, event, sends, status, cancelling, notices>>

(* The log channel always succeeds, and the record goes into a dictionary in memory. *)
SendNotification(n, m) == notices' = [notices EXCEPT ![n][m] = @ + 1]

(* Each delivery makes a receipt or a failure notice, duplicates included. *)
Notify(n, m) ==
  /\ Take(n, m)
  /\ SendNotification(n, m)
  /\ UNCHANGED <<event, sends, status, setting, cancelling, faults, lost>>

(* A subscriber dies with its tasks, its deliveries and its storage, and connects
   anew. What is published meanwhile it never hears; a publish just before has
   the same effect. *)
Restart(s) ==
  /\ Fault
  /\ connected' = [connected EXCEPT ![s] = redisUp]
  /\ listening' = [listening EXCEPT ![s] = redisUp]
  /\ inbox' = [inbox EXCEPT ![s] = [m \in Messages |-> 0]]
  /\ setting' = [x \in OrderReplicas |-> IF x = s THEN [m \in Messages |-> 0] ELSE setting[x]]
  /\ notices' = [x \in NotificationReplicas |->
                   IF x = s THEN [m \in Messages |-> 0] ELSE notices[x]]
  /\ lost' = lost \cup
       {m \in Messages : s \in OrderReplicas /\ (inbox[s][m] > 0 \/ setting[s][m] > 0)}
  /\ UNCHANGED <<redisUp, reached, event, sends, status, cancelling>>

-----------------------------------------------------------------------------
(* cancel_order, in its two halves; the release of the stock is in Orders. *)

LoadCancel(c, o) ==
  /\ cancelling[c] = None
  /\ status[o] \notin {"absent", "CANCELLED"}
  /\ cancelling' = [cancelling EXCEPT ![c] = o]
  /\ UNCHANGED <<busVars, event, sends, status, setting, notices, faults, lost>>

CommitCancel(c) ==
  /\ cancelling[c] \in Orders
  /\ status' = [status EXCEPT ![cancelling[c]] = "CANCELLED"]
  /\ cancelling' = [cancelling EXCEPT ![c] = Done]
  /\ UNCHANGED <<busVars, event, sends, setting, notices, faults, lost>>

-----------------------------------------------------------------------------
(* The deliveries of m go on at every subscriber. *)
Deliver(m) ==
  \/ HandOver(m)
  \/ \E s \in OrderReplicas : Handle(s, m) \/ CommitStatus(s, m)
  \/ \E n \in NotificationReplicas : Notify(n, m)

FlowNext ==
  \/ \E m \in Messages : Deliver(m)
  \/ \E s \in OrderReplicas, m \in Messages : HandlerFails(s, m)
  \/ \E s \in Subscribers : Restart(s)
  \/ \E c \in Cancels : CommitCancel(c) \/ \E o \in Orders : LoadCancel(c, o)
=============================================================================
