------------------------------ MODULE Checkout ------------------------------
(***************************************************************************)
(* One shopper at the checkout page, who may submit the form again after   *)
(* an error, the gateway, which gives up after fifteen seconds while the   *)
(* services go on, payment requests made directly to the API for the       *)
(* shopper's orders, and what the services then do with orders, payments   *)
(* and events.  create_order and process_payment are reduced to the steps  *)
(* that Orders and Payments have in detail and other requests can see.     *)
(***************************************************************************)
EXTENDS EventFlow

CONSTANTS
  Submits,   \* submits of the form: each names the order it creates and its payment request
  Keys,      \* idempotency keys the page makes, in this order: 1, 2, ...
  CallKeys,  \* keys made by other clients of the API, such as "..._attempt1"
  MaxPaying, \* bound on payment requests
  UseMock    \* settings.USE_MOCK_PAYMENT_PROVIDER

(* A payment request names the event it may store. *)
Requests == Messages
Calls == Requests \ Submits
AllKeys == Keys \cup CallKeys

ASSUME CheckoutAssumption ==
  /\ Submits \subseteq Requests \cap (Nat \ {0}) /\ Orders = Submits
  /\ AllKeys \subseteq Nat \ {0} /\ 1 \in Keys /\ Keys \cap CallKeys = {}
  /\ MaxPaying \in Nat

Row == [order: Orders, status: {"SUCCEEDED", "FAILED"}]

ASSUME NoneAssumption ==
  /\ None \notin AllKeys /\ None \notin Event /\ None \notin Row
  /\ None \notin {"SUCCEEDED", "FAILED"}

VARIABLES
  page,      \* what the page waits for, or "form", or "thanks"
  submit,    \* the submit it is at, 0 before the first
  key,       \* the idempotencyKey of the form
  shown,     \* submits after which the page said "Payment processed successfully!"
  ordering,  \* submit -> its POST /orders: "none", "running", "created" or "refused"
  paying,    \* payment request -> where it is, or its answer
  keyOf,     \* payment request -> the key it carried, 0 before
  orderOf,   \* payment request -> the order it pays for
  outcome,   \* payment request -> the status its payment is to be stored with
  payments,  \* table payments: key -> its row
  taken, intents  \* the provider: see Provider

checkoutVars == <<page, submit, key, shown, ordering, paying, keyOf, orderOf, outcome, payments,
                  taken, intents>>
vars == <<busVars, flowVars, checkoutVars>>

Bank == INSTANCE Provider WITH
  Refunds <- {}, EmptyKey <- 0, Inputs <- {}, RefundInputs <- {},
  repaid <- {}, refunding <- [f \in {} |-> None]

Waiting == {"ordering", "checking", "paying"}

TypeOK ==
  /\ FlowTypeOK
  /\ page \in Waiting \cup {"form", "thanks"}
  /\ submit \in Submits \cup {0}
  /\ key \in Keys
  /\ shown \subseteq Submits
  /\ ordering \in [Submits -> {"none", "running", "created", "refused"}]
  /\ paying \in [Requests -> {"none", "lookup", "charge", "save", "201", "400"}]
  /\ keyOf \in [Requests -> AllKeys \cup {0}]
  /\ orderOf \in [Requests -> Orders \cup {None}]
  /\ outcome \in [Requests -> {"SUCCEEDED", "FAILED", None}]
  /\ payments \in [AllKeys -> Row \cup {None}]
  /\ \A r \in Requests : /\ paying[r] # "none" <=> keyOf[r] # 0
                         /\ keyOf[r] # 0 <=> orderOf[r] # None
                         /\ paying[r] = "save" => outcome[r] # None
                         /\ paying[r] = "201" => payments[keyOf[r]] # None
  /\ \A s \in Submits : status[s] # "absent" <=> ordering[s] = "created"

Init ==
  /\ FlowInit
  /\ page = "form"
  /\ submit = 0
  /\ key = 1
  /\ shown = {}
  /\ ordering = [s \in Submits |-> "none"]
  /\ paying = [r \in Requests |-> "none"]
  /\ keyOf = [r \in Requests |-> 0]
  /\ orderOf = [r \in Requests |-> None]
  /\ outcome = [r \in Requests |-> None]
  /\ payments = [k \in AllKeys |-> None]
  /\ taken = {}
  /\ intents = {}

bankVars == <<taken, intents>>
serviceVars == <<ordering, paying, outcome, payments, bankVars>>

-----------------------------------------------------------------------------
(* The page *)

(* Payment request r for order o sets out under key k. *)
SendPayment(r, o, k) ==
  /\ keyOf[r] = 0
  /\ Cardinality({x \in Requests : keyOf[x] # 0}) < MaxPaying
  /\ keyOf' = [keyOf EXCEPT ![r] = k]
  /\ orderOf' = [orderOf EXCEPT ![r] = o]
  /\ paying' = [paying EXCEPT ![r] = "lookup"]

(* handleCheckout begins with an order, and with a new one after each error. *)
Submit ==
  /\ page = "form" /\ submit + 1 \in Submits
  /\ submit' = submit + 1
  /\ page' = "ordering"
  /\ ordering' = [ordering EXCEPT ![submit + 1] = "running"]
  /\ UNCHANGED <<busVars, flowVars, key, shown, paying, keyOf, orderOf, outcome, payments, bankVars>>

OrderAnswered ==
  /\ page = "ordering" /\ ordering[submit] \in {"created", "refused"}
  /\ page' = IF ordering[submit] = "created" THEN "checking" ELSE "form"
  /\ UNCHANGED <<busVars, flowVars, submit, key, shown, serviceVars, keyOf, orderOf>>

(* The page asks the fraud service itself and stops at REJECT. *)
FraudAnswered ==
  /\ page = "checking"
  /\ \/ page' = "form" /\ UNCHANGED <<keyOf, orderOf, paying>>
     \/ page' = "paying" /\ SendPayment(submit, submit, key)
  /\ UNCHANGED <<busVars, flowVars, submit, key, shown, ordering, outcome, payments, bankVars>>

(* Any 201 is a success; nobody looks at the status of the payment in it. *)
PaymentAnswered ==
  /\ page = "paying" /\ paying[submit] \in {"201", "400"}
  /\ \/ /\ paying[submit] = "201"
        /\ page' = "thanks"
        /\ shown' = shown \cup {submit}
     \/ /\ paying[submit] = "400"
        /\ page' = "form"
        /\ UNCHANGED shown
  /\ UNCHANGED <<busVars, flowVars, submit, key, serviceVars, keyOf, orderOf>>

(* An error instead of an answer: the gateway has waited long enough (504), does
   not reach the service (503), or the service has failed (500). The request may
   go on, and the form keeps its key. *)
GiveUp ==
  /\ page \in Waiting
  /\ page' = "form"
  /\ UNCHANGED <<busVars, flowVars, submit, key, shown, serviceVars, keyOf, orderOf>>

(* The button for a new key, a reload of the page, or the next purchase. (A key not yet sent
   is as good as a new one, and after the last submit nothing carries a new one.) *)
NewKey ==
  /\ page \in {"form", "thanks"} /\ key + 1 \in Keys
  /\ submit + 1 \in Submits /\ \E r \in Requests : keyOf[r] = key
  /\ page' = "form"
  /\ key' = key + 1
  /\ UNCHANGED <<busVars, flowVars, submit, shown, serviceVars, keyOf, orderOf>>

-----------------------------------------------------------------------------
(* The order service: create_order, whole *)

(* Fault: the row is committed before the stock is asked for. *)
CommitFirst(s) ==
  /\ ordering[s] = "running"
  /\ \E answer \in {"created", "refused"} : ordering' = [ordering EXCEPT ![s] = answer]
  /\ status' = [status EXCEPT ![s] = "PENDING"]
  /\ UNCHANGED <<busVars, event, sends, setting, cancelling, notices, faults, lost, page, submit,
                 key, shown, paying, keyOf, orderOf, outcome, payments, bankVars>>

CreateOrder(s) ==
  /\ ordering[s] = "running"
  /\ \/ /\ ordering' = [ordering EXCEPT ![s] = "created"]
        /\ status' = [status EXCEPT ![s] = "PENDING"]
     \/ /\ ordering' = [ordering EXCEPT ![s] = "refused"]
        /\ UNCHANGED status
  /\ UNCHANGED <<busVars, event, sends, setting, cancelling, notices, faults, lost, page, submit,
                 key, shown, paying, keyOf, orderOf, outcome, payments, bankVars>>

-----------------------------------------------------------------------------
(* The payment service: process_payment *)

(* POST /payments takes any order under any key: a client may pay for one order in several
   attempts, each under a key of its own. *)
Call(r, o, k) ==
  /\ ordering[o] = "created"   \* an order's id is known once it was created
  /\ SendPayment(r, o, k)
  /\ UNCHANGED <<busVars, flowVars, page, submit, key, shown, ordering, outcome, payments, bankVars>>

PayGoto(r, step) == paying' = [paying EXCEPT ![r] = step]

(* A payment stored under the key is the answer, whatever its status. Otherwise
   the fraud check lets it be charged or has it stored as failed. *)
LookUpKey(r) ==
  /\ paying[r] = "lookup"
  /\ \/ /\ payments[keyOf[r]] # None
        /\ PayGoto(r, "201") /\ UNCHANGED outcome
     \/ /\ payments[keyOf[r]] = None
        /\ \/ PayGoto(r, "charge") /\ UNCHANGED outcome
           \/ PayGoto(r, "save") /\ outcome' = [outcome EXCEPT ![r] = "FAILED"]
  /\ UNCHANGED <<busVars, flowVars, page, submit, key, shown, ordering, keyOf, orderOf, payments,
                 bankVars>>

Charge(r) ==
  /\ paying[r] = "charge"
  /\ \E res \in Bank!Result :
       /\ Bank!CreateCharge(r, keyOf[r], [amount |-> "cents", order |-> orderOf[r]], res)
       /\ outcome' = [outcome EXCEPT ![r] = IF res.ok THEN "SUCCEEDED" ELSE "FAILED"]
  /\ PayGoto(r, "save")
  /\ UNCHANGED <<busVars, flowVars, page, submit, key, shown, ordering, keyOf, orderOf, payments>>

(* Fault: a payment that failed is answered like any other. *)
AnswerAlways(stored) == "201"

AnswerFor(stored) == IF stored = "SUCCEEDED" THEN "201" ELSE "400"

EventTypeFor(stored) ==
  IF stored = "SUCCEEDED" THEN "PaymentCompleted" ELSE "PaymentFailed"

(* Fault: the loser of a race for the key stores its event all the same. *)
SaveWithEvent(r) ==
  /\ paying[r] = "save"
  /\ payments' = [payments EXCEPT ![keyOf[r]] =
                     IF @ = None THEN [order |-> orderOf[r], status |-> outcome[r]] ELSE @]
  /\ StoreEvent(r, EventTypeFor(outcome[r]), orderOf[r])
  /\ PayGoto(r, IF payments[keyOf[r]] = None THEN AnswerFor(outcome[r]) ELSE "201")
  /\ outcome' = [outcome EXCEPT ![r] = None]
  /\ UNCHANGED <<busVars, sends, status, setting, cancelling, notices, faults, lost, page, submit,
                 key, shown, ordering, keyOf, orderOf, bankVars>>

(* Payment and event are committed in one transaction; the loser of a race for the
   key is answered with the winner's payment. *)
SavePayment(r) ==
  /\ paying[r] = "save"
  /\ \/ /\ payments[keyOf[r]] = None
        /\ payments' = [payments EXCEPT ![keyOf[r]] =
                          [order |-> orderOf[r], status |-> outcome[r]]]
        /\ StoreEvent(r, EventTypeFor(outcome[r]), orderOf[r])
        /\ PayGoto(r, AnswerFor(outcome[r]))
     \/ /\ payments[keyOf[r]] # None
        /\ PayGoto(r, "201")
        /\ UNCHANGED <<payments, event>>
  /\ outcome' = [outcome EXCEPT ![r] = None]
  /\ UNCHANGED <<busVars, sends, status, setting, cancelling, notices, faults, lost, page, submit,
                 key, shown, ordering, keyOf, orderOf, bankVars>>

-----------------------------------------------------------------------------
Shopper ==
  Submit \/ OrderAnswered \/ FraudAnswered \/ PaymentAnswered \/ GiveUp \/ NewKey

Pay(r) == LookUpKey(r) \/ Charge(r) \/ SavePayment(r)

Next ==
  \/ Shopper
  \/ \E s \in Submits : CreateOrder(s)
  \/ \E r \in Calls, o \in Orders, k \in CallKeys : Call(r, o, k)
  \/ \E r \in Requests : Pay(r)
  \/ FlowNext /\ UNCHANGED checkoutVars

Spec == Init /\ [][Next]_vars

-----------------------------------------------------------------------------
(* Properties *)

(* The payment requests that carried k. *)
Under(k) == {r \in Requests : keyOf[r] = k}

HasPayment(o, stored) == \E k \in AllKeys : payments[k] = [order |-> o, status |-> stored]

(* Whatever times out, is retried or overtaken: at Stripe, money is taken once at most
   under one key, and an order is PAID only if money was taken for it. *)
OnePurchasePerKey ==
  /\ \A k \in AllKeys : Cardinality(taken \cap Under(k)) =< 1
  /\ \A o \in Orders : status[o] = "PAID" => \E r \in taken : orderOf[r] = o

(* When the page says that the payment was processed after the first request under
   its key, then money was taken for that very order, and the payment says so. *)
FirstShownIsPaid ==
  \A s \in shown :
    (\A r \in Under(keyOf[s]) : r >= s) =>
      s \in taken /\ payments[keyOf[s]] = [order |-> s, status |-> "SUCCEEDED"]

(* Events are repeated, reordered and overtaken by cancellations, and the handlers write
   blindly. The status an order gets from them is always that of a payment stored for
   it, so that PAID and FAILED take turns only on an order with a payment of each kind:
   there a late PaymentFailed of one attempt does take back the PAID of another. *)
StatusFollowsPayment ==
  [][\A o \in Orders : status'[o] # status[o] =>
       /\ status'[o] = "PAID" => HasPayment(o, "SUCCEEDED")
       /\ status'[o] = "FAILED" => HasPayment(o, "FAILED")
       /\ {status[o], status'[o]} = {"PAID", "FAILED"} =>
            HasPayment(o, "SUCCEEDED") /\ HasPayment(o, "FAILED")]_vars

(* A buyer hears of a payment what is stored of it, under each key of one payment only,
   whichever replicas of the notification service tell it and however many requests
   raced under the key; and hears it no more often from a replica than it was sent. *)
NoticesAgree ==
  \A n1, n2 \in NotificationReplicas, m1, m2 \in Messages :
    notices[n1][m1] > 0 /\ notices[n2][m2] > 0 =>
      /\ notices[n1][m1] =< sends[m1]
      /\ payments[keyOf[m1]].order = event[m1].order
      /\ payments[keyOf[m1]].status = "SUCCEEDED" <=> event[m1].type = "PaymentCompleted"
      /\ keyOf[m1] = keyOf[m2] => m1 = m2

(* A payment whose event was handed over reaches its order: once no handler has the event
   before it, the order is not PENDING any more, unless a delivery of that very event
   to the order service was lost: Redis did not take it, nobody listened, or the
   replica that had it was restarted or failed to write the status. *)
PaymentsReachOrders ==
  \A m \in Messages \ lost :
    sends[m] > 0 /\ (\A s \in OrderReplicas : inbox[s][m] = 0 /\ setting[s][m] = 0) =>
      status[event[m].order] \notin {"absent", "PENDING"}

(* "Payment processed successfully!" is shown for an order only if its payment
   succeeded. *)
ShownIsPaid ==
  \A s \in shown : \E k \in Keys : payments[k] = [order |-> s, status |-> "SUCCEEDED"]
=============================================================================
