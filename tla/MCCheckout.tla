----------------------------- MODULE MCCheckout -----------------------------
(* Small instances of Checkout: a shopper who submits the form a few times. *)
EXTENDS Checkout, TLC

CONSTANTS relay, orders1, notify1

OneRelay == {relay}
OrderService == {orders1}
NotificationService == {notify1}
Listeners == OrderService \cup NotificationService
=============================================================================
