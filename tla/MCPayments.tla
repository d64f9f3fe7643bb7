----------------------------- MODULE MCPayments -----------------------------
(* Inputs for model-checking Payments on small instances. *)
EXTENDS Payments, TLC

CONSTANTS r1, r2, r3, f1, f2, u1, u2, k1, o1, o2

In(user, key, order, amount) ==
  [user |-> user, key |-> key, order |-> order, amount |-> amount]

(* One user resends a payment under one key, for another order, or has an amount that
   the column rounds to zero. *)
Retries == {In(u1, k1, o1, "cents"), In(u1, k1, o2, "cents"), In(u1, None, o1, "subcent")}
(* Two users share a key; other requests carry none, or the empty one. *)
TwoUsers == {In(u1, k1, o1, "cents"), In(u2, k1, o1, "cents"), In(u1, None, o1, "cents"),
             In(u1, EmptyKey, o1, "cents")}

NoRefunds == {}
(* Full and half refunds of one payment, under one refund key. *)
RefundsOfR1 == {[payment |-> r1, amount |-> n, key |-> k1] : n \in {1, 2}}

(* The fraud service at its best. *)
Words == {"APPROVE", "REVIEW", "REJECT"}

RequestSymmetry == Permutations(Requests)
=============================================================================
