------------------------------ MODULE Provider ------------------------------
(***************************************************************************)
(* The payment provider as payment-service sees it: the in-process         *)
(* MockPaymentProvider, or Stripe behind StripePaymentProvider.  Each      *)
(* create_charge call is named by the request that makes it, so a          *)
(* transaction id is the request whose call created the charge.            *)
(***************************************************************************)
EXTENDS Naturals, FiniteSets, FiniteSetsExt

CONSTANTS
  Requests,      \* POST /payments requests
  Refunds,       \* POST /payments/{id}/refund requests
  None,          \* SQL NULL, Python None, the empty transaction id
  EmptyKey,      \* the idempotency key "": falsy in Python, not NULL in SQL
  Inputs,        \* bodies of payment requests: [user, key, order, amount]
  RefundInputs,  \* bodies of refund requests: [payment, amount, key]
  UseMock        \* settings.USE_MOCK_PAYMENT_PROVIDER

ChargeUnits == 2   \* what one charge takes, in units of half a payment

ASSUME ConstantsAssumption ==
  /\ None \notin Requests
  /\ UseMock \in BOOLEAN
  /\ \A i \in Inputs : i.amount \in {"cents", "subcent"}
  /\ \A i \in RefundInputs : i.payment \in Requests /\ i.amount \in Nat

VARIABLES
  taken,     \* the requests whose create_charge call took money
  intents,   \* Stripe's idempotency records: [key, params, tx]
  repaid,    \* the refund requests whose refund_charge call paid money back
  refunding  \* refund request -> its input and transaction, or None

providerVars == <<taken, intents, repaid>>

ProviderInit == taken = {} /\ intents = {} /\ repaid = {}

Result == [ok : BOOLEAN, tx : Requests \cup {None}]

(* The mock ignores the idempotency key: every call is a charge of its own,
   declined or not according to the payment method. *)
MockCreateCharge(r, res) ==
  /\ res \in [ok : BOOLEAN, tx : {r}]
  /\ taken' = IF res.ok THEN taken \cup {r} ELSE taken
  /\ UNCHANGED <<intents, repaid>>

StripeError == [ok |-> FALSE, tx |-> None]

(* Stripe remembers the first request made under an idempotency key, with its
   parameters, and replays its answer.  "" is sent as no key at all. *)
StripeKnows(key) == \E i \in intents : i.key = key

StripeNewCharge(r, key, params, ok) ==
  /\ ~StripeKnows(key)
  /\ params.amount = "cents"   \* int(amount * 100) = 0 is refused
  /\ taken' = IF ok THEN taken \cup {r} ELSE taken
  /\ intents' = IF key \in {None, EmptyKey} THEN intents
                ELSE intents \cup {[key |-> key, params |-> params, tx |-> r]}
  /\ UNCHANGED repaid

(* StripePaymentProvider.create_charge: a fresh charge, a replay of the answer
   recorded under the key, or a StripeError that is turned into a failed
   result: a decline, a key reused with other parameters, or a connection lost
   before or after Stripe acted. *)
StripeCreateCharge(r, key, params, res) ==
  \/ /\ res \in [ok : BOOLEAN, tx : {r}]
     /\ StripeNewCharge(r, key, params, res.ok)
  \/ /\ \E i \in intents : /\ i.key = key
                           /\ i.params = params
                           /\ res = [ok |-> i.tx \in taken, tx |-> i.tx]
     /\ UNCHANGED providerVars
  \/ /\ res = StripeError
     /\ UNCHANGED providerVars
  \/ /\ res = StripeError
     /\ StripeNewCharge(r, key, params, TRUE)

(* Fault: the idempotency key is not forwarded to Stripe. *)
CreateChargeWithoutKey(r, key, params, res) ==
  \/ UseMock /\ MockCreateCharge(r, res)
  \/ ~UseMock /\ StripeCreateCharge(r, None, params, res)

CreateCharge(r, key, params, res) ==
  \/ UseMock /\ MockCreateCharge(r, res)
  \/ ~UseMock /\ StripeCreateCharge(r, key, params, res)

Refunded(tx) ==
  MapThenSumSet(LAMBDA f : refunding[f].amount,
                {f \in repaid : refunding[f].tx = tx})

PayBack(f) == repaid' = repaid \cup {f} /\ UNCHANGED <<taken, intents>>

(* The mock pays any refund back; Stripe refuses to pay back more than was
   charged, and its answer may be lost after it did. *)
RefundCharge(f, ok) ==
  \/ UseMock /\ ok /\ PayBack(f)
  \/ /\ ~UseMock
     /\ \/ /\ Refunded(refunding[f].tx) + refunding[f].amount =< ChargeUnits
           /\ PayBack(f)
        \/ ~ok /\ UNCHANGED providerVars
=============================================================================
