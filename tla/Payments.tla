------------------------------ MODULE Payments ------------------------------
(***************************************************************************)
(* payment-service: POST /payments and POST /payments/{id}/refund.         *)
(*                                                                         *)
(* Every request is a coroutine with a database session of its own; any    *)
(* number of them, in one process or in several replicas, interleave at    *)
(* their awaits.  One action is the code between two awaits whose effects  *)
(* others can see.  A payment is named by the request that creates it      *)
(* (payment_id is a fresh uuid), an outbox message by the request or       *)
(* refund that writes it.                                                  *)
(***************************************************************************)
EXTENDS Provider

CONSTANTS
  LookupAttempts,  \* rounds of the lookup after an IntegrityError
  Verdicts         \* what the fraud service may answer, of all FraudAnswers

Tasks == Requests \cup Refunds

ASSUME TasksAssumption ==
  /\ Requests \cap Refunds = {}
  /\ LookupAttempts \in Nat \ {0}   \* 5 in the code

VARIABLES
  pc,        \* task -> where it is suspended
  input,     \* request -> body and caller, or None
  answer,    \* request -> what the fraud service answered, or None
  draft,     \* request -> the Payment object it has built, or None
  tries,     \* request -> failed rounds of the lookup after a conflict
  reply,     \* task -> the HTTP answer, or None
  payments,  \* table payments: request -> row, or None
  outbox,    \* table payment_outbox: task -> message, or None
  announced  \* tasks whose event was handed to the event bus right away

vars == <<providerVars, refunding, pc, input, answer, draft, tries, reply,
          payments, outbox, announced>>

(* A 200 answer with a "decision", which nobody validates: it may be null or a word
   that is none of the three ("other"). Or no such answer. *)
FraudFailures == {"malformed", "http error", "unreachable"}
FraudAnswers == {"APPROVE", "REVIEW", "REJECT", "other"} \cup FraudFailures
ASSUME VerdictsAssumption == Verdicts \subseteq FraudAnswers

Statuses == {"SUCCEEDED", "FAILED", "FRAUD_REJECTED", "REFUNDED"}

(* A Payment: order, user and key are those of input[r], which never change. *)
Payment == [status : Statuses, tx : Requests \cup {None}]
Message == [type : {"Completed", "Failed", "Refunded"}, payment : Requests]
Reply == [code : {200, 201, 400, 404, 500},
          payment : Requests \cup {None},
          status : Statuses \cup {None}]

ASSUME NoneAssumption == None \notin Payment \cup Message \cup Reply

Refunding == [payment : Requests, amount : Nat, key : {i.key : i \in RefundInputs},
              tx : Requests \cup {None}]

RequestSteps == {"idle", "own", "any", "fraud", "charge", "save", "recover own",
                 "recover any", "publish", "done", "crashed"}
RefundSteps == {"idle", "call", "update", "publish", "done", "crashed"}

Init ==
  /\ ProviderInit
  /\ refunding = [f \in Refunds |-> None]
  /\ pc = [t \in Tasks |-> "idle"]
  /\ input = [r \in Requests |-> None]
  /\ answer = [r \in Requests |-> None]
  /\ draft = [r \in Requests |-> None]
  /\ tries = [r \in Requests |-> 0]
  /\ reply = [t \in Tasks |-> None]
  /\ payments = [r \in Requests |-> None]
  /\ outbox = [t \in Tasks |-> None]
  /\ announced = {}

-----------------------------------------------------------------------------
(* Helpers *)

Goto(t, step) == pc' = [pc EXCEPT ![t] = step]

Answer(t, code, p, status) ==
  /\ reply' = [reply EXCEPT ![t] = [code |-> code, payment |-> p, status |-> status]]
  /\ Goto(t, "done")

ReturnExisting(r, p) == Answer(r, 201, p, payments[p].status)
InternalError(t) == Answer(t, 500, None, None)

(* Both columns are compared with IS NULL when the key is None. *)
RowsOf(user, key) ==
  {p \in Requests : payments[p] # None /\ input[p].user = user /\ input[p].key = key}
OwnRows(r) == RowsOf(input[r].user, input[r].key)
RowsUnder(r) == {p \in Requests : payments[p] # None /\ input[p].key = input[r].key}

(* scalar_one_or_none raises MultipleResultsFound. *)
ReturnFrom(r, rows) ==
  \/ \E p \in rows : rows = {p} /\ ReturnExisting(r, p)
  \/ Cardinality(rows) > 1 /\ InternalError(r)

(* Fault: the unique constraint is missing. *)
ViolatesCheckOnly(r) == input[r].amount = "subcent"

(* The columns are NUMERIC(10, 2), CHECK (amount > 0): 0.001 is stored as 0.00. *)
ViolatesConstraint(r) ==
  \/ input[r].amount = "subcent"
  \/ input[r].key # None /\ OwnRows(r) # {}

EventFor(status) == IF status = "SUCCEEDED" THEN "Completed" ELSE "Failed"

-----------------------------------------------------------------------------
(* PaymentService.process_payment *)

Submit(r) ==
  /\ pc[r] = "idle"
  /\ \E i \in Inputs :
       /\ input' = [input EXCEPT ![r] = i]
       /\ Goto(r, IF i.key \in {None, EmptyKey} THEN "fraud" ELSE "own")
  /\ UNCHANGED <<providerVars, refunding, answer, draft, tries, reply, payments, outbox, announced>>

PreflightOwn(r) ==
  /\ pc[r] = "own"
  /\ \/ ReturnFrom(r, OwnRows(r))
     \/ OwnRows(r) = {} /\ Goto(r, "any") /\ UNCHANGED reply
  /\ UNCHANGED <<providerVars, refunding, input, answer, draft, tries, payments, outbox, announced>>

PreflightAny(r) ==
  /\ pc[r] = "any"
  /\ \/ ReturnFrom(r, RowsUnder(r))
     \/ RowsUnder(r) = {} /\ Goto(r, "fraud") /\ UNCHANGED reply
  /\ UNCHANGED <<providerVars, refunding, input, answer, draft, tries, payments, outbox, announced>>

(* Fault: the body of an error is handed on like an answer. *)
DecisionOfError(a) == IF a \in {"malformed", "unreachable"} THEN "REVIEW" ELSE a

(* _check_fraud: a failure counts as REVIEW, any decision of an answer as it is. *)
Decision(a) == IF a \in FraudFailures THEN "REVIEW" ELSE a

Held(decision) ==
  [status |-> IF decision = "REJECT" THEN "FRAUD_REJECTED" ELSE "FAILED", tx |-> None]

(* Only REJECT and REVIEW are tested for; whatever else it is, the request goes on. *)
CheckFraud(r) ==
  /\ pc[r] = "fraud"
  /\ \E a \in Verdicts :
       /\ answer' = [answer EXCEPT ![r] = a]
       /\ IF Decision(a) \in {"REJECT", "REVIEW"}
          THEN Goto(r, "save") /\ draft' = [draft EXCEPT ![r] = Held(Decision(a))]
          ELSE Goto(r, "charge") /\ UNCHANGED draft
  /\ UNCHANGED <<providerVars, refunding, input, tries, reply, payments, outbox, announced>>

(* Faults: the provider's verdict is ignored, not yet recorded. *)
ChargedAnyway(res) == [status |-> "SUCCEEDED", tx |-> res.tx]
ChargedPending(res) == [status |-> "PENDING", tx |-> res.tx]

Charged(res) == [status |-> IF res.ok THEN "SUCCEEDED" ELSE "FAILED", tx |-> res.tx]

Charge(r) ==
  /\ pc[r] = "charge"
  /\ \E res \in Result :
       /\ CreateCharge(r, input[r].key, input[r], res)
       /\ draft' = [draft EXCEPT ![r] = Charged(res)]
  /\ Goto(r, "save")
  /\ UNCHANGED <<refunding, input, answer, tries, reply, payments, outbox, announced>>

(* Fault: the session is never committed. *)
SaveUncommitted(r) ==
  /\ pc[r] = "save"
  /\ ~ViolatesConstraint(r)
  /\ Goto(r, "publish")
  /\ UNCHANGED <<providerVars, refunding, input, answer, draft, tries, reply, payments, outbox, announced>>

(* save_payment_with_outbox: row and message in one transaction. *)
Save(r) ==
  /\ pc[r] = "save"
  /\ ~ViolatesConstraint(r)
  /\ payments' = [payments EXCEPT ![r] = draft[r]]
  /\ outbox' = [outbox EXCEPT ![r] = [type |-> EventFor(draft[r].status), payment |-> r]]
  /\ Goto(r, "publish")
  /\ UNCHANGED <<providerVars, refunding, input, answer, draft, tries, reply, announced>>

(* Faults: a conflict is not caught, or is taken for success. *)
SaveConflictRaises(r) ==
  /\ pc[r] = "save"
  /\ ViolatesConstraint(r)
  /\ InternalError(r)
  /\ UNCHANGED <<providerVars, refunding, input, answer, draft, tries, payments, outbox, announced>>

SaveConflictIgnored(r) ==
  /\ pc[r] = "save"
  /\ ViolatesConstraint(r)
  /\ Goto(r, "publish")
  /\ UNCHANGED <<providerVars, refunding, input, answer, draft, tries, reply, payments, outbox, announced>>

SaveConflict(r) ==
  /\ pc[r] = "save"
  /\ ViolatesConstraint(r)
  /\ Goto(r, "recover own")
  /\ UNCHANGED <<providerVars, refunding, input, answer, draft, tries, reply, payments, outbox, announced>>

RecoverOwn(r) ==
  /\ pc[r] = "recover own"
  /\ \/ ReturnFrom(r, OwnRows(r))
     \/ OwnRows(r) = {} /\ Goto(r, "recover any") /\ UNCHANGED reply
  /\ UNCHANGED <<providerVars, refunding, input, answer, draft, tries, payments, outbox, announced>>

(* Fault: the lookup loop has no bound. *)
CountNothing(r) == UNCHANGED tries

CountRound(r) == tries' = [tries EXCEPT ![r] = @ + 1]

RecoverAny(r) ==
  /\ pc[r] = "recover any"
  /\ \/ ReturnFrom(r, RowsUnder(r)) /\ UNCHANGED tries
     \/ /\ RowsUnder(r) = {}
        /\ CountRound(r)
        /\ IF tries[r] + 1 < LookupAttempts
           THEN Goto(r, "recover own") /\ UNCHANGED reply
           ELSE InternalError(r)   \* the IntegrityError is raised again
  /\ UNCHANGED <<providerVars, refunding, input, answer, draft, payments, outbox, announced>>

(* The immediate dispatch, then the answer; the message stays in the outbox. *)
Publish(r) ==
  /\ pc[r] = "publish"
  /\ announced' = announced \cup {r}
  /\ Answer(r, IF draft[r].status = "SUCCEEDED" THEN 201 ELSE 400, r, draft[r].status)
  /\ UNCHANGED <<providerVars, refunding, input, answer, draft, tries, payments, outbox>>

-----------------------------------------------------------------------------
(* PaymentService.refund_payment; the router passes is_admin=True *)

(* Fault: the status of the payment is not checked. *)
RefundableAlways(row) == row # None

Refundable(row) == row # None /\ row.status = "SUCCEEDED"

RefundLoad(f) ==
  /\ pc[f] = "idle"
  /\ \E i \in RefundInputs :
       LET row == payments[i.payment] IN
       IF Refundable(row)
       THEN /\ refunding' = [refunding EXCEPT ![f] =
                 [payment |-> i.payment, amount |-> i.amount, key |-> i.key, tx |-> row.tx]]
            /\ Goto(f, "call")
            /\ UNCHANGED reply
       ELSE Answer(f, IF row = None THEN 404 ELSE 400, None, None) /\ UNCHANGED refunding
  /\ UNCHANGED <<providerVars, input, answer, draft, tries, payments, outbox, announced>>

RefundCall(f) ==
  /\ pc[f] = "call"
  /\ \E ok \in BOOLEAN :
       /\ RefundCharge(f, ok)
       /\ IF ok THEN Goto(f, "update") /\ UNCHANGED reply
                ELSE Answer(f, 400, None, None)
  /\ UNCHANGED <<refunding, input, answer, draft, tries, payments, outbox, announced>>

(* Fault: the refund is stored without its message. *)
RefundUpdateAlone(f) ==
  /\ pc[f] = "update"
  /\ payments' = [payments EXCEPT ![refunding[f].payment].status = "REFUNDED"]
  /\ Goto(f, "publish")
  /\ UNCHANGED <<providerVars, refunding, input, answer, draft, tries, reply, outbox, announced>>

(* UPDATE payments SET status by primary key, with no check of the old status,
   and the message, in one transaction. *)
RefundUpdate(f) ==
  /\ pc[f] = "update"
  /\ LET p == refunding[f].payment IN
       /\ payments' = [payments EXCEPT ![p].status = "REFUNDED"]
       /\ outbox' = [outbox EXCEPT ![f] = [type |-> "Refunded", payment |-> p]]
  /\ Goto(f, "publish")
  /\ UNCHANGED <<providerVars, refunding, input, answer, draft, tries, reply, announced>>

RefundPublish(f) ==
  /\ pc[f] = "publish"
  /\ announced' = announced \cup {f}
  /\ Answer(f, 200, refunding[f].payment, "REFUNDED")
  /\ UNCHANGED <<providerVars, refunding, input, answer, draft, tries, payments, outbox>>

(* The process dies, or the database raises anything but an IntegrityError:
   the open transaction is rolled back and nothing else is done. *)
Crash(t) ==
  /\ pc[t] \notin {"idle", "done", "crashed"}
  /\ Goto(t, "crashed")
  /\ UNCHANGED <<providerVars, refunding, input, answer, draft, tries, reply, payments, outbox, announced>>

-----------------------------------------------------------------------------
ProcessPayment(r) ==
  \/ PreflightOwn(r) \/ PreflightAny(r) \/ CheckFraud(r) \/ Charge(r)
  \/ Save(r) \/ SaveConflict(r) \/ RecoverOwn(r) \/ RecoverAny(r) \/ Publish(r)

RefundPayment(f) == RefundCall(f) \/ RefundUpdate(f) \/ RefundPublish(f)

(* Every task has ended: nothing more will happen in this bounded world. *)
Finished ==
  /\ \A t \in Tasks : pc[t] \in {"done", "crashed"}
  /\ UNCHANGED vars

Next ==
  \/ \E r \in Requests : Submit(r) \/ ProcessPayment(r)
  \/ \E f \in Refunds : RefundLoad(f) \/ RefundPayment(f)
  \/ \E t \in Tasks : Crash(t)
  \/ Finished

Spec == Init /\ [][Next]_vars

(* An accepted request goes on: the event loop resumes it and its HTTP and
   database calls have timeouts. *)
Fairness ==
  /\ \A r \in Requests : WF_vars(ProcessPayment(r))
  /\ \A f \in Refunds : WF_vars(RefundPayment(f))

FairSpec == Spec /\ Fairness

-----------------------------------------------------------------------------
(* Properties *)

(* Type correctness of the tables, the ledger and the requests' local state. *)
TypeOK ==
  /\ taken \subseteq Requests
  /\ intents \subseteq [key : {i.key : i \in Inputs}, params : Inputs, tx : Requests]
  /\ repaid \subseteq Refunds
  /\ refunding \in [Refunds -> Refunding \cup {None}]
  /\ pc \in [Tasks -> RequestSteps \cup RefundSteps]
  /\ \A r \in Requests : pc[r] \in RequestSteps
  /\ \A f \in Refunds : pc[f] \in RefundSteps
  /\ input \in [Requests -> Inputs \cup {None}]
  /\ answer \in [Requests -> FraudAnswers \cup {None}]
  /\ draft \in [Requests -> Payment \cup {None}]
  /\ tries \in [Requests -> 0..LookupAttempts]
  /\ reply \in [Tasks -> Reply \cup {None}]
  /\ payments \in [Requests -> Payment \cup {None}]
  /\ outbox \in [Tasks -> Message \cup {None}]
  /\ announced \subseteq Tasks

Stored(r) == payments[r] # None

(* Safe Fraud Fallback (docs/architecture.md:82): no money is taken for a request
   before its fraud check has answered, nor if the check failed in any way or said
   REVIEW or REJECT. An answer that is none of the three is charged like APPROVE:
   what is left of fail-safe is that failures are. *)
PassesCheck(a) == a \in {"APPROVE", "other"}
SafeFraudFallback == \A r \in taken : PassesCheck(answer[r])

(* The transactional outbox: a payment is stored exactly when its completion or
   failure message is, a row is REFUNDED exactly when a refund message tells of
   it, and the message tells the status the row was stored with. *)
RowsAndEventsAgree ==
  /\ \A r \in Requests :
       /\ Stored(r) <=> outbox[r] # None
       /\ Stored(r) =>
            outbox[r] = [payment |-> r,
                         type |-> IF payments[r].status \in {"SUCCEEDED", "REFUNDED"}
                                  THEN "Completed" ELSE "Failed"]
       /\ Stored(r) /\ payments[r].status = "REFUNDED"
            <=> \E f \in Refunds : outbox[f] = [type |-> "Refunded", payment |-> r]
  /\ \A f \in Refunds :
       outbox[f] # None => outbox[f].type = "Refunded" /\ Stored(outbox[f].payment)

(* No event reaches the event bus before the transaction it tells of commits. *)
AnnouncedAfterCommit == \A t \in announced : outbox[t] # None

(* Idempotency as callers see it: whichever of the pre-flight lookup, the insert
   and the lookup after an IntegrityError answers them, all answers that show a
   user's own payment under one key show the same payment. *)
SameKeySamePayment ==
  \A r, s \in Requests :
    (/\ reply[r] # None /\ reply[r].payment # None
     /\ reply[s] # None /\ reply[s].payment # None
     /\ input[r].user = input[s].user
     /\ input[r].key = input[s].key /\ input[r].key # None
     /\ input[reply[r].payment].user = input[r].user
     /\ input[reply[s].payment].user = input[r].user)
    => reply[r].payment = reply[s].payment

(* An answer never shows what is not durable: the payment in it is stored, with
   the status shown, or since refunded. *)
AnswersAreDurable ==
  \A t \in Tasks :
    reply[t] # None /\ reply[t].payment # None =>
      LET p == reply[t].payment IN
        /\ Stored(p)
        /\ \/ payments[p].status = reply[t].status
           \/ payments[p].status = "REFUNDED" /\ reply[t].status = "SUCCEEDED"

(* The table agrees with the provider's ledger: every payment stored as succeeded
   has a charge behind it, no charge backs two payments, and a payment is marked
   REFUNDED only after the provider has paid it back. *)
SucceededIsBacked ==
  \A r \in Requests :
    Stored(r) /\ payments[r].status \in {"SUCCEEDED", "REFUNDED"} =>
      /\ payments[r].tx \in taken
      /\ \A s \in Requests : Stored(s) /\ payments[s].tx = payments[r].tx => r = s
      /\ payments[r].status = "REFUNDED" => \E f \in repaid : refunding[f].tx = payments[r].tx

(* No double charging: under one idempotency key a user is charged once. *)
AtMostOneChargePerKey ==
  \A r, s \in taken :
    input[r].user = input[s].user /\ input[r].key = input[s].key
      /\ input[r].key \notin {None, EmptyKey} => r = s

(* A request that loses the race on (user, key) does not end with an internal error:
   of amounts that can be stored, one does so only if another user has a payment under
   its key. (That its answer shows the winner's payment is SameKeySamePayment.) *)
RaceLoserIsAnswered ==
  \A r \in Requests :
    reply[r] # None /\ reply[r].code = 500 /\ input[r].amount = "cents" =>
      \E p \in Requests : Stored(p) /\ input[p].key = input[r].key
                           /\ input[p].user # input[r].user

(* A stored payment is never deleted or rewritten, but for SUCCEEDED becoming
   REFUNDED: no conflict, retry, crash or second refund does anything else. *)
StatusOnlyForward ==
  [][\A r \in Requests : Stored(r) =>
       \/ payments'[r] = payments[r]
       \/ /\ payments[r].status = "SUCCEEDED"
          /\ payments'[r] = [payments[r] EXCEPT !.status = "REFUNDED"]]_vars

(* Every accepted request ends, answered or lost with its process: neither the
   lookup loop nor anything else holds it forever. *)
EveryTaskEnds ==
  \A t \in Tasks : pc[t] # "idle" ~> pc[t] \in {"done", "crashed"}
=============================================================================
