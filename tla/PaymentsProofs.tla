--------------------------- MODULE PaymentsProofs ---------------------------
(***************************************************************************)
(* Theorems about Payments, for any number of requests, refunds, users and *)
(* keys and for either provider.                                           *)
(***************************************************************************)
EXTENDS Payments, FiniteSetTheorems, TLAPS

(* What a task has in hand at each of its steps.  TypeOK alone is not
   inductive: Save stores draft[r], so there must be a draft at "save". *)
RequestControl(r) ==
  /\ pc[r] # "idle" => input[r] \in Inputs
  /\ pc[r] \in {"save", "recover own", "recover any", "publish"} =>
       draft[r] \in Payment /\ draft[r].status # "REFUNDED"
  /\ pc[r] \notin {"done", "crashed"} => tries[r] < LookupAttempts

RefundControl(f) ==
  pc[f] \in {"call", "update", "publish"} =>
    refunding[f] \in Refunding /\ payments[refunding[f].payment] \in Payment

(* Rows are never deleted. *)
RowsStay == \A p \in Requests : payments[p] \in Payment => payments'[p] \in Payment

Control ==
  /\ \A r \in Requests : RequestControl(r)
  /\ \A f \in Refunds : RefundControl(f)

TypeInv == TypeOK /\ Control

(* The initial states are typed. *)
LEMMA InitTypeInv == Init => TypeInv
  BY ConstantsAssumption, TasksAssumption
  DEF Init, TypeInv, TypeOK, Control, RequestControl, RefundControl, ProviderInit, RequestSteps,
      RefundSteps, Tasks


(* A step of request r moves r and no other task. *)
LEMMA RequestMoves ==
  ASSUME TypeInv, NEW r \in Requests, NEW step \in RequestSteps, Goto(r, step)
  PROVE  /\ pc' \in [Tasks -> RequestSteps \cup RefundSteps]
         /\ \A q \in Requests : pc'[q] \in RequestSteps
         /\ \A f \in Refunds : pc'[f] \in RefundSteps
         /\ pc'[r] = step
         /\ \A t \in Tasks \ {r} : pc'[t] = pc[t]
  BY TasksAssumption DEF TypeInv, TypeOK, Goto, Tasks

(* A step of refund f moves f and no other task. *)
LEMMA RefundMoves ==
  ASSUME TypeInv, NEW f \in Refunds, NEW step \in RefundSteps, Goto(f, step)
  PROVE  /\ pc' \in [Tasks -> RequestSteps \cup RefundSteps]
         /\ \A q \in Requests : pc'[q] \in RequestSteps
         /\ \A g \in Refunds : pc'[g] \in RefundSteps
         /\ pc'[f] = step
         /\ \A t \in Tasks \ {f} : pc'[t] = pc[t]
  BY TasksAssumption DEF TypeInv, TypeOK, Goto, Tasks

(* So it disturbs the control of r only. *)
LEMMA RequestKeepsControl ==
  ASSUME TypeInv, NEW r \in Requests, NEW step \in RequestSteps, Goto(r, step),
         UNCHANGED refunding,
         \A q \in Requests \ {r} :
            input'[q] = input[q] /\ draft'[q] = draft[q] /\ tries'[q] = tries[q],
         RowsStay, RequestControl(r)'
  PROVE  Control'
  <1>1. \A t \in Tasks \ {r} : pc'[t] = pc[t]
    BY RequestMoves
  <1>2. ASSUME NEW q \in Requests PROVE RequestControl(q)'
    <2>1. CASE q = r
      BY <2>1
    <2>2. CASE q # r
      BY <1>1, <2>2 DEF TypeInv, Control, RequestControl, Tasks
    <2> QED BY <2>1, <2>2
  <1>3. ASSUME NEW f \in Refunds PROVE RefundControl(f)'
    BY <1>1, TasksAssumption DEF TypeInv, Control, RefundControl, Tasks, RowsStay, Refunding
  <1> QED BY <1>2, <1>3 DEF Control

(* So it disturbs the control of f only. *)
LEMMA RefundKeepsControl ==
  ASSUME TypeInv, NEW f \in Refunds, NEW step \in RefundSteps, Goto(f, step),
         UNCHANGED <<input, draft, tries>>,
         \A g \in Refunds \ {f} : refunding'[g] = refunding[g],
         RowsStay, RefundControl(f)'
  PROVE  Control'
  <1>1. \A t \in Tasks \ {f} : pc'[t] = pc[t]
    BY RefundMoves
  <1>2. ASSUME NEW q \in Requests PROVE RequestControl(q)'
    BY <1>1, TasksAssumption DEF TypeInv, Control, RequestControl, Tasks
  <1>3. ASSUME NEW g \in Refunds PROVE RefundControl(g)'
    <2>1. CASE g = f
      BY <2>1
    <2>2. CASE g # f
      BY <1>1, <2>2 DEF TypeInv, Control, RefundControl, Tasks, RowsStay, Refunding
    <2> QED BY <2>1, <2>2
  <1> QED BY <1>2, <1>3 DEF Control

(* An answer is well-typed. *)
LEMMA Answers ==
  ASSUME TypeInv, NEW t \in Tasks, NEW code \in {200, 201, 400, 404, 500},
         NEW p \in Requests \cup {None}, NEW st \in Statuses \cup {None},
         Answer(t, code, p, st)
  PROVE  /\ reply' \in [Tasks -> Reply \cup {None}]
         /\ Goto(t, "done")
  BY DEF TypeInv, TypeOK, Answer, Reply

(* So is an answer that shows one of the rows found. *)
LEMMA Returns ==
  ASSUME TypeInv, NEW r \in Requests, NEW rows,
         rows \subseteq {p \in Requests : Stored(p)}, ReturnFrom(r, rows)
  PROVE  /\ reply' \in [Tasks -> Reply \cup {None}]
         /\ Goto(r, "done")
  <1>1. ASSUME NEW p \in rows, ReturnExisting(r, p)
        PROVE  reply' \in [Tasks -> Reply \cup {None}] /\ Goto(r, "done")
    <2>1. p \in Requests /\ payments[p].status \in Statuses
      BY DEF TypeInv, TypeOK, Stored, Payment
    <2> QED BY <1>1, <2>1, Answers DEF ReturnExisting, Tasks
  <1>2. ASSUME InternalError(r)
        PROVE  reply' \in [Tasks -> Reply \cup {None}] /\ Goto(r, "done")
    <2>1. r \in Tasks /\ Answer(r, 500, None, None) BY <1>2 DEF InternalError, Tasks
    <2> QED BY <2>1, Answers
  <1> QED BY <1>1, <1>2 DEF ReturnFrom

(* One lemma for each action of a request: it keeps TypeInv. *)
LEMMA SubmitTypeInv ==
  ASSUME TypeInv, NEW r \in Requests, Submit(r)
  PROVE  TypeInv'
  <1>1. PICK i \in Inputs : input' = [input EXCEPT ![r] = i]
                          /\ Goto(r, IF i.key \in {None, EmptyKey} THEN "fraud" ELSE "own")
    BY DEF Submit
  <1> DEFINE step == IF i.key \in {None, EmptyKey} THEN "fraud" ELSE "own"
  <1>2. step \in RequestSteps \ {"idle", "save", "recover own", "recover any", "publish"}
    BY DEF RequestSteps
  <1>3. Goto(r, step) BY <1>1
  <1> HIDE DEF step
  <1>4. TypeOK'
    BY <1>1, <1>2, <1>3, RequestMoves DEF Submit, TypeInv, TypeOK, providerVars
  <1>5. RequestControl(r)'
    <2>1. pc'[r] = step BY <1>2, <1>3, RequestMoves
    <2>2. input'[r] \in Inputs BY <1>1 DEF TypeInv, TypeOK
    <2> QED BY <1>2, <2>1, <2>2 DEF Submit, TypeInv, Control, RequestControl
  <1>6. Control'
    BY <1>1, <1>2, <1>3, <1>5, RequestKeepsControl DEF RowsStay, Submit, TypeInv, TypeOK
  <1> QED BY <1>4, <1>6 DEF TypeInv

(* The look-up under the caller's own key: an answer, or the next look-up. *)
LEMMA PreflightOwnTypeInv ==
  ASSUME TypeInv, NEW r \in Requests, PreflightOwn(r)
  PROVE  TypeInv'
  <1>1. PICK step \in {"done", "any"} :
          Goto(r, step) /\ reply' \in [Tasks -> Reply \cup {None}]
    <2>1. OwnRows(r) \subseteq {p \in Requests : Stored(p)}
      BY DEF OwnRows, RowsOf, RowsUnder, Stored
    <2>2. CASE ReturnFrom(r, OwnRows(r))
      BY <2>1, <2>2, Returns
    <2>3. CASE Goto(r, "any") /\ UNCHANGED reply
      BY <2>3 DEF TypeInv, TypeOK
    <2> QED BY <2>2, <2>3 DEF PreflightOwn
  <1>2. step \in RequestSteps BY DEF RequestSteps
  <1>3. TypeOK'
    BY <1>1, <1>2, RequestMoves DEF PreflightOwn, TypeInv, TypeOK, providerVars
  <1>4. RequestControl(r)'
    BY <1>1, <1>2, RequestMoves DEF PreflightOwn, TypeInv, TypeOK, Control, RequestControl
  <1> QED
    BY <1>1, <1>2, <1>3, <1>4, RequestKeepsControl DEF RowsStay, PreflightOwn, TypeInv

(* The look-up under the bare key: an answer, or the fraud check. *)
LEMMA PreflightAnyTypeInv ==
  ASSUME TypeInv, NEW r \in Requests, PreflightAny(r)
  PROVE  TypeInv'
  <1>1. PICK step \in {"done", "fraud"} :
          Goto(r, step) /\ reply' \in [Tasks -> Reply \cup {None}]
    <2>1. RowsUnder(r) \subseteq {p \in Requests : Stored(p)}
      BY DEF OwnRows, RowsOf, RowsUnder, Stored
    <2>2. CASE ReturnFrom(r, RowsUnder(r))
      BY <2>1, <2>2, Returns
    <2>3. CASE Goto(r, "fraud") /\ UNCHANGED reply
      BY <2>3 DEF TypeInv, TypeOK
    <2> QED BY <2>2, <2>3 DEF PreflightAny
  <1>2. step \in RequestSteps BY DEF RequestSteps
  <1>3. TypeOK'
    BY <1>1, <1>2, RequestMoves DEF PreflightAny, TypeInv, TypeOK, providerVars
  <1>4. RequestControl(r)'
    BY <1>1, <1>2, RequestMoves DEF PreflightAny, TypeInv, TypeOK, Control, RequestControl
  <1> QED
    BY <1>1, <1>2, <1>3, <1>4, RequestKeepsControl DEF RowsStay, PreflightAny, TypeInv

(* The same two look-ups after a conflict. *)
LEMMA RecoverOwnTypeInv ==
  ASSUME TypeInv, NEW r \in Requests, RecoverOwn(r)
  PROVE  TypeInv'
  <1>1. PICK step \in {"done", "recover any"} :
          Goto(r, step) /\ reply' \in [Tasks -> Reply \cup {None}]
    <2>1. OwnRows(r) \subseteq {p \in Requests : Stored(p)}
      BY DEF OwnRows, RowsOf, RowsUnder, Stored
    <2>2. CASE ReturnFrom(r, OwnRows(r))
      BY <2>1, <2>2, Returns
    <2>3. CASE Goto(r, "recover any") /\ UNCHANGED reply
      BY <2>3 DEF TypeInv, TypeOK
    <2> QED BY <2>2, <2>3 DEF RecoverOwn
  <1>2. step \in RequestSteps BY DEF RequestSteps
  <1>3. TypeOK'
    BY <1>1, <1>2, RequestMoves DEF RecoverOwn, TypeInv, TypeOK, providerVars
  <1>4. RequestControl(r)'
    BY <1>1, <1>2, RequestMoves DEF RecoverOwn, TypeInv, TypeOK, Control, RequestControl
  <1> QED
    BY <1>1, <1>2, <1>3, <1>4, RequestKeepsControl DEF RowsStay, RecoverOwn, TypeInv

(* This one counts the round, and another one is due only below the limit. *)
LEMMA RecoverAnyTypeInv ==
  ASSUME TypeInv, NEW r \in Requests, RecoverAny(r)
  PROVE  TypeInv'
  <1> USE TasksAssumption
  <1>1. PICK step \in {"done", "recover own"} :
          /\ Goto(r, step)
          /\ reply' \in [Tasks -> Reply \cup {None}]
          /\ tries' \in [Requests -> 0..LookupAttempts]
          /\ \A q \in Requests \ {r} : tries'[q] = tries[q]
          /\ step = "recover own" => tries'[r] < LookupAttempts
    <2>a. tries \in [Requests -> 0..LookupAttempts]
      BY DEF TypeInv, TypeOK
    <2>b. tries[r] < LookupAttempts
      BY DEF RecoverAny, TypeInv, Control, RequestControl
    <2>c. tries[r] \in Nat /\ LookupAttempts \in Nat
      BY <2>a
    <2>d. ASSUME CountRound(r)
          PROVE  /\ tries' \in [Requests -> 0..LookupAttempts]
                 /\ tries'[r] = tries[r] + 1
                 /\ \A q \in Requests \ {r} : tries'[q] = tries[q]
      <3>1. tries[r] + 1 \in 0..LookupAttempts BY <2>b, <2>c
      <3> QED BY <2>a, <2>d, <3>1 DEF CountRound
    <2>1. RowsUnder(r) \subseteq {p \in Requests : Stored(p)}
      BY DEF RowsUnder, Stored
    <2>2. CASE ReturnFrom(r, RowsUnder(r)) /\ UNCHANGED tries
      BY <2>a, <2>1, <2>2, Returns
    <2>3. CASE CountRound(r) /\ tries[r] + 1 < LookupAttempts /\ Goto(r, "recover own")
               /\ UNCHANGED reply
      BY <2>c, <2>d, <2>3 DEF TypeInv, TypeOK
    <2>4. CASE CountRound(r) /\ ~(tries[r] + 1 < LookupAttempts) /\ InternalError(r)
      <3>1. r \in Tasks /\ Answer(r, 500, None, None) BY <2>4 DEF InternalError, Tasks
      <3>2. Goto(r, "done") /\ reply' \in [Tasks -> Reply \cup {None}]
        BY <3>1, Answers
      <3> QED BY <2>d, <2>4, <3>2
    <2> QED BY <2>2, <2>3, <2>4 DEF RecoverAny
  <1>2. step \in RequestSteps BY DEF RequestSteps
  <1>3. TypeOK'
    BY <1>1, <1>2, RequestMoves DEF RecoverAny, TypeInv, TypeOK, providerVars
  <1>4. RequestControl(r)'
    BY <1>1, <1>2, RequestMoves DEF RecoverAny, TypeInv, TypeOK, Control, RequestControl
  <1> QED
    BY <1>1, <1>2, <1>3, <1>4, RequestKeepsControl DEF RowsStay, RecoverAny, TypeInv

(* A payment that is held back has its draft before it is saved. *)
LEMMA CheckFraudTypeInv ==
  ASSUME TypeInv, NEW r \in Requests, CheckFraud(r)
  PROVE  TypeInv'
  <1>1. PICK a \in Verdicts :
          /\ answer' = [answer EXCEPT ![r] = a]
          /\ IF Decision(a) \in {"REJECT", "REVIEW"}
             THEN Goto(r, "save") /\ draft' = [draft EXCEPT ![r] = Held(Decision(a))]
             ELSE Goto(r, "charge") /\ UNCHANGED draft
    BY DEF CheckFraud
  <1> a \in FraudAnswers BY VerdictsAssumption
  <1>2. Held(Decision(a)) \in Payment /\ Held(Decision(a)).status # "REFUNDED"
    BY DEF Held, Payment, Statuses
  <1>3. PICK step \in {"charge", "save"} :
          /\ Goto(r, step)
          /\ draft' \in [Requests -> Payment \cup {None}]
          /\ \A q \in Requests \ {r} : draft'[q] = draft[q]
          /\ step = "save" => draft'[r] \in Payment /\ draft'[r].status # "REFUNDED"
    BY <1>1, <1>2 DEF TypeInv, TypeOK
  <1>4. step \in RequestSteps BY DEF RequestSteps
  <1>5. TypeOK'
    BY <1>1, <1>3, <1>4, RequestMoves DEF CheckFraud, TypeInv, TypeOK, providerVars
  <1>6. RequestControl(r)'
    BY <1>3, <1>4, RequestMoves DEF CheckFraud, TypeInv, TypeOK, Control, RequestControl
  <1> QED
    BY <1>3, <1>4, <1>5, <1>6, RequestKeepsControl DEF RowsStay, CheckFraud, TypeInv

(* The provider keeps its books well-typed. *)
LEMMA CreateChargeTypes ==
  ASSUME TypeInv, NEW r \in Requests, NEW res \in Result, input[r] \in Inputs,
         CreateCharge(r, input[r].key, input[r], res)
  PROVE  /\ taken' \subseteq taken \cup {r}
         /\ taken \subseteq taken'
         /\ intents' \subseteq [key : {i.key : i \in Inputs}, params : Inputs, tx : Requests]
         /\ repaid' = repaid
  BY DEF TypeInv, TypeOK, CreateCharge, MockCreateCharge, StripeCreateCharge, StripeNewCharge,
         providerVars

(* A payment that is charged has its draft before it is saved. *)
LEMMA ChargeTypeInv ==
  ASSUME TypeInv, NEW r \in Requests, Charge(r)
  PROVE  TypeInv'
  <1>1. PICK res \in Result :
          /\ CreateCharge(r, input[r].key, input[r], res)
          /\ draft' = [draft EXCEPT ![r] = Charged(res)]
    BY DEF Charge
  <1>2. pc[r] = "charge" /\ Goto(r, "save") BY DEF Charge
  <1>3. input[r] \in Inputs BY <1>2 DEF TypeInv, Control, RequestControl
  <1>4. Charged(res) \in Payment /\ Charged(res).status # "REFUNDED"
    BY DEF Charged, Payment, Statuses, Result
  <1>5. draft' \in [Requests -> Payment \cup {None}]
        /\ draft'[r] = Charged(res) /\ \A q \in Requests \ {r} : draft'[q] = draft[q]
    BY <1>1, <1>4 DEF TypeInv, TypeOK
  <1>6. TypeOK'
    <2>1. /\ taken' \subseteq Requests
          /\ intents' \subseteq [key : {i.key : i \in Inputs}, params : Inputs, tx : Requests]
          /\ repaid' \subseteq Refunds
      BY <1>1, <1>3, CreateChargeTypes DEF TypeInv, TypeOK
    <2> QED
      BY <1>2, <1>5, <2>1, RequestMoves DEF Charge, TypeInv, TypeOK, RequestSteps
  <1>7. RequestControl(r)'
    BY <1>2, <1>3, <1>4, <1>5, RequestMoves
    DEF Charge, TypeInv, TypeOK, Control, RequestControl, RequestSteps
  <1> QED
    BY <1>2, <1>5, <1>6, <1>7, RequestKeepsControl DEF RowsStay, Charge, TypeInv, RequestSteps

(* Save stores that draft with its message. *)
LEMMA SaveTypeInv ==
  ASSUME TypeInv, NEW r \in Requests, Save(r)
  PROVE  TypeInv'
  <1>1. pc[r] = "save" /\ Goto(r, "publish") BY DEF Save
  <1>2. draft[r] \in Payment /\ draft[r].status # "REFUNDED"
    BY <1>1 DEF TypeInv, Control, RequestControl
  <1>3. [type |-> EventFor(draft[r].status), payment |-> r] \in Message
    BY DEF EventFor, Message
  <1>4. payments' \in [Requests -> Payment \cup {None}] /\ outbox' \in [Tasks -> Message \cup {None}]
    BY <1>2, <1>3 DEF Save, TypeInv, TypeOK
  <1>5. TypeOK'
    BY <1>1, <1>4, RequestMoves DEF Save, TypeInv, TypeOK, RequestSteps, providerVars
  <1>6. RequestControl(r)'
    BY <1>1, <1>2, RequestMoves DEF Save, TypeInv, Control, RequestControl, RequestSteps
  <1> QED
    BY <1>1, <1>2, <1>4, <1>5, <1>6, RequestKeepsControl DEF RowsStay, Save, TypeInv, TypeOK, RequestSteps

(* A conflict only moves the request. *)
LEMMA SaveConflictTypeInv ==
  ASSUME TypeInv, NEW r \in Requests, SaveConflict(r)
  PROVE  TypeInv'
  <1>1. pc[r] = "save" /\ Goto(r, "recover own") BY DEF SaveConflict
  <1>2. TypeOK'
    BY <1>1, RequestMoves DEF SaveConflict, TypeInv, TypeOK, RequestSteps, providerVars
  <1>3. RequestControl(r)'
    BY <1>1, RequestMoves DEF SaveConflict, TypeInv, Control, RequestControl, RequestSteps
  <1> QED
    BY <1>1, <1>2, <1>3, RequestKeepsControl DEF RowsStay, SaveConflict, TypeInv, RequestSteps

(* The answer shows the status of the draft. *)
LEMMA PublishTypeInv ==
  ASSUME TypeInv, NEW r \in Requests, Publish(r)
  PROVE  TypeInv'
  <1>1. draft[r] \in Payment
    BY DEF Publish, TypeInv, Control, RequestControl
  <1>2. draft[r].status \in Statuses
    BY <1>1 DEF Payment
  <1>3. Goto(r, "done") /\ reply' \in [Tasks -> Reply \cup {None}]
    <2> DEFINE code == IF draft[r].status = "SUCCEEDED" THEN 201 ELSE 400
    <2>1. code \in {200, 201, 400, 404, 500} /\ Answer(r, code, r, draft[r].status) BY DEF Publish
    <2> HIDE DEF code
    <2>2. r \in Tasks BY DEF Tasks
    <2> QED BY <1>2, <2>1, <2>2, Answers
  <1>4. TypeOK'
    BY <1>3, RequestMoves DEF Publish, TypeInv, TypeOK, RequestSteps, providerVars, Tasks
  <1>5. RequestControl(r)'
    BY <1>3, RequestMoves DEF Publish, TypeInv, Control, RequestControl, RequestSteps
  <1> QED
    BY <1>3, <1>4, <1>5, RequestKeepsControl DEF RowsStay, Publish, TypeInv, RequestSteps

(* One lemma for each action of a refund: it keeps TypeInv. *)
LEMMA RefundLoadTypeInv ==
  ASSUME TypeInv, NEW f \in Refunds, RefundLoad(f)
  PROVE  TypeInv'
  <1>1. PICK step \in {"call", "done"} :
          /\ Goto(f, step)
          /\ reply' \in [Tasks -> Reply \cup {None}]
          /\ refunding' \in [Refunds -> Refunding \cup {None}]
          /\ \A g \in Refunds \ {f} : refunding'[g] = refunding[g]
          /\ step = "call" =>
               refunding'[f] \in Refunding /\ payments[refunding'[f].payment] \in Payment
    <2>1. PICK i \in RefundInputs :
            LET row == payments[i.payment] IN
            IF Refundable(row)
            THEN /\ refunding' = [refunding EXCEPT ![f] =
                      [payment |-> i.payment, amount |-> i.amount, key |-> i.key, tx |-> row.tx]]
                 /\ Goto(f, "call")
                 /\ UNCHANGED reply
            ELSE Answer(f, IF row = None THEN 404 ELSE 400, None, None) /\ UNCHANGED refunding
      BY DEF RefundLoad
    <2>2. CASE Refundable(payments[i.payment])
      <3>1. payments[i.payment] \in Payment /\ i.payment \in Requests /\ i.amount \in Nat
        BY <2>2, ConstantsAssumption DEF TypeInv, TypeOK, Refundable
      <3>2. payments[i.payment].tx \in Requests \cup {None}
        BY <3>1 DEF Payment
      <3>3. [payment |-> i.payment, amount |-> i.amount, key |-> i.key,
             tx |-> payments[i.payment].tx] \in Refunding
        BY <3>1, <3>2 DEF Refunding
      <3> QED BY <2>1, <2>2, <3>1, <3>3 DEF TypeInv, TypeOK
    <2>3. CASE ~Refundable(payments[i.payment])
      <3>1. f \in Tasks /\ (Answer(f, 404, None, None) \/ Answer(f, 400, None, None))
        BY <2>1, <2>3 DEF Tasks
      <3>2. Goto(f, "done") /\ reply' \in [Tasks -> Reply \cup {None}]
        BY <3>1, Answers
      <3> QED BY <2>1, <2>3, <3>2 DEF TypeInv, TypeOK
    <2> QED BY <2>2, <2>3
  <1>2. step \in RefundSteps BY DEF RefundSteps
  <1>3. TypeOK'
    BY <1>1, <1>2, RefundMoves DEF RefundLoad, TypeInv, TypeOK, providerVars
  <1>4. RefundControl(f)'
    BY <1>1, <1>2, RefundMoves DEF RefundLoad, RefundControl
  <1> QED
    BY <1>1, <1>2, <1>3, <1>4, RefundKeepsControl DEF RowsStay, RefundLoad, TypeInv

(* The call moves the refund on or ends it. *)
LEMMA RefundCallTypeInv ==
  ASSUME TypeInv, NEW f \in Refunds, RefundCall(f)
  PROVE  TypeInv'
  <1>1. PICK step \in {"update", "done"} :
          Goto(f, step) /\ reply' \in [Tasks -> Reply \cup {None}]
    <2>1. PICK ok \in BOOLEAN : IF ok THEN Goto(f, "update") /\ UNCHANGED reply
                                      ELSE Answer(f, 400, None, None)
      BY DEF RefundCall
    <2>2. CASE ok
      BY <2>1, <2>2 DEF TypeInv, TypeOK
    <2>3. CASE ~ok
      <3>1. f \in Tasks /\ Answer(f, 400, None, None) BY <2>1, <2>3 DEF Tasks
      <3> QED BY <3>1, Answers
    <2> QED BY <2>2, <2>3
  <1>2. step \in RefundSteps BY DEF RefundSteps
  <1>3. repaid' \subseteq Refunds /\ taken' = taken /\ intents' = intents
    BY DEF RefundCall, RefundCharge, PayBack, providerVars, TypeInv, TypeOK
  <1>4. TypeOK'
    BY <1>1, <1>2, <1>3, RefundMoves DEF RefundCall, TypeInv, TypeOK
  <1>5. RefundControl(f)'
    BY <1>1, <1>2, RefundMoves DEF RefundCall, TypeInv, Control, RefundControl
  <1> QED
    BY <1>1, <1>2, <1>4, <1>5, RefundKeepsControl DEF RowsStay, RefundCall, TypeInv

(* The update writes a row that is there. *)
LEMMA RefundUpdateTypeInv ==
  ASSUME TypeInv, NEW f \in Refunds, RefundUpdate(f)
  PROVE  TypeInv'
  <1> DEFINE p == refunding[f].payment
  <1>1. pc[f] = "update" /\ Goto(f, "publish") BY DEF RefundUpdate
  <1>2. p \in Requests /\ payments[p] \in Payment /\ refunding[f] \in Refunding
    BY <1>1 DEF TypeInv, Control, RefundControl, Refunding
  <1>3. outbox' \in [Tasks -> Message \cup {None}]
    BY <1>2 DEF RefundUpdate, TypeInv, TypeOK, Message
  <1>4. payments' \in [Requests -> Payment \cup {None}] /\ RowsStay
    <2>1. [payments[p] EXCEPT !.status = "REFUNDED"] \in Payment
      BY <1>2 DEF Payment, Statuses
    <2> QED BY <1>2, <2>1 DEF RefundUpdate, TypeInv, TypeOK, RowsStay
  <1>5. TypeOK'
    BY <1>1, <1>3, <1>4, RefundMoves DEF RefundUpdate, TypeInv, TypeOK, RefundSteps, providerVars
  <1>6. RefundControl(f)'
    BY <1>1, <1>2, <1>4, RefundMoves DEF RefundUpdate, RefundControl, RefundSteps, RowsStay
  <1> QED
    BY <1>1, <1>4, <1>5, <1>6, RefundKeepsControl DEF RefundUpdate, TypeInv, RefundSteps

(* The answer names the payment that was loaded. *)
LEMMA RefundPublishTypeInv ==
  ASSUME TypeInv, NEW f \in Refunds, RefundPublish(f)
  PROVE  TypeInv'
  <1>1. refunding[f].payment \in Requests
    BY DEF RefundPublish, TypeInv, Control, RefundControl, Refunding
  <1>2. Goto(f, "done") /\ reply' \in [Tasks -> Reply \cup {None}]
    <2>1. "REFUNDED" \in Statuses BY DEF Statuses
    <2>2. Answer(f, 200, refunding[f].payment, "REFUNDED") BY DEF RefundPublish
    <2>3. f \in Tasks BY DEF Tasks
    <2> QED BY <1>1, <2>1, <2>2, <2>3, Answers
  <1>3. TypeOK'
    BY <1>2, RefundMoves DEF RefundPublish, TypeInv, TypeOK, RefundSteps, providerVars, Tasks
  <1>4. RefundControl(f)'
    BY <1>2, RefundMoves DEF RefundControl, RefundSteps
  <1> QED
    BY <1>2, <1>3, <1>4, RefundKeepsControl DEF RowsStay, RefundPublish, TypeInv, RefundSteps

(* A crash only moves its task. *)
LEMMA CrashTypeInv ==
  ASSUME TypeInv, NEW t \in Tasks, Crash(t)
  PROVE  TypeInv'
  <1>1. CASE t \in Requests
    <2>1. Goto(t, "crashed") /\ pc[t] # "idle" BY DEF Crash
    <2>2. TypeOK'
      BY <1>1, <2>1, RequestMoves DEF Crash, TypeInv, TypeOK, RequestSteps, providerVars
    <2>3. RequestControl(t)'
      BY <1>1, <2>1, RequestMoves DEF Crash, TypeInv, Control, RequestControl, RequestSteps
    <2> QED
      BY <1>1, <2>1, <2>2, <2>3, RequestKeepsControl DEF RowsStay, Crash, TypeInv, RequestSteps
  <1>2. CASE t \in Refunds
    <2>1. Goto(t, "crashed") BY DEF Crash
    <2>2. TypeOK'
      BY <1>2, <2>1, RefundMoves DEF Crash, TypeInv, TypeOK, RefundSteps, providerVars
    <2>3. RefundControl(t)'
      BY <1>2, <2>1, RefundMoves DEF RefundControl, RefundSteps
    <2> QED
      BY <1>2, <2>1, <2>2, <2>3, RefundKeepsControl DEF RowsStay, Crash, TypeInv, RefundSteps
  <1> QED BY <1>1, <1>2 DEF Tasks

(* A stuttering step changes nothing. *)
LEMMA StutterTypeInv == TypeInv /\ UNCHANGED vars => TypeInv'
  BY DEF vars, providerVars, TypeInv, TypeOK, Control, RequestControl, RefundControl

(* Every step keeps TypeInv. *)
LEMMA NextTypeInv == TypeInv /\ [Next]_vars => TypeInv'
  BY SubmitTypeInv, PreflightOwnTypeInv, PreflightAnyTypeInv, CheckFraudTypeInv, ChargeTypeInv,
     SaveTypeInv, SaveConflictTypeInv, RecoverOwnTypeInv, RecoverAnyTypeInv, PublishTypeInv,
     RefundLoadTypeInv, RefundCallTypeInv, RefundUpdateTypeInv, RefundPublishTypeInv,
     CrashTypeInv, StutterTypeInv
  DEF Next, ProcessPayment, RefundPayment, Finished

(* So TypeInv holds in every reachable state. *)
LEMMA AlwaysTypeInv == Spec => []TypeInv
  BY InitTypeInv, NextTypeInv, PTL DEF Spec

(* Type correctness of the payment tables, the provider's books and the local
   state of every request and refund. *)
THEOREM TypeCorrectness == Spec => []TypeOK
  <1>1. TypeInv => TypeOK BY DEF TypeInv
  <1> QED BY <1>1, AlwaysTypeInv, PTL

-----------------------------------------------------------------------------
(* The tables: what is stored, announced and answered. *)

(* What a caller was shown of a payment, against its status now. *)
Shows(shown, now) == now = shown \/ (shown = "SUCCEEDED" /\ now = "REFUNDED")

(* A request stores its row on its way to "publish", and only there. *)
StoredLate == \A r \in Requests : Stored(r) => pc[r] \in {"publish", "done", "crashed"}

UniqueKeys ==
  \A p, q \in Requests :
    Stored(p) /\ Stored(q) /\ input[p].user = input[q].user /\ input[p].key = input[q].key
      /\ input[p].key # None => p = q

RefundTarget(f) ==
  /\ pc[f] \in {"call", "update", "publish"} =>
       payments[refunding[f].payment].status \in {"SUCCEEDED", "REFUNDED"}
  /\ pc[f] = "publish" => payments[refunding[f].payment].status = "REFUNDED"

Publishing ==
  /\ \A r \in Requests : pc[r] = "publish" =>
       Stored(r) /\ Shows(draft[r].status, payments[r].status)
  /\ \A t \in Tasks : pc[t] = "publish" => outbox[t] # None

Truthful(t) ==
  reply[t] # None =>
    /\ pc[t] = "done"
    /\ reply[t].payment # None =>
         LET p == reply[t].payment IN
           /\ Stored(p)
           /\ Shows(reply[t].status, payments[p].status)
           /\ t \in Requests => input[p].key = input[t].key

TableInv ==
  /\ StoredLate
  /\ UniqueKeys
  /\ \A f \in Refunds : RefundTarget(f)
  /\ Publishing
  /\ AnnouncedAfterCommit
  /\ \A t \in Tasks : Truthful(t)

(* The tables are empty at first. *)
LEMMA InitTableInv == Init => TableInv
  BY DEF Init, TableInv, StoredLate, UniqueKeys, RefundTarget, Publishing, AnnouncedAfterCommit,
     Truthful, Stored, Tasks

(* Only Submit writes input, only Save and RefundUpdate write the tables. *)
LEMMA Writers ==
  ASSUME [Next]_vars
  PROVE  /\ (\E r \in Requests : Submit(r)) \/ UNCHANGED input
         /\ \/ \E r \in Requests : Save(r)
            \/ \E f \in Refunds : RefundUpdate(f)
            \/ UNCHANGED <<payments, outbox>>
  BY DEF Next, ProcessPayment, RefundPayment, Finished, vars, Submit, PreflightOwn, PreflightAny,
         CheckFraud, Charge, Save, SaveConflict, RecoverOwn, RecoverAny, Publish, RefundLoad,
         RefundCall, RefundUpdate, RefundPublish, Crash

Forward(old, new) ==
  new = old \/ (old.status = "SUCCEEDED" /\ new = [old EXCEPT !.status = "REFUNDED"])

(* Only the fraud check and the charge build a payment. *)
LEMMA DraftWriters ==
  ASSUME [Next]_vars
  PROVE  (\E r \in Requests : CheckFraud(r) \/ Charge(r)) \/ UNCHANGED draft
  <1>1. ASSUME NEW r \in Requests, Submit(r) \/ ProcessPayment(r), ~CheckFraud(r), ~Charge(r)
        PROVE  UNCHANGED draft
    BY <1>1 DEF Submit, ProcessPayment, PreflightOwn, PreflightAny, Save, SaveConflict, RecoverOwn,
       RecoverAny, Publish
  <1>2. ASSUME NEW f \in Refunds, RefundLoad(f) \/ RefundPayment(f) PROVE UNCHANGED draft
    BY <1>2 DEF RefundLoad, RefundPayment, RefundCall, RefundUpdate, RefundPublish
  <1>3. (UNCHANGED vars \/ \E t \in Tasks : Crash(t)) => UNCHANGED draft BY DEF vars, Crash
  <1> QED BY <1>1, <1>2, <1>3 DEF Next, Finished

(* A stored row stays, its request keeps its input, and what was shown of it stays true. *)
LEMMA StoredRowsForward ==
  ASSUME TypeInv, TableInv, [Next]_vars, NEW p \in Requests, Stored(p)
  PROVE  /\ Stored(p)'
         /\ input'[p] = input[p]
         /\ Forward(payments[p], payments'[p])
         /\ \A st : Shows(st, payments[p].status) => Shows(st, payments'[p].status)
  <1>1. payments[p] \in Payment /\ pc[p] \in {"publish", "done", "crashed"}
    BY DEF TypeInv, TypeOK, Stored, TableInv, StoredLate
  <1>2. input'[p] = input[p]
    <2>1. ASSUME NEW r \in Requests, Submit(r)
          PROVE  input'[p] = input[p]
      BY <1>1, <2>1 DEF Submit, TypeInv, TypeOK
    <2> QED BY <2>1, Writers
  <1>3. Forward(payments[p], payments'[p])
    <2>1. ASSUME NEW r \in Requests, Save(r)
          PROVE  payments'[p] = payments[p]
      BY <1>1, <2>1 DEF Save, TypeInv, TypeOK
    <2>2. ASSUME NEW f \in Refunds, RefundUpdate(f)
          PROVE  Forward(payments[p], payments'[p])
      <3>1. CASE refunding[f].payment = p
        <4>1. payments[p].status \in {"SUCCEEDED", "REFUNDED"}
          BY <2>2, <3>1 DEF RefundUpdate, TableInv, RefundTarget
        <4>2. payments'[p] = [payments[p] EXCEPT !.status = "REFUNDED"]
          BY <2>2, <3>1 DEF RefundUpdate, TypeInv, TypeOK
        <4>3. CASE payments[p].status = "REFUNDED"
          BY <1>1, <4>2, <4>3 DEF Forward, Payment
        <4> QED BY <4>1, <4>2, <4>3 DEF Forward
      <3>2. CASE refunding[f].payment # p
        BY <2>2, <3>2 DEF RefundUpdate, TypeInv, TypeOK, Forward
      <3> QED BY <3>1, <3>2
    <2> QED BY <2>1, <2>2, Writers DEF Forward
  <1>4. Stored(p)'
    <2>1. [payments[p] EXCEPT !.status = "REFUNDED"] \in Payment
      BY <1>1 DEF Payment, Statuses
    <2> QED BY <1>1, <1>3, <2>1, NoneAssumption DEF Forward, Stored
  <1>5. payments'[p].status = payments[p].status
        \/ (payments[p].status = "SUCCEEDED" /\ payments'[p].status = "REFUNDED")
    BY <1>1, <1>3 DEF Forward, Payment
  <1>6. \A st : Shows(st, payments[p].status) => Shows(st, payments'[p].status)
    BY <1>5 DEF Shows
  <1> QED BY <1>2, <1>3, <1>4, <1>6

(* Every step moves one task. *)
LEMMA RequestGoes ==
  ASSUME NEW r \in Requests, Submit(r) \/ ProcessPayment(r)
  PROVE  \E step : pc' = [pc EXCEPT ![r] = step]
  <1>1. Submit(r) => \E step : Goto(r, step)
    BY DEF Submit
  <1>2. PreflightOwn(r) \/ PreflightAny(r) \/ RecoverOwn(r) => \E step : Goto(r, step)
    BY DEF PreflightOwn, PreflightAny, RecoverOwn, ReturnFrom, ReturnExisting, InternalError, Answer
  <1>3. RecoverAny(r) => \E step : Goto(r, step)
    BY DEF RecoverAny, ReturnFrom, ReturnExisting, InternalError, Answer
  <1>4. CheckFraud(r) \/ Charge(r) => \E step : Goto(r, step)
    BY DEF CheckFraud, Charge
  <1>5. Save(r) \/ SaveConflict(r) \/ Publish(r) => \E step : Goto(r, step)
    BY DEF Save, SaveConflict, Publish, Answer
  <1> QED BY <1>1, <1>2, <1>3, <1>4, <1>5 DEF ProcessPayment, Goto

(* Every step of a refund moves it alone. *)
LEMMA RefundGoes ==
  ASSUME NEW f \in Refunds, RefundLoad(f) \/ RefundPayment(f)
  PROVE  \E step : pc' = [pc EXCEPT ![f] = step]
  <1>1. RefundLoad(f) => \E step : Goto(f, step)
    BY DEF RefundLoad, Answer
  <1>2. RefundCall(f) => \E step : Goto(f, step)
    BY DEF RefundCall, Answer
  <1>3. RefundUpdate(f) \/ RefundPublish(f) => \E step : Goto(f, step)
    BY DEF RefundUpdate, RefundPublish, Answer
  <1> QED BY <1>1, <1>2, <1>3 DEF RefundPayment, Goto

(* A request moves on from "publish", "done" and "crashed" only to the last two. *)
LEMMA LateStaysLate ==
  ASSUME TypeInv, [Next]_vars, NEW p \in Requests, pc[p] \in {"publish", "done", "crashed"}
  PROVE  pc'[p] \in {"publish", "done", "crashed"}
  <1>1. ASSUME NEW r \in Requests, Submit(r) \/ ProcessPayment(r)
        PROVE  pc'[p] \in {"publish", "done", "crashed"}
    <2>1. CASE Publish(r)
      BY <2>1 DEF Publish, Answer, Goto, TypeInv, TypeOK
    <2>2. CASE ~Publish(r)
      <3>1. pc[r] \notin {"publish", "done", "crashed"}
        BY <1>1, <2>2 DEF Submit, ProcessPayment, PreflightOwn, PreflightAny, CheckFraud, Charge,
              Save, SaveConflict, RecoverOwn, RecoverAny
      <3>2. pc'[p] = pc[p]
        BY <1>1, <3>1, RequestGoes DEF TypeInv, TypeOK, Tasks
      <3> QED BY <3>2
    <2> QED BY <2>1, <2>2
  <1>2. ASSUME NEW f \in Refunds, RefundLoad(f) \/ RefundPayment(f)
        PROVE  pc'[p] \in {"publish", "done", "crashed"}
    BY <1>2, RefundGoes, TasksAssumption DEF TypeInv, TypeOK, Tasks
  <1>3. ASSUME NEW t \in Tasks, Crash(t)
        PROVE  pc'[p] \in {"publish", "done", "crashed"}
    BY <1>3 DEF Crash, Goto, TypeInv, TypeOK
  <1>4. CASE UNCHANGED vars
    BY <1>4 DEF vars
  <1> QED BY <1>1, <1>2, <1>3, <1>4 DEF Next, Finished

(* StoredLate is kept: only Save makes a row, and it leads to "publish". *)
LEMMA NextStoredLate == TypeInv /\ TableInv /\ [Next]_vars => StoredLate'
  <1> SUFFICES ASSUME TypeInv, TableInv, [Next]_vars, NEW p \in Requests, Stored(p)'
               PROVE  pc'[p] \in {"publish", "done", "crashed"}
    BY DEF StoredLate
  <1>1. CASE Stored(p)
    BY <1>1, LateStaysLate DEF TableInv, StoredLate
  <1>2. CASE ~Stored(p)
    <2>1. ASSUME NEW r \in Requests, Save(r)
          PROVE  pc'[p] \in {"publish", "done", "crashed"}
      BY <1>2, <2>1 DEF Save, Goto, Stored, TypeInv, TypeOK, Tasks
    <2>2. ASSUME NEW f \in Refunds, RefundUpdate(f)
          PROVE  Stored(p)
      <3>1. refunding[f].payment \in Requests /\ payments[refunding[f].payment] \in Payment
        BY <2>2 DEF RefundUpdate, TypeInv, Control, RefundControl, Refunding
      <3> QED BY <2>2, <3>1, NoneAssumption DEF RefundUpdate, Stored, TypeInv, TypeOK
    <2> QED BY <1>2, <2>1, <2>2, Writers DEF Stored
  <1> QED BY <1>1, <1>2

(* The constraint keeps keys unique: a row is inserted only if no stored row has
   its user and key. *)
LEMMA NextUniqueKeys == TypeInv /\ TableInv /\ [Next]_vars => UniqueKeys'
  <1> SUFFICES ASSUME TypeInv, TableInv, [Next]_vars,
                      NEW p \in Requests, NEW q \in Requests, Stored(p)', Stored(q)',
                      input'[p].user = input'[q].user, input'[p].key = input'[q].key,
                      input'[p].key # None
               PROVE  p = q
    BY DEF UniqueKeys
  <1>1. CASE Stored(p) /\ Stored(q)
    BY <1>1, StoredRowsForward DEF TableInv, UniqueKeys
  <1>2. CASE ~Stored(p) \/ ~Stored(q)
    <2>1. PICK r \in Requests : Save(r)
      <3>1. ASSUME NEW f \in Refunds, RefundUpdate(f)
            PROVE  Stored(p) /\ Stored(q)
        <4>1. refunding[f].payment \in Requests /\ payments[refunding[f].payment] \in Payment
          BY <3>1 DEF RefundUpdate, TypeInv, Control, RefundControl, Refunding
        <4> QED BY <3>1, <4>1, NoneAssumption DEF RefundUpdate, Stored, TypeInv, TypeOK
      <3> QED BY <1>2, <3>1, Writers DEF Stored
    <2>2. UNCHANGED input /\ ~ViolatesConstraint(r) /\ \A s \in Requests \ {r} : Stored(s)' => Stored(s)
      BY <2>1 DEF Save, Stored, TypeInv, TypeOK
    <2>3. CASE p = r
      BY <2>2, <2>3 DEF ViolatesConstraint, OwnRows, RowsOf, Stored
    <2>4. CASE q = r
      BY <2>2, <2>4 DEF ViolatesConstraint, OwnRows, RowsOf, Stored
    <2> QED BY <1>2, <2>2, <2>3, <2>4
  <1> QED BY <1>1, <1>2

(* The payment of a refund under way stays succeeded or refunded. *)
LEMMA NextRefundTarget ==
  ASSUME TypeInv, TableInv, [Next]_vars, NEW g \in Refunds
  PROVE  RefundTarget(g)'
  <1> DEFINE live == {"call", "update", "publish"}
  <1>1. ASSUME pc'[g] = pc[g], refunding'[g] = refunding[g]
        PROVE  RefundTarget(g)'
    <2>1. CASE pc[g] \in live
      <3> DEFINE p == refunding[g].payment
      <3>1. p \in Requests /\ payments[p] \in Payment
        BY <2>1 DEF TypeInv, Control, RefundControl, Refunding
      <3>2. Stored(p) BY <3>1, NoneAssumption DEF Stored
      <3>3. Forward(payments[p], payments'[p]) BY <3>1, <3>2, StoredRowsForward
      <3>4. /\ payments[p].status \in {"SUCCEEDED", "REFUNDED"}
            /\ pc[g] = "publish" => payments[p].status = "REFUNDED"
        BY <2>1 DEF TableInv, RefundTarget
      <3>5. payments'[p].status \in {payments[p].status, "REFUNDED"}
        BY <3>1, <3>3 DEF Forward, Payment
      <3> QED BY <1>1, <3>4, <3>5 DEF RefundTarget
    <2>2. CASE pc[g] \notin live
      BY <1>1, <2>2 DEF RefundTarget
    <2> QED BY <2>1, <2>2
  <1>2. ASSUME NEW r \in Requests, Submit(r) \/ ProcessPayment(r)
        PROVE  pc'[g] = pc[g] /\ refunding'[g] = refunding[g]
    <2>1. UNCHANGED refunding
      BY <1>2 DEF Submit, ProcessPayment, PreflightOwn, PreflightAny, CheckFraud, Charge, Save,
                  SaveConflict, RecoverOwn, RecoverAny, Publish
    <2> QED BY <1>2, <2>1, RequestGoes, TasksAssumption DEF TypeInv, TypeOK, Tasks
  <1>3. ASSUME NEW f \in Refunds \ {g}, RefundLoad(f) \/ RefundPayment(f)
        PROVE  pc'[g] = pc[g] /\ refunding'[g] = refunding[g]
    <2>1. refunding'[g] = refunding[g]
      BY <1>3 DEF RefundLoad, RefundPayment, RefundCall, RefundUpdate, RefundPublish, TypeInv, TypeOK
    <2> QED BY <1>3, <2>1, RefundGoes DEF TypeInv, TypeOK, Tasks
  <1>4. CASE RefundLoad(g)
    <2>1. PICK i \in RefundInputs :
            LET row == payments[i.payment] IN
            IF Refundable(row)
            THEN /\ refunding' = [refunding EXCEPT ![g] =
                      [payment |-> i.payment, amount |-> i.amount, key |-> i.key, tx |-> row.tx]]
                 /\ Goto(g, "call")
            ELSE Answer(g, IF row = None THEN 404 ELSE 400, None, None)
      BY <1>4 DEF RefundLoad
    <2>2. UNCHANGED payments BY <1>4 DEF RefundLoad
    <2>3. CASE Refundable(payments[i.payment])
      <3>1. pc'[g] = "call" /\ refunding'[g].payment = i.payment
        BY <2>1, <2>3 DEF Goto, TypeInv, TypeOK, Tasks
      <3> QED BY <2>2, <2>3, <3>1 DEF Refundable, RefundTarget
    <2>4. CASE ~Refundable(payments[i.payment])
      <3>1. pc'[g] = "done"
        BY <2>1, <2>4 DEF Answer, Goto, TypeInv, TypeOK, Tasks
      <3> QED BY <3>1 DEF RefundTarget
    <2> QED BY <2>3, <2>4
  <1>5. CASE RefundCall(g)
    <2>1. pc[g] = "call" /\ pc'[g] \in {"update", "done"} /\ UNCHANGED <<payments, refunding>>
      BY <1>5 DEF RefundCall, Answer, Goto, TypeInv, TypeOK, Tasks
    <2> QED BY <2>1 DEF TableInv, RefundTarget
  <1>6. CASE RefundUpdate(g)
    <2> DEFINE p == refunding[g].payment
    <2>1. pc'[g] = "publish" /\ UNCHANGED refunding
      BY <1>6 DEF RefundUpdate, Goto, TypeInv, TypeOK, Tasks
    <2>2. p \in Requests /\ payments[p] \in Payment
      BY <1>6 DEF RefundUpdate, TypeInv, Control, RefundControl, Refunding
    <2>3. payments'[p].status = "REFUNDED"
      BY <1>6, <2>2 DEF RefundUpdate, TypeInv, TypeOK, Payment
    <2> QED BY <2>1, <2>3 DEF RefundTarget
  <1>7. CASE RefundPublish(g)
    <2>1. pc'[g] = "done"
      BY <1>7 DEF RefundPublish, Answer, Goto, TypeInv, TypeOK, Tasks
    <2> QED BY <2>1 DEF RefundTarget
  <1>8. ASSUME NEW t \in Tasks, Crash(t)
        PROVE  RefundTarget(g)'
    <2>1. refunding'[g] = refunding[g] BY <1>8 DEF Crash
    <2>2. CASE t = g
      <3>1. pc'[g] = "crashed" BY <1>8, <2>2 DEF Crash, Goto, TypeInv, TypeOK
      <3> QED BY <3>1 DEF RefundTarget
    <2>3. CASE t # g
      <3>1. pc'[g] = pc[g] BY <1>8, <2>3 DEF Crash, Goto, TypeInv, TypeOK, Tasks
      <3> QED BY <1>1, <2>1, <3>1
    <2> QED BY <2>2, <2>3
  <1>9. CASE UNCHANGED vars
    BY <1>1, <1>9 DEF vars
  <1> QED
    BY <1>1, <1>2, <1>3, <1>4, <1>5, <1>6, <1>7, <1>8, <1>9 DEF Next, Finished, RefundPayment

(* An answer that shows a stored payment as it is, under the caller's key, is
   truthful. *)
LEMMA FreshAnswer ==
  ASSUME TypeInv, NEW t \in Tasks, NEW code, NEW p \in Requests \cup {None}, NEW st,
         Answer(t, code, p, st), UNCHANGED <<input, payments>>,
         p # None => /\ Stored(p)
                     /\ Shows(st, payments[p].status)
                     /\ t \in Requests => input[p].key = input[t].key
  PROVE  Truthful(t)'
  <1>1. pc'[t] = "done"
    BY DEF Answer, Goto, TypeInv, TypeOK
  <1>2. reply'[t] = [code |-> code, payment |-> p, status |-> st]
    BY DEF Answer, TypeInv, TypeOK
  <1> QED BY <1>1, <1>2 DEF Truthful, Stored

(* An answer taken from rows under the caller's key is truthful. *)
LEMMA FoundAnswer ==
  ASSUME TypeInv, NEW r \in Requests, NEW rows, UNCHANGED <<input, payments>>,
         rows \subseteq {p \in Requests : Stored(p) /\ input[p].key = input[r].key},
         ReturnFrom(r, rows)
  PROVE  Truthful(r)'
  <1>1. ASSUME NEW p \in rows, ReturnExisting(r, p)
        PROVE  Truthful(r)'
    BY <1>1, FreshAnswer DEF ReturnExisting, Shows, Tasks
  <1>2. ASSUME InternalError(r)
        PROVE  Truthful(r)'
    BY <1>2, FreshAnswer DEF InternalError, Tasks
  <1> QED BY <1>1, <1>2 DEF ReturnFrom

(* An answer stays truthful while payments move forward. *)
LEMMA OldAnswer ==
  ASSUME TypeInv, TableInv, [Next]_vars, NEW t \in Tasks,
         reply'[t] = reply[t], pc'[t] = pc[t]
  PROVE  Truthful(t)'
  <1> SUFFICES ASSUME reply[t] # None PROVE Truthful(t)'
    BY DEF Truthful
  <1>1. Truthful(t) BY DEF TableInv
  <1>2. pc[t] = "done" /\ reply[t] \in Reply
    BY <1>1 DEF Truthful, TypeInv, TypeOK
  <1>3. CASE reply[t].payment = None
    BY <1>2, <1>3 DEF Truthful
  <1>4. CASE reply[t].payment # None
    <2> DEFINE p == reply[t].payment
    <2>1. p \in Requests /\ Stored(p) /\ Shows(reply[t].status, payments[p].status)
          /\ (t \in Requests => input[p].key = input[t].key)
      BY <1>1, <1>2, <1>4 DEF Truthful, Reply
    <2>2. Stored(p)' /\ Shows(reply[t].status, payments'[p].status) /\ input'[p] = input[p]
      BY <2>1, StoredRowsForward
    <2>3. t \in Requests => input'[t] = input[t]
      <3>1. ASSUME NEW r \in Requests, Submit(r) PROVE input'[t] = input[t] \/ t \notin Requests
        BY <1>2, <3>1 DEF Submit, TypeInv, TypeOK
      <3> QED BY <3>1, Writers
    <2> QED BY <1>2, <2>1, <2>2, <2>3 DEF Truthful
  <1> QED BY <1>3, <1>4

(* A task that moves on without answering says nothing false. *)
LEMMA SilentMove ==
  ASSUME TableInv, NEW t \in Tasks, pc[t] # "done", reply'[t] = reply[t]
  PROVE  Truthful(t)'
  <1>1. reply[t] = None BY DEF TableInv, Truthful
  <1> QED BY <1>1 DEF Truthful

(* Every step of a request leaves its answer truthful. *)
LEMMA RequestTruthful ==
  ASSUME TypeInv, TableInv, NEW r \in Requests, Submit(r) \/ ProcessPayment(r)
  PROVE  Truthful(r)'
  <1>1. CASE Submit(r) \/ CheckFraud(r) \/ Charge(r) \/ Save(r) \/ SaveConflict(r)
    BY <1>1, SilentMove DEF Submit, CheckFraud, Charge, Save, SaveConflict, Tasks
  <1>2. OwnRows(r) \subseteq {p \in Requests : Stored(p) /\ input[p].key = input[r].key}
    BY DEF OwnRows, RowsOf, Stored
  <1>3. RowsUnder(r) \subseteq {p \in Requests : Stored(p) /\ input[p].key = input[r].key}
    BY DEF RowsUnder, Stored
  <1>4. CASE PreflightOwn(r) \/ RecoverOwn(r)
    <2>1. CASE ReturnFrom(r, OwnRows(r))
      BY <1>2, <1>4, <2>1, FoundAnswer DEF PreflightOwn, RecoverOwn
    <2>2. CASE UNCHANGED reply
      BY <1>4, <2>2, SilentMove DEF PreflightOwn, RecoverOwn, Tasks
    <2> QED BY <1>4, <2>1, <2>2 DEF PreflightOwn, RecoverOwn
  <1>5. CASE PreflightAny(r) \/ RecoverAny(r)
    <2>0. UNCHANGED <<input, payments>> /\ pc[r] # "done"
      BY <1>5 DEF PreflightAny, RecoverAny
    <2>1. CASE ReturnFrom(r, RowsUnder(r))
      BY <1>3, <2>0, <2>1, FoundAnswer
    <2>2. CASE UNCHANGED reply
      BY <2>0, <2>2, SilentMove DEF Tasks
    <2>3. CASE InternalError(r)
      BY <2>0, <2>3, FreshAnswer DEF InternalError, Tasks
    <2> QED BY <1>5, <2>1, <2>2, <2>3 DEF PreflightAny, RecoverAny
  <1>6. CASE Publish(r)
    <2>1. Stored(r) /\ Shows(draft[r].status, payments[r].status)
      BY <1>6 DEF Publish, TableInv, Publishing
    <2>2. PICK code : Answer(r, code, r, draft[r].status)
      BY <1>6 DEF Publish
    <2>3. UNCHANGED <<input, payments>> /\ r \in Tasks
      BY <1>6 DEF Publish, Tasks
    <2> QED BY <2>1, <2>2, <2>3, FreshAnswer
  <1> QED BY <1>1, <1>4, <1>5, <1>6 DEF ProcessPayment

(* Every step of a refund leaves its answer truthful. *)
LEMMA RefundTruthful ==
  ASSUME TypeInv, TableInv, NEW f \in Refunds, RefundLoad(f) \/ RefundPayment(f)
  PROVE  Truthful(f)'
  <1> USE DEF Tasks
  <1>1. CASE RefundLoad(f)
    <2>1. UNCHANGED <<input, payments>> /\ pc[f] # "done"
      BY <1>1 DEF RefundLoad
    <2>2. UNCHANGED reply \/ \E code : Answer(f, code, None, None)
      BY <1>1 DEF RefundLoad
    <2>3. CASE \E code : Answer(f, code, None, None)
      <3>1. PICK code : Answer(f, code, None, None)
        BY <2>3
      <3> QED BY <2>1, <3>1, FreshAnswer
    <2> QED BY <2>1, <2>2, <2>3, SilentMove
  <1>2. CASE RefundCall(f)
    <2>1. UNCHANGED <<input, payments>> /\ pc[f] # "done"
      BY <1>2 DEF RefundCall
    <2>2. UNCHANGED reply \/ Answer(f, 400, None, None)
      BY <1>2 DEF RefundCall
    <2> QED BY <2>1, <2>2, SilentMove, FreshAnswer
  <1>3. CASE RefundUpdate(f)
    BY <1>3, SilentMove DEF RefundUpdate
  <1>4. CASE RefundPublish(f)
    <2> DEFINE p == refunding[f].payment
    <2>1. p \in Requests /\ payments[p] \in Payment /\ payments[p].status = "REFUNDED"
      BY <1>4 DEF RefundPublish, TypeInv, Control, RefundControl, Refunding, TableInv, RefundTarget
    <2>2. Stored(p) BY <2>1, NoneAssumption DEF Stored
    <2>3. UNCHANGED <<input, payments>> /\ Answer(f, 200, p, "REFUNDED") /\ f \notin Requests
      BY <1>4, TasksAssumption DEF RefundPublish
    <2> QED BY <2>1, <2>2, <2>3, FreshAnswer DEF Shows
  <1> QED BY <1>1, <1>2, <1>3, <1>4 DEF RefundPayment

(* A step writes the answer of the task it moves only. *)
LEMMA OthersKeepReplies ==
  ASSUME TypeInv, NEW t \in Tasks, NEW s \in Tasks \ {t},
         \/ t \in Requests /\ (Submit(t) \/ ProcessPayment(t))
         \/ t \in Refunds /\ (RefundLoad(t) \/ RefundPayment(t))
  PROVE  reply'[s] = reply[s] /\ pc'[s] = pc[s]
  <1>1. pc'[s] = pc[s]
    BY RequestGoes, RefundGoes DEF TypeInv, TypeOK
  <1>2. reply'[s] = reply[s]
    <2>1. UNCHANGED reply \/ \E code, p, st : Answer(t, code, p, st)
      <3>1. CASE t \in Requests /\ (Submit(t) \/ ProcessPayment(t))
        <4>1. ASSUME Submit(t) \/ CheckFraud(t) \/ Charge(t) \/ Save(t) \/ SaveConflict(t)
              PROVE  UNCHANGED reply
          BY <4>1 DEF Submit, CheckFraud, Charge, Save, SaveConflict
        <4>2. ASSUME PreflightOwn(t) \/ PreflightAny(t) \/ RecoverOwn(t) \/ RecoverAny(t)
              PROVE  UNCHANGED reply \/ InternalError(t) \/ \E rows : ReturnFrom(t, rows)
          BY <4>2 DEF PreflightOwn, PreflightAny, RecoverOwn, RecoverAny
        <4>3. ASSUME NEW rows, ReturnFrom(t, rows) PROVE \E code, p, st : Answer(t, code, p, st)
          BY <4>3 DEF ReturnFrom, ReturnExisting, InternalError
        <4>4. ASSUME InternalError(t) \/ Publish(t) PROVE \E code, p, st : Answer(t, code, p, st)
          BY <4>4 DEF InternalError, Publish
        <4> QED BY <3>1, <4>1, <4>2, <4>3, <4>4 DEF ProcessPayment
      <3>2. CASE t \in Refunds /\ (RefundLoad(t) \/ RefundPayment(t))
        BY <3>2 DEF RefundLoad, RefundPayment, RefundCall, RefundUpdate, RefundPublish
      <3> QED BY <3>1, <3>2
    <2> QED BY <2>1 DEF Answer, TypeInv, TypeOK
  <1> QED BY <1>1, <1>2

(* Every answer stays truthful, whoever moves. *)
LEMMA NextTruthful ==
  ASSUME TypeInv, TableInv, [Next]_vars, NEW s \in Tasks
  PROVE  Truthful(s)'
  <1>1. ASSUME NEW t \in Tasks,
               \/ t \in Requests /\ (Submit(t) \/ ProcessPayment(t))
               \/ t \in Refunds /\ (RefundLoad(t) \/ RefundPayment(t))
        PROVE  Truthful(s)'
    <2>1. CASE s = t
      BY <1>1, <2>1, RequestTruthful, RefundTruthful
    <2>2. CASE s # t
      BY <1>1, <2>2, OthersKeepReplies, OldAnswer
    <2> QED BY <2>1, <2>2
  <1>2. ASSUME NEW t \in Tasks, Crash(t)
        PROVE  Truthful(s)'
    <2>1. UNCHANGED reply /\ pc[t] # "done" BY <1>2 DEF Crash
    <2>2. CASE s = t
      BY <2>1, <2>2, SilentMove
    <2>3. CASE s # t
      <3>1. pc'[s] = pc[s] BY <1>2, <2>3 DEF Crash, Goto, TypeInv, TypeOK
      <3> QED BY <2>1, <3>1, OldAnswer
    <2> QED BY <2>2, <2>3
  <1>3. CASE UNCHANGED vars
    BY <1>3, OldAnswer DEF vars
  <1> QED BY <1>1, <1>2, <1>3 DEF Next, Finished, Tasks

(* Only a commit leads to "publish". *)
LEMMA EnterPublish ==
  ASSUME TypeInv, [Next]_vars, NEW t \in Tasks, pc'[t] = "publish"
  PROVE  \/ pc[t] = "publish"
         \/ t \in Requests /\ Save(t)
         \/ t \in Refunds /\ RefundUpdate(t)
  <1> SUFFICES ASSUME pc[t] # "publish"
               PROVE  \/ t \in Requests /\ Save(t)
                      \/ t \in Refunds /\ RefundUpdate(t)
    OBVIOUS
  <1>0. pc \in [Tasks -> RequestSteps \cup RefundSteps] BY DEF TypeInv, TypeOK
  <1>1. ASSUME NEW r \in Requests, Submit(r) \/ ProcessPayment(r)
        PROVE  r = t /\ Save(t)
    <2>1. r = t BY <1>0, <1>1, RequestGoes DEF Tasks
    <2>2. pc' = [pc EXCEPT ![t] = "publish"]
      BY <1>0, <1>1, <2>1, RequestGoes
    <2>3. ASSUME Submit(t) PROVE FALSE
      BY <1>0, <2>3 DEF Submit, Goto
    <2>4. ASSUME PreflightOwn(t) \/ PreflightAny(t) \/ RecoverOwn(t) PROVE FALSE
      BY <1>0, <2>4 DEF PreflightOwn, PreflightAny, RecoverOwn, ReturnFrom, ReturnExisting,
         InternalError, Answer, Goto
    <2>5. ASSUME RecoverAny(t) PROVE FALSE
      <3>1. ReturnFrom(t, RowsUnder(t)) \/ InternalError(t) \/ Goto(t, "recover own")
        BY <2>5 DEF RecoverAny
      <3>2. Goto(t, "done") \/ Goto(t, "recover own")
        BY <3>1 DEF ReturnFrom, ReturnExisting, InternalError, Answer
      <3> QED BY <1>0, <3>2 DEF Goto
    <2>6. ASSUME CheckFraud(t) \/ Charge(t) \/ SaveConflict(t) \/ Publish(t) PROVE FALSE
      BY <1>0, <2>6 DEF CheckFraud, Charge, SaveConflict, Publish, Answer, Goto
    <2> QED BY <1>1, <2>1, <2>3, <2>4, <2>5, <2>6 DEF ProcessPayment
  <1>2. ASSUME NEW f \in Refunds, RefundLoad(f) \/ RefundPayment(f)
        PROVE  f = t /\ RefundUpdate(t)
    <2>1. f = t BY <1>0, <1>2, RefundGoes DEF Tasks
    <2>2. ASSUME RefundLoad(t) PROVE FALSE
      BY <1>0, <2>2 DEF RefundLoad, Answer, Goto
    <2>3. ASSUME RefundCall(t) \/ RefundPublish(t) PROVE FALSE
      BY <1>0, <2>3 DEF RefundCall, RefundPublish, Answer, Goto
    <2> QED BY <1>2, <2>1, <2>2, <2>3 DEF RefundPayment
  <1>3. ASSUME NEW s \in Tasks, Crash(s) PROVE FALSE
    BY <1>0, <1>3 DEF Crash, Goto
  <1>4. ASSUME UNCHANGED vars PROVE FALSE
    BY <1>4 DEF vars
  <1> QED BY <1>1, <1>2, <1>3, <1>4 DEF Next, Finished

(* A message is never taken out of the outbox here. *)
LEMMA MessagesStay ==
  ASSUME TypeInv, [Next]_vars, NEW t \in Tasks, outbox[t] # None
  PROVE  outbox'[t] # None
  <1>1. ASSUME NEW r \in Requests, Save(r) PROVE outbox'[t] # None
    <2>1. [type |-> EventFor(draft[r].status), payment |-> r] # None
      BY NoneAssumption DEF Message, EventFor
    <2> QED BY <1>1, <2>1 DEF Save, TypeInv, TypeOK
  <1>2. ASSUME NEW f \in Refunds, RefundUpdate(f) PROVE outbox'[t] # None
    <2>1. refunding[f].payment \in Requests
      BY <1>2 DEF RefundUpdate, TypeInv, Control, RefundControl, Refunding
    <2>2. [type |-> "Refunded", payment |-> refunding[f].payment] # None
      BY <2>1, NoneAssumption DEF Message
    <2> QED BY <1>2, <2>2 DEF RefundUpdate, TypeInv, TypeOK
  <1> QED BY <1>1, <1>2, Writers

(* Publishing is kept: only a commit leads to "publish". *)
LEMMA NextPublishing == TypeInv /\ TableInv /\ [Next]_vars => Publishing'
  <1> SUFFICES ASSUME TypeInv, TableInv, [Next]_vars PROVE Publishing'
    OBVIOUS
  <1>1. ASSUME NEW t \in Tasks, pc'[t] = "publish"
        PROVE  outbox'[t] # None
    <2>1. CASE pc[t] = "publish"
      BY <2>1, MessagesStay DEF TableInv, Publishing
    <2>2. CASE t \in Requests /\ Save(t)
      <3>1. [type |-> EventFor(draft[t].status), payment |-> t] # None
        BY <2>2, NoneAssumption DEF Message, EventFor
      <3> QED BY <2>2, <3>1 DEF Save, TypeInv, TypeOK
    <2>3. CASE t \in Refunds /\ RefundUpdate(t)
      <3>1. refunding[t].payment \in Requests
        BY <2>3 DEF RefundUpdate, TypeInv, Control, RefundControl, Refunding
      <3>2. [type |-> "Refunded", payment |-> refunding[t].payment] # None
        BY <3>1, NoneAssumption DEF Message
      <3> QED BY <2>3, <3>2 DEF RefundUpdate, TypeInv, TypeOK
    <2> QED BY <1>1, <2>1, <2>2, <2>3, EnterPublish
  <1>2. ASSUME NEW r \in Requests, pc'[r] = "publish"
        PROVE  Stored(r)' /\ Shows(draft'[r].status, payments'[r].status)
    <2>1. CASE pc[r] = "publish"
      <3>1. draft'[r] = draft[r]
        <4>1. ASSUME NEW q \in Requests, CheckFraud(q) \/ Charge(q) PROVE draft'[r] = draft[r]
          BY <2>1, <4>1 DEF CheckFraud, Charge, TypeInv, TypeOK
        <4> QED BY <4>1, DraftWriters
      <3> QED BY <2>1, <3>1, StoredRowsForward DEF TableInv, Publishing
    <2>2. CASE Save(r)
      <3>1. draft[r] \in Payment
        BY <2>2 DEF Save, TypeInv, Control, RequestControl
      <3> QED BY <2>2, <3>1, NoneAssumption DEF Save, Stored, Shows, TypeInv, TypeOK
    <2> QED BY <1>2, <2>1, <2>2, EnterPublish, TasksAssumption DEF Tasks
  <1> QED BY <1>1, <1>2 DEF Publishing

(* Only a task at "publish" announces. *)
LEMMA NextAnnounced == TypeInv /\ TableInv /\ [Next]_vars => AnnouncedAfterCommit'
  <1> SUFFICES ASSUME TypeInv, TableInv, [Next]_vars, NEW t \in announced'
               PROVE  outbox'[t] # None
    BY DEF AnnouncedAfterCommit
  <1>1. t \in announced \/ (t \in Tasks /\ pc[t] = "publish")
    <2>1. ASSUME NEW r \in Requests, Publish(r) PROVE t \in announced \/ (t = r /\ pc[r] = "publish")
      BY <2>1 DEF Publish
    <2>2. ASSUME NEW f \in Refunds, RefundPublish(f)
          PROVE  t \in announced \/ (t = f /\ pc[f] = "publish")
      BY <2>2 DEF RefundPublish
    <2>3. ASSUME NEW r \in Requests, Submit(r) \/ ProcessPayment(r), ~Publish(r) PROVE UNCHANGED announced
      BY <2>3 DEF Submit, ProcessPayment, PreflightOwn, PreflightAny, CheckFraud, Charge, Save,
         SaveConflict, RecoverOwn, RecoverAny
    <2>4. ASSUME NEW f \in Refunds, RefundLoad(f) \/ RefundPayment(f), ~RefundPublish(f)
          PROVE  UNCHANGED announced
      BY <2>4 DEF RefundLoad, RefundPayment, RefundCall, RefundUpdate
    <2>5. (UNCHANGED vars \/ \E s \in Tasks : Crash(s)) => UNCHANGED announced BY DEF vars, Crash
    <2> QED BY <2>1, <2>2, <2>3, <2>4, <2>5 DEF Next, Finished, Tasks
  <1>2. t \in Tasks /\ outbox[t] # None
    BY <1>1 DEF TableInv, AnnouncedAfterCommit, Publishing, TypeInv, TypeOK
  <1> QED BY <1>2, MessagesStay

(* So the tables are in order in every reachable state. *)
LEMMA AlwaysTableInv == Spec => [](TypeInv /\ TableInv)
  <1>1. TypeInv /\ TableInv /\ [Next]_vars => TableInv'
    BY NextStoredLate, NextUniqueKeys, NextRefundTarget, NextPublishing, NextAnnounced,
       NextTruthful DEF TableInv
  <1> QED BY <1>1, InitTypeInv, InitTableInv, NextTypeInv, PTL DEF Spec

(* No event reaches the bus before the transaction it tells of has committed, for
   any number of requests and refunds. *)
THEOREM CommitBeforeAnnouncement == Spec => []AnnouncedAfterCommit
  <1>1. TableInv => AnnouncedAfterCommit BY DEF TableInv
  <1> QED BY <1>1, AlwaysTableInv, PTL

(* What a caller is shown is stored, with the status shown or since refunded. *)
THEOREM DurableAnswers == Spec => []AnswersAreDurable
  <1>1. TableInv => AnswersAreDurable
    BY DEF TableInv, Truthful, Shows, AnswersAreDurable
  <1> QED BY <1>1, AlwaysTableInv, PTL

(* All answers that show a user's own payment under one idempotency key show the
   same payment, whichever lookups, inserts and conflicts produced them. *)
THEOREM IdempotentAnswers == Spec => []SameKeySamePayment
  <1>1. ASSUME TypeInv, TableInv, NEW r \in Requests, NEW s \in Requests,
               reply[r] # None, reply[r].payment # None,
               reply[s] # None, reply[s].payment # None,
               input[r].user = input[s].user, input[r].key = input[s].key, input[r].key # None,
               input[reply[r].payment].user = input[r].user,
               input[reply[s].payment].user = input[r].user
        PROVE  reply[r].payment = reply[s].payment
    <2>1. ASSUME NEW q \in Requests, reply[q] # None, reply[q].payment # None
          PROVE  /\ reply[q].payment \in Requests
                 /\ Stored(reply[q].payment)
                 /\ input[reply[q].payment].key = input[q].key
      <3>1. reply[q] \in Reply BY <1>1, <2>1 DEF TypeInv, TypeOK, Tasks
      <3> QED BY <1>1, <2>1, <3>1 DEF TableInv, Truthful, Reply, Tasks
    <2> QED BY <1>1, <2>1 DEF TableInv, UniqueKeys
  <1>2. TypeInv /\ TableInv => SameKeySamePayment
    BY <1>1 DEF SameKeySamePayment
  <1> QED BY <1>2, AlwaysTableInv, PTL

(* A stored payment is never deleted or rewritten, but for SUCCEEDED becoming
   REFUNDED. *)
THEOREM PaymentsOnlyForward == Spec => StatusOnlyForward
  <1>1. TypeInv /\ TableInv /\ [Next]_vars =>
          [\A r \in Requests : Stored(r) =>
             \/ payments'[r] = payments[r]
             \/ /\ payments[r].status = "SUCCEEDED"
                /\ payments'[r] = [payments[r] EXCEPT !.status = "REFUNDED"]]_vars
    BY StoredRowsForward DEF Forward
  <1> QED BY <1>1, AlwaysTableInv, PTL DEF Spec, StatusOnlyForward

-----------------------------------------------------------------------------
(* The fraud check *)

(* The check is passed when the provider is about to be called, and a request
   that was charged is past its fraud check. *)
FraudInv ==
  /\ SafeFraudFallback
  /\ \A r \in Requests : pc[r] = "charge" => PassesCheck(answer[r])
  /\ \A r \in taken : pc[r] \notin {"idle", "own", "any", "fraud"}

(* Nobody reaches "charge" but by the check, and no one else is charged. *)
LEMMA NextFraudInv == TypeInv /\ FraudInv /\ [Next]_vars => FraudInv'
  <1> SUFFICES ASSUME TypeInv, FraudInv, [Next]_vars PROVE FraudInv'
    OBVIOUS
  <1> USE DEF Tasks
  <1>1. ASSUME NEW t \in Tasks, NEW step,
               pc' = [pc EXCEPT ![t] = step], step \notin {"idle", "own", "any", "fraud", "charge"},
               UNCHANGED <<taken, answer>>
        PROVE  FraudInv'
    BY <1>1 DEF FraudInv, SafeFraudFallback, TypeInv, TypeOK
  <1>2. ASSUME NEW r \in Requests, pc[r] \in {"idle", "own", "any"}, NEW step,
               pc' = [pc EXCEPT ![r] = step], step # "charge", UNCHANGED <<taken, answer>>
        PROVE  FraudInv'
    BY <1>2 DEF FraudInv, SafeFraudFallback, TypeInv, TypeOK
  <1>3. ASSUME NEW r \in Requests, Submit(r) PROVE FraudInv'
    <2>1. PICK step \in {"fraud", "own"} : Goto(r, step) BY <1>3 DEF Submit
    <2>2. pc' = [pc EXCEPT ![r] = step] /\ step # "charge" BY <2>1 DEF Goto
    <2>3. pc[r] = "idle" /\ UNCHANGED <<taken, answer>> BY <1>3 DEF Submit, providerVars
    <2> QED BY <1>2, <2>2, <2>3
  <1>4. ASSUME NEW r \in Requests, PreflightOwn(r) \/ PreflightAny(r) PROVE FraudInv'
    <2>1. PICK step \in {"any", "fraud", "done"} : Goto(r, step)
      BY <1>4 DEF PreflightOwn, PreflightAny, ReturnFrom, ReturnExisting, InternalError, Answer
    <2>2. pc' = [pc EXCEPT ![r] = step] /\ step # "charge" BY <2>1 DEF Goto
    <2>3. pc[r] \in {"own", "any"} /\ UNCHANGED <<taken, answer>>
      BY <1>4 DEF PreflightOwn, PreflightAny, providerVars
    <2> QED BY <1>2, <2>2, <2>3
  <1>5. ASSUME NEW r \in Requests, CheckFraud(r) PROVE FraudInv'
    <2>1. PICK a \in Verdicts :
            /\ answer' = [answer EXCEPT ![r] = a]
            /\ Goto(r, IF Decision(a) \in {"REJECT", "REVIEW"} THEN "save" ELSE "charge")
      BY <1>5 DEF CheckFraud
    <2> a \in FraudAnswers BY VerdictsAssumption
    <2>2. Decision(a) \notin {"REJECT", "REVIEW"} => PassesCheck(a)
      BY DEF Decision, FraudAnswers, PassesCheck
    <2>3. r \notin taken /\ UNCHANGED taken BY <1>5 DEF CheckFraud, FraudInv, providerVars
    <2>4. pc'[r] \in {"charge", "save"} /\ (pc'[r] = "charge" => PassesCheck(a))
          /\ \A t \in Tasks \ {r} : pc'[t] = pc[t]
      BY <2>1, <2>2 DEF Goto, TypeInv, TypeOK
    <2>5. answer'[r] = a /\ \A q \in Requests \ {r} : answer'[q] = answer[q]
      BY <2>1 DEF TypeInv, TypeOK
    <2> QED BY <2>3, <2>4, <2>5 DEF FraudInv, SafeFraudFallback, TypeInv, TypeOK
  <1>6. ASSUME NEW r \in Requests, Charge(r) PROVE FraudInv'
    <2>1. PICK res \in Result : CreateCharge(r, input[r].key, input[r], res) BY <1>6 DEF Charge
    <2>2. pc[r] = "charge" /\ pc' = [pc EXCEPT ![r] = "save"] /\ UNCHANGED answer
      BY <1>6 DEF Charge, Goto
    <2>3. input[r] \in Inputs BY <2>2 DEF TypeInv, Control, RequestControl
    <2>4. taken' \subseteq taken \cup {r} BY <2>1, <2>3, CreateChargeTypes
    <2> QED BY <2>2, <2>4 DEF FraudInv, SafeFraudFallback, TypeInv, TypeOK
  <1>7. ASSUME NEW r \in Requests, Save(r) \/ SaveConflict(r) \/ Publish(r) PROVE FraudInv'
    <2>1. PICK step \in {"publish", "recover own", "done"} : pc' = [pc EXCEPT ![r] = step]
      BY <1>7 DEF Save, SaveConflict, Publish, Answer, Goto
    <2>2. UNCHANGED <<taken, answer>> BY <1>7 DEF Save, SaveConflict, Publish, providerVars
    <2> QED BY <1>1, <2>1, <2>2
  <1>8. ASSUME NEW r \in Requests, RecoverOwn(r) \/ RecoverAny(r) PROVE FraudInv'
    <2>1. PICK step \in {"recover own", "recover any", "done"} : pc' = [pc EXCEPT ![r] = step]
      BY <1>8 DEF RecoverOwn, RecoverAny, ReturnFrom, ReturnExisting, InternalError, Answer, Goto
    <2>2. UNCHANGED <<taken, answer>> BY <1>8 DEF RecoverOwn, RecoverAny, providerVars
    <2> QED BY <1>1, <2>1, <2>2
  <1>9. ASSUME NEW f \in Refunds, RefundLoad(f) \/ RefundPayment(f) PROVE FraudInv'
    <2>1. PICK step \in {"call", "update", "publish", "done"} : pc' = [pc EXCEPT ![f] = step]
      BY <1>9 DEF RefundLoad, RefundPayment, RefundCall, RefundUpdate, RefundPublish, Answer, Goto
    <2>2. UNCHANGED <<taken, answer>>
      BY <1>9 DEF RefundLoad, RefundPayment, RefundCall, RefundUpdate, RefundPublish,
         RefundCharge, PayBack, providerVars
    <2> QED BY <1>1, <2>1, <2>2
  <1>10. ASSUME NEW t \in Tasks, Crash(t) PROVE FraudInv'
    BY <1>1, <1>10 DEF Crash, Goto, providerVars
  <1>11. CASE UNCHANGED vars
    BY <1>11 DEF vars, providerVars, FraudInv, SafeFraudFallback
  <1> QED
    BY <1>3, <1>4, <1>5, <1>6, <1>7, <1>8, <1>9, <1>10, <1>11
    DEF Next, ProcessPayment, Finished

(* Safe fallback: whatever the interleaving of requests, no money is taken for one
   whose fraud check has not been answered, failed, or said REVIEW or REJECT. *)
THEOREM FailSafeCharging == Spec => []SafeFraudFallback
  <1>1. Init => FraudInv
    BY DEF Init, ProviderInit, FraudInv, SafeFraudFallback, Tasks
  <1>2. FraudInv => SafeFraudFallback BY DEF FraudInv
  <1> QED BY <1>1, <1>2, AlwaysTypeInv, NextFraudInv, PTL DEF Spec

-----------------------------------------------------------------------------
(* The race for a key *)

Past == {"save", "recover own", "recover any", "publish", "done", "crashed"}

(* A request never starts again, and never goes back to its charge. *)
LEMMA RequestForward ==
  ASSUME TypeInv, [Next]_vars, NEW q \in Requests, pc[q] # "idle"
  PROVE  pc'[q] # "idle" /\ input'[q] = input[q] /\ (pc[q] \in Past => pc'[q] \in Past)
  <1>1. pc \in [Tasks -> RequestSteps \cup RefundSteps] /\ q \in Tasks BY DEF TypeInv, TypeOK, Tasks
  <1>2. input'[q] = input[q]
    <2>1. ASSUME NEW r \in Requests, Submit(r) PROVE input'[q] = input[q]
      BY <2>1 DEF Submit, TypeInv, TypeOK
    <2> QED BY <2>1, Writers
  <1>3. ASSUME pc'[q] = pc[q] PROVE pc'[q] # "idle" /\ (pc[q] \in Past => pc'[q] \in Past)
    BY <1>3
  <1>4. ASSUME NEW r \in Requests, Submit(r) \/ ProcessPayment(r)
        PROVE  pc'[q] # "idle" /\ (pc[q] \in Past => pc'[q] \in Past)
    <2>1. CASE r # q BY <1>1, <1>3, <1>4, <2>1, RequestGoes
    <2>2. CASE r = q
      <3>1. ~Submit(q) BY DEF Submit
      <3>2. CASE PreflightOwn(q) \/ PreflightAny(q)
        <4>1. PICK step \in {"any", "fraud", "done"} : Goto(q, step)
          BY <3>2 DEF PreflightOwn, PreflightAny, ReturnFrom, ReturnExisting, InternalError, Answer
        <4> QED BY <1>1, <3>2, <4>1 DEF PreflightOwn, PreflightAny, Goto, Past
      <3>3. CASE CheckFraud(q) \/ Charge(q)
        <4>1. PICK step \in {"charge", "save"} : Goto(q, step) BY <3>3 DEF CheckFraud, Charge
        <4> QED BY <1>1, <3>3, <4>1 DEF CheckFraud, Charge, Goto, Past
      <3>4. CASE Save(q) \/ SaveConflict(q) \/ Publish(q)
        <4>1. PICK step \in {"publish", "recover own", "done"} : Goto(q, step)
          BY <3>4 DEF Save, SaveConflict, Publish, Answer
        <4> QED BY <1>1, <4>1 DEF Goto, Past
      <3>5. CASE RecoverOwn(q) \/ RecoverAny(q)
        <4>1. PICK step \in {"recover own", "recover any", "done"} : Goto(q, step)
          BY <3>5 DEF RecoverOwn, RecoverAny, ReturnFrom, ReturnExisting, InternalError, Answer
        <4> QED BY <1>1, <4>1 DEF Goto, Past
      <3> QED BY <1>4, <2>2, <3>1, <3>2, <3>3, <3>4, <3>5 DEF ProcessPayment
    <2> QED BY <2>1, <2>2
  <1>5. ASSUME NEW f \in Refunds, RefundLoad(f) \/ RefundPayment(f)
        PROVE  pc'[q] # "idle" /\ (pc[q] \in Past => pc'[q] \in Past)
    BY <1>1, <1>3, <1>5, RefundGoes, TasksAssumption
  <1>6. ASSUME NEW t \in Tasks, Crash(t)
        PROVE  pc'[q] # "idle" /\ (pc[q] \in Past => pc'[q] \in Past)
    BY <1>1, <1>6 DEF Crash, Goto, Past
  <1>7. CASE UNCHANGED vars BY <1>3, <1>7 DEF vars
  <1> QED BY <1>2, <1>4, <1>5, <1>6, <1>7 DEF Next, Finished

(* A set with two elements to count has two different ones. *)
LEMMA TwoOfMany ==
  ASSUME NEW S, Cardinality(S) > 1
  PROVE  \E p, q \in S : p # q
  <1> SUFFICES ASSUME \A p, q \in S : p = q PROVE FALSE
    OBVIOUS
  <1>1. CASE S = {} BY <1>1, FS_EmptySet
  <1>2. CASE S # {}
    <2>1. PICK p : p \in S BY <1>2
    <2>2. S = {p} BY <2>1
    <2>3. Cardinality(S) = 1 BY <2>2, FS_Singleton
    <2> QED BY <2>3
  <1> QED BY <1>1, <1>2

(* A request that lost the race has a key, and the winner's row is there. *)
RaceInv ==
  /\ \A r \in Requests :
       /\ pc[r] \in {"own", "any"} => input[r].key # None
       /\ pc[r] \in {"recover own", "recover any"} /\ input[r].amount = "cents" =>
            input[r].key # None /\ OwnRows(r) # {}
  /\ RaceLoserIsAnswered

(* Many rows under a key belong to many users. *)
LEMMA ManyRows ==
  ASSUME TypeInv, TableInv, NEW r \in Requests, input[r].key # None
  PROVE  /\ ~(Cardinality(OwnRows(r)) > 1)
         /\ Cardinality(RowsUnder(r)) > 1 =>
              \E p \in Requests : Stored(p) /\ input[p].key = input[r].key
                                   /\ input[p].user # input[r].user
  <1>1. ASSUME NEW p \in OwnRows(r), NEW q \in OwnRows(r) PROVE p = q
    BY <1>1 DEF OwnRows, RowsOf, Stored, TableInv, UniqueKeys
  <1>2. ~(Cardinality(OwnRows(r)) > 1) BY <1>1, TwoOfMany
  <1>3. ASSUME Cardinality(RowsUnder(r)) > 1
        PROVE  \E p \in Requests : Stored(p) /\ input[p].key = input[r].key
                                    /\ input[p].user # input[r].user
    <2>1. PICK p, q \in RowsUnder(r) : p # q BY <1>3, TwoOfMany
    <2>2. input[p].user # input[q].user
      BY <2>1 DEF RowsUnder, Stored, TableInv, UniqueKeys
    <2>3. /\ p \in Requests /\ Stored(p) /\ input[p].key = input[r].key
          /\ q \in Requests /\ Stored(q) /\ input[q].key = input[r].key
      BY DEF RowsUnder, Stored
    <2> QED BY <2>2, <2>3
  <1> QED BY <1>2, <1>3

(* The winner's row stays. *)
LEMMA OwnRowsStay ==
  ASSUME TypeInv, TableInv, [Next]_vars, NEW r \in Requests, pc[r] # "idle", OwnRows(r) # {}
  PROVE  (OwnRows(r) # {})'
  <1>1. PICK p \in Requests : /\ Stored(p) /\ input[p].user = input[r].user
                             /\ input[p].key = input[r].key
    BY DEF OwnRows, RowsOf, Stored
  <1>2. Stored(p)' /\ input'[p] = input[p] BY <1>1, StoredRowsForward
  <1>3. input'[r] = input[r] BY RequestForward
  <1> QED BY <1>1, <1>2, <1>3 DEF OwnRows, RowsOf, Stored

(* Where a request with a key can come from. *)
LEMMA EnterRace ==
  ASSUME TypeInv, [Next]_vars, NEW r \in Requests
  PROVE  /\ pc'[r] \in {"own", "any"} =>
              \/ pc[r] \in {"own", "any"} /\ input'[r] = input[r]
              \/ input'[r].key # None
         /\ pc'[r] \in {"recover own", "recover any"} =>
              \/ pc[r] \in {"recover own", "recover any"}
              \/ pc[r] = "save" /\ SaveConflict(r)
  <1>1. pc \in [Tasks -> RequestSteps \cup RefundSteps] /\ r \in Tasks /\ r \notin Refunds
    BY TasksAssumption DEF TypeInv, TypeOK, Tasks
  <1>2. pc[r] # "idle" => input'[r] = input[r] BY RequestForward
  <1>3. CASE pc'[r] = pc[r]
    <2>1. pc[r] \in {"own", "any"} => pc[r] # "idle" OBVIOUS
    <2> QED BY <1>2, <1>3, <2>1
  <1>4. CASE pc'[r] # pc[r]
    <2>1. Submit(r) \/ ProcessPayment(r) \/ Crash(r)
      <3>1. ASSUME NEW q \in Requests, Submit(q) \/ ProcessPayment(q) PROVE q = r
        BY <1>1, <1>4, <3>1, RequestGoes
      <3>2. ASSUME NEW f \in Refunds, RefundLoad(f) \/ RefundPayment(f) PROVE FALSE
        BY <1>1, <1>4, <3>2, RefundGoes
      <3>3. ASSUME NEW t \in Tasks, Crash(t) PROVE t = r BY <1>1, <1>4, <3>3 DEF Crash, Goto
      <3>4. ~UNCHANGED vars BY <1>4 DEF vars
      <3> QED BY <3>1, <3>2, <3>3, <3>4 DEF Next, Finished
    <2>2. CASE Submit(r)
      <3>1. PICK i \in Inputs : input' = [input EXCEPT ![r] = i]
                               /\ Goto(r, IF i.key \in {None, EmptyKey} THEN "fraud" ELSE "own")
        BY <2>2 DEF Submit
      <3>2. input'[r] = i BY <3>1 DEF TypeInv, TypeOK
      <3>3. pc'[r] = "fraud" \/ (pc'[r] = "own" /\ i.key # None) BY <1>1, <3>1 DEF Goto
      <3> QED BY <3>2, <3>3
    <2>3. CASE PreflightOwn(r) \/ PreflightAny(r)
      <3>1. PICK step \in {"any", "fraud", "done"} : Goto(r, step)
        BY <2>3 DEF PreflightOwn, PreflightAny, ReturnFrom, ReturnExisting, InternalError, Answer
      <3>2. pc[r] \in {"own", "any"} /\ UNCHANGED input BY <2>3 DEF PreflightOwn, PreflightAny
      <3> QED BY <1>1, <3>1, <3>2 DEF Goto
    <2>4. CASE CheckFraud(r) \/ Charge(r) \/ Save(r) \/ Publish(r) \/ Crash(r)
      <3>1. PICK step \in {"charge", "save", "publish", "done", "crashed"} : Goto(r, step)
        BY <2>4 DEF CheckFraud, Charge, Save, Publish, Answer, Crash
      <3> QED BY <1>1, <3>1 DEF Goto
    <2>5. CASE SaveConflict(r)
      BY <1>1, <2>5 DEF SaveConflict, Goto
    <2>6. CASE RecoverOwn(r) \/ RecoverAny(r)
      <3>1. PICK step \in {"recover own", "recover any", "done"} : Goto(r, step)
        BY <2>6 DEF RecoverOwn, RecoverAny, ReturnFrom, ReturnExisting, InternalError, Answer
      <3>2. pc[r] \in {"recover own", "recover any"} BY <2>6 DEF RecoverOwn, RecoverAny
      <3> QED BY <1>1, <3>1, <3>2 DEF Goto
    <2> QED BY <2>1, <2>2, <2>3, <2>4, <2>5, <2>6 DEF ProcessPayment
  <1> QED BY <1>3, <1>4

(* An internal error under a key tells of a second user. *)
LEMMA LoserAnswer ==
  ASSUME TypeInv, TableInv, RaceInv, [Next]_vars, NEW r \in Requests,
         reply'[r] # reply[r], reply'[r].code = 500, input[r].amount = "cents"
  PROVE  \E p \in Requests : Stored(p) /\ input[p].key = input[r].key
                              /\ input[p].user # input[r].user
  <1>1. reply \in [Tasks -> Reply \cup {None}] /\ r \in Tasks /\ r \notin Refunds
    BY TasksAssumption DEF TypeInv, TypeOK, Tasks
  <1>2. Submit(r) \/ ProcessPayment(r)
    <2>1. ASSUME NEW q \in Requests, Submit(q) \/ ProcessPayment(q) PROVE q = r
      BY <2>1, OthersKeepReplies DEF Tasks
    <2>2. ASSUME NEW f \in Refunds, RefundLoad(f) \/ RefundPayment(f) PROVE FALSE
      BY <1>1, <2>2, OthersKeepReplies DEF Tasks
    <2>3. ASSUME NEW t \in Tasks, Crash(t) PROVE FALSE BY <2>3 DEF Crash
    <2>4. ~UNCHANGED vars BY DEF vars
    <2> QED BY <2>1, <2>2, <2>3, <2>4 DEF Next, Finished
  <1>3. ASSUME NEW p, ReturnExisting(r, p) PROVE FALSE
    BY <1>1, <1>3 DEF ReturnExisting, Answer
  <1>4. ASSUME NEW rows, ReturnFrom(r, rows) PROVE Cardinality(rows) > 1
    BY <1>3, <1>4 DEF ReturnFrom
  <1>5. ~Submit(r) /\ ~CheckFraud(r) /\ ~Charge(r) /\ ~Save(r) /\ ~SaveConflict(r)
    BY DEF Submit, CheckFraud, Charge, Save, SaveConflict
  <1>6. ~Publish(r)
    <2>1. ASSUME Publish(r) PROVE reply'[r].code \in {201, 400}
      BY <1>1, <2>1 DEF Publish, Answer
    <2> QED BY <2>1
  <1>7. CASE PreflightOwn(r) \/ RecoverOwn(r)
    <2>1. ReturnFrom(r, OwnRows(r)) BY <1>7 DEF PreflightOwn, RecoverOwn
    <2>2. input[r].key # None
      <3>1. pc[r] \in {"own", "recover own"} BY <1>7 DEF PreflightOwn, RecoverOwn
      <3> QED BY <3>1 DEF RaceInv
    <2> QED BY <1>4, <2>1, <2>2, ManyRows
  <1>8. CASE PreflightAny(r)
    <2>1. ReturnFrom(r, RowsUnder(r)) BY <1>8 DEF PreflightAny
    <2>2. input[r].key # None BY <1>8 DEF PreflightAny, RaceInv
    <2> QED BY <1>4, <2>1, <2>2, ManyRows
  <1>9. CASE RecoverAny(r)
    <2>1. input[r].key # None /\ OwnRows(r) # {} BY <1>9 DEF RecoverAny, RaceInv
    <2>2. RowsUnder(r) # {} BY <2>1 DEF OwnRows, RowsOf, RowsUnder
    <2>3. ReturnFrom(r, RowsUnder(r)) BY <1>9, <2>2 DEF RecoverAny
    <2> QED BY <1>4, <2>1, <2>3, ManyRows
  <1> QED BY <1>2, <1>5, <1>6, <1>7, <1>8, <1>9 DEF ProcessPayment

(* RaceInv is kept. *)
LEMMA NextRaceInv == TypeInv /\ TableInv /\ RaceInv /\ [Next]_vars => RaceInv'
  <1> SUFFICES ASSUME TypeInv, TableInv, RaceInv, [Next]_vars PROVE RaceInv'
    OBVIOUS
  <1>1. ASSUME NEW r \in Requests, pc'[r] \in {"own", "any"} PROVE input'[r].key # None
    BY <1>1, EnterRace DEF RaceInv
  <1>2. ASSUME NEW r \in Requests, pc'[r] \in {"recover own", "recover any"},
               input'[r].amount = "cents"
        PROVE  input'[r].key # None /\ (OwnRows(r) # {})'
    <2>1. pc[r] # "idle" BY <1>2, EnterRace
    <2>2. input'[r] = input[r] BY <2>1, RequestForward
    <2>3. input[r].key # None /\ OwnRows(r) # {}
      <3>1. CASE pc[r] \in {"recover own", "recover any"} BY <1>2, <2>2, <3>1 DEF RaceInv
      <3>2. CASE SaveConflict(r)
        BY <1>2, <2>2, <3>2 DEF SaveConflict, ViolatesConstraint
      <3> QED BY <1>2, <3>1, <3>2, EnterRace
    <2> QED BY <2>1, <2>2, <2>3, OwnRowsStay
  <1>3. ASSUME NEW r \in Requests, reply'[r] # None, reply'[r].code = 500,
               input'[r].amount = "cents"
        PROVE  \E p \in Requests : Stored(p)' /\ input'[p].key = input'[r].key
                                    /\ input'[p].user # input'[r].user
    <2>1. input'[r] = input[r]
      <3>1. ASSUME Submit(r) PROVE FALSE
        <4>1. reply[r] # None BY <1>3, <3>1 DEF Submit
        <4> QED BY <3>1, <4>1 DEF Submit, TableInv, Truthful, Tasks
      <3>2. ASSUME NEW q \in Requests, Submit(q) PROVE input'[r] = input[r]
        BY <3>1, <3>2 DEF Submit, TypeInv, TypeOK
      <3> QED BY <3>2, Writers
    <2>2. \E p \in Requests : Stored(p) /\ input[p].key = input[r].key
                              /\ input[p].user # input[r].user
      <3>1. CASE reply'[r] = reply[r]
        <4>1. reply[r] # None /\ reply[r].code = 500 /\ input[r].amount = "cents"
          BY <1>3, <2>1, <3>1
        <4>2. RaceLoserIsAnswered BY DEF RaceInv
        <4> QED BY <4>1, <4>2 DEF RaceLoserIsAnswered
      <3>2. CASE reply'[r] # reply[r] BY <1>3, <2>1, <3>2, LoserAnswer
      <3> QED BY <3>1, <3>2
    <2>3. PICK p \in Requests : Stored(p) /\ input[p].key = input[r].key
                               /\ input[p].user # input[r].user
      BY <2>2
    <2>4. Stored(p)' /\ input'[p] = input[p] BY <2>3, StoredRowsForward
    <2> QED BY <2>1, <2>3, <2>4
  <1>4. RaceLoserIsAnswered' BY <1>3 DEF RaceLoserIsAnswered
  <1> QED BY <1>1, <1>2, <1>4 DEF RaceInv

(* A request that loses the race on its key does not end with an internal error, unless
   two users share the key: the lookup after an IntegrityError never gives up on it. *)
THEOREM RaceLosersAnswered == Spec => []RaceLoserIsAnswered
  <1>1. Init => RaceInv BY DEF Init, RaceInv, RaceLoserIsAnswered, Tasks
  <1>2. RaceInv => RaceLoserIsAnswered BY DEF RaceInv
  <1> QED BY <1>1, <1>2, AlwaysTableInv, NextRaceInv, PTL DEF Spec

-----------------------------------------------------------------------------
(* The outbox agrees with the table *)

(* A refund writes its message on its way to "publish", and only there. *)
EventsInv ==
  /\ RowsAndEventsAgree
  /\ \A f \in Refunds : outbox[f] # None => pc[f] \in {"publish", "done", "crashed"}

(* A refund never starts again, and its transaction is fixed when it starts. *)
LEMMA RefundForward ==
  ASSUME TypeInv, [Next]_vars, NEW g \in Refunds, pc[g] # "idle"
  PROVE  /\ pc'[g] # "idle" /\ refunding'[g] = refunding[g]
         /\ pc[g] \in {"publish", "done", "crashed"} => pc'[g] \in {"publish", "done", "crashed"}
         /\ \/ pc'[g] \in {pc[g], "done", "crashed"}
            \/ pc[g] = "call" /\ RefundCall(g) /\ pc'[g] = "update"
            \/ pc[g] = "update" /\ RefundUpdate(g) /\ pc'[g] = "publish"
  <1>1. /\ pc \in [Tasks -> RequestSteps \cup RefundSteps] /\ g \in Tasks /\ g \notin Requests
        /\ refunding \in [Refunds -> Refunding \cup {None}]
    BY TasksAssumption DEF TypeInv, TypeOK, Tasks
  <1> DEFINE P == /\ pc'[g] # "idle" /\ refunding'[g] = refunding[g]
                  /\ \/ pc'[g] \in {pc[g], "done", "crashed"}
                     \/ pc[g] = "call" /\ RefundCall(g) /\ pc'[g] = "update"
                     \/ pc[g] = "update" /\ RefundUpdate(g) /\ pc'[g] = "publish"
  <1>2. ASSUME NEW r \in Requests, Submit(r) \/ ProcessPayment(r) PROVE P
    <2>1. pc'[g] = pc[g] BY <1>1, <1>2, RequestGoes
    <2>2. UNCHANGED refunding
      BY <1>2 DEF Submit, ProcessPayment, PreflightOwn, PreflightAny, CheckFraud, Charge, Save,
                  SaveConflict, RecoverOwn, RecoverAny, Publish
    <2> QED BY <2>1, <2>2
  <1>3. ASSUME NEW f \in Refunds \ {g}, RefundLoad(f) \/ RefundPayment(f) PROVE P
    <2>1. pc'[g] = pc[g] BY <1>1, <1>3, RefundGoes
    <2>2. refunding'[g] = refunding[g]
      BY <1>1, <1>3 DEF RefundLoad, RefundPayment, RefundCall, RefundUpdate, RefundPublish
    <2> QED BY <2>1, <2>2
  <1>4. ~RefundLoad(g) BY DEF RefundLoad
  <1>5. CASE RefundCall(g)
    <2>1. pc[g] = "call" /\ UNCHANGED refunding BY <1>5 DEF RefundCall
    <2>2. PICK step \in {"update", "done"} : Goto(g, step) BY <1>5 DEF RefundCall, Answer
    <2> QED BY <1>1, <1>5, <2>1, <2>2 DEF Goto
  <1>6. CASE RefundUpdate(g) BY <1>1, <1>6 DEF RefundUpdate, Goto
  <1>7. CASE RefundPublish(g) BY <1>1, <1>7 DEF RefundPublish, Answer, Goto
  <1>8. ASSUME NEW t \in Tasks, Crash(t) PROVE P
    BY <1>1, <1>8 DEF Crash, Goto
  <1>9. CASE UNCHANGED vars BY <1>9 DEF vars
  <1>10. P BY <1>2, <1>3, <1>4, <1>5, <1>6, <1>7, <1>8, <1>9 DEF Next, Finished, RefundPayment
  <1> QED BY <1>10

(* Save writes the row and the message that tells of it. *)
LEMMA SaveEvents ==
  ASSUME TypeInv, TableInv, EventsInv, NEW r \in Requests, Save(r)
  PROVE  RowsAndEventsAgree'
  <1>1. /\ payments \in [Requests -> Payment \cup {None}] /\ outbox \in [Tasks -> Message \cup {None}]
        /\ pc[r] = "save" /\ draft[r] \in Payment /\ draft[r].status # "REFUNDED"
    BY DEF Save, TypeInv, TypeOK, Control, RequestControl
  <1>2. ~Stored(r) BY <1>1 DEF TableInv, StoredLate
  <1> DEFINE m == [type |-> EventFor(draft[r].status), payment |-> r]
  <1>3. /\ payments'[r] = draft[r] /\ outbox'[r] = m
        /\ \A q \in Requests \ {r} : payments'[q] = payments[q] /\ outbox'[q] = outbox[q]
        /\ \A f \in Refunds : outbox'[f] = outbox[f]
    BY <1>1, TasksAssumption DEF Save, Tasks
  <1>4. draft[r] # None /\ m # None
    <2>1. m \in Message BY DEF EventFor, Message
    <2> QED BY <1>1, <2>1, NoneAssumption
  <1>5. ASSUME NEW q \in Requests
        PROVE  /\ Stored(q)' <=> outbox'[q] # None
               /\ Stored(q)' =>
                    outbox'[q] = [payment |-> q,
                                  type |-> IF payments'[q].status \in {"SUCCEEDED", "REFUNDED"}
                                           THEN "Completed" ELSE "Failed"]
               /\ Stored(q)' /\ payments'[q].status = "REFUNDED"
                    <=> \E f \in Refunds : outbox'[f] = [type |-> "Refunded", payment |-> q]
    <2>1. CASE q = r
      <3>1. Stored(q)' /\ outbox'[q] # None BY <1>3, <1>4, <2>1 DEF Stored
      <3>2. outbox'[q] = [payment |-> q,
                          type |-> IF payments'[q].status \in {"SUCCEEDED", "REFUNDED"}
                                   THEN "Completed" ELSE "Failed"]
        BY <1>1, <1>3, <2>1 DEF EventFor
      <3>3. ASSUME NEW f \in Refunds, outbox[f] = [type |-> "Refunded", payment |-> r] PROVE FALSE
        <4>1. outbox[f] # None BY <3>3, NoneAssumption DEF Message
        <4>2. outbox[f].payment = r BY <3>3
        <4> QED BY <1>2, <4>1, <4>2 DEF EventsInv, RowsAndEventsAgree
      <3> QED BY <1>1, <1>3, <2>1, <3>1, <3>2, <3>3
    <2>2. CASE q # r BY <1>3, <2>2 DEF EventsInv, RowsAndEventsAgree, Stored
    <2> QED BY <2>1, <2>2
  <1>6. ASSUME NEW f \in Refunds, outbox'[f] # None
        PROVE  (outbox[f].type = "Refunded" /\ Stored(outbox[f].payment))'
    <2>1. outbox[f].type = "Refunded" /\ Stored(outbox[f].payment) /\ outbox[f] \in Message
      BY <1>1, <1>3, <1>6 DEF EventsInv, RowsAndEventsAgree, Tasks
    <2>2. outbox[f].payment \in Requests BY <2>1 DEF Message
    <2> QED BY <1>2, <1>3, <2>1, <2>2 DEF Stored
  <1> QED BY <1>5, <1>6 DEF RowsAndEventsAgree

(* RefundUpdate writes the status and the message that tells of it. *)
LEMMA RefundEvents ==
  ASSUME TypeInv, TableInv, EventsInv, NEW f \in Refunds, RefundUpdate(f)
  PROVE  RowsAndEventsAgree'
  <1> DEFINE p == refunding[f].payment
             m == [type |-> "Refunded", payment |-> p]
  <1>1. /\ payments \in [Requests -> Payment \cup {None}] /\ outbox \in [Tasks -> Message \cup {None}]
        /\ pc[f] = "update" /\ p \in Requests /\ payments[p] \in Payment /\ f \in Tasks
        /\ payments[p].status \in {"SUCCEEDED", "REFUNDED"}
    BY DEF RefundUpdate, TypeInv, TypeOK, Control, RefundControl, Refunding, TableInv, RefundTarget,
           Tasks
  <1>2. outbox[f] = None BY <1>1 DEF EventsInv
  <1>3. /\ payments'[p] = [payments[p] EXCEPT !.status = "REFUNDED"] /\ outbox'[f] = m
        /\ \A q \in Requests \ {p} : payments'[q] = payments[q]
        /\ \A t \in Tasks \ {f} : outbox'[t] = outbox[t]
    BY <1>1 DEF RefundUpdate
  <1>4. payments'[p] \in Payment /\ payments'[p].status = "REFUNDED" /\ m # None
    <2>1. m \in Message BY <1>1 DEF Message
    <2> QED BY <1>1, <1>3, <2>1, NoneAssumption DEF Payment, Statuses
  <1>5. \A q \in Requests : Stored(q)' <=> Stored(q)
    BY <1>1, <1>3, <1>4, NoneAssumption DEF Stored
  <1>6. \A q \in Requests : outbox'[q] = outbox[q] BY <1>3, TasksAssumption DEF Tasks
  <1>7. ASSUME NEW q \in Requests
        PROVE  /\ Stored(q)' <=> outbox'[q] # None
               /\ Stored(q)' =>
                    outbox'[q] = [payment |-> q,
                                  type |-> IF payments'[q].status \in {"SUCCEEDED", "REFUNDED"}
                                           THEN "Completed" ELSE "Failed"]
               /\ Stored(q)' /\ payments'[q].status = "REFUNDED"
                    <=> \E g \in Refunds : outbox'[g] = [type |-> "Refunded", payment |-> q]
    <2>1. CASE q = p
      <3>1. Stored(q)' /\ Stored(q) BY <1>1, <1>4, <2>1, NoneAssumption DEF Stored
      <3>2. outbox[q] = [payment |-> q, type |-> "Completed"] /\ outbox[q] # None
        BY <1>1, <2>1, <3>1 DEF EventsInv, RowsAndEventsAgree
      <3> QED BY <1>3, <1>4, <1>6, <2>1, <3>1, <3>2
    <2>2. CASE q # p
      <3>1. payments'[q] = payments[q] BY <1>3, <2>2
      <3>2. /\ Stored(q) <=> outbox[q] # None
            /\ Stored(q) =>
                 outbox[q] = [payment |-> q,
                              type |-> IF payments[q].status \in {"SUCCEEDED", "REFUNDED"}
                                       THEN "Completed" ELSE "Failed"]
            /\ Stored(q) /\ payments[q].status = "REFUNDED"
                 <=> \E g \in Refunds : outbox[g] = [type |-> "Refunded", payment |-> q]
        BY DEF EventsInv, RowsAndEventsAgree
      <3>3. ASSUME NEW g \in Refunds
            PROVE  outbox'[g] = [type |-> "Refunded", payment |-> q]
                     <=> outbox[g] = [type |-> "Refunded", payment |-> q]
        <4>1. CASE g = f
          <5>1. m # [type |-> "Refunded", payment |-> q] BY <2>2
          <5>2. [type |-> "Refunded", payment |-> q] # None BY NoneAssumption DEF Message
          <5> QED BY <1>2, <1>3, <4>1, <5>1, <5>2
        <4>2. CASE g # f BY <1>3, <4>2 DEF Tasks
        <4> QED BY <4>1, <4>2
      <3> QED BY <1>5, <1>6, <3>1, <3>2, <3>3
    <2> QED BY <2>1, <2>2
  <1>8. ASSUME NEW g \in Refunds, outbox'[g] # None
        PROVE  (outbox[g].type = "Refunded" /\ Stored(outbox[g].payment))'
    <2>1. CASE g = f BY <1>1, <1>3, <1>4, <2>1, NoneAssumption DEF Stored
    <2>2. CASE g # f
      <3>1. outbox'[g] = outbox[g] /\ outbox[g] \in Message /\ outbox[g].payment \in Requests
        BY <1>1, <1>3, <1>8, <2>2 DEF Tasks, Message
      <3>2. outbox[g].type = "Refunded" /\ Stored(outbox[g].payment)
        BY <1>8, <3>1 DEF EventsInv, RowsAndEventsAgree
      <3>3. payments'[outbox[g].payment] # None BY <1>5, <3>1, <3>2 DEF Stored
      <3> QED BY <3>1, <3>2, <3>3 DEF Stored
    <2> QED BY <2>1, <2>2
  <1> QED BY <1>7, <1>8 DEF RowsAndEventsAgree

(* EventsInv is kept: nobody else writes the tables. *)
LEMMA NextEventsInv == TypeInv /\ TableInv /\ EventsInv /\ [Next]_vars => EventsInv'
  <1> SUFFICES ASSUME TypeInv, TableInv, EventsInv, [Next]_vars PROVE EventsInv'
    OBVIOUS
  <1>1. RowsAndEventsAgree'
    <2>1. CASE UNCHANGED <<payments, outbox>>
      BY <2>1 DEF EventsInv, RowsAndEventsAgree, Stored
    <2> QED BY <2>1, Writers, SaveEvents, RefundEvents
  <1>2. ASSUME NEW g \in Refunds, outbox'[g] # None PROVE pc'[g] \in {"publish", "done", "crashed"}
    <2>1. CASE outbox[g] # None BY <2>1, RefundForward DEF EventsInv
    <2>2. CASE outbox[g] = None
      <3>1. ASSUME NEW r \in Requests, Save(r) PROVE FALSE
        BY <1>2, <2>2, <3>1, TasksAssumption DEF Save, TypeInv, TypeOK, Tasks
      <3>2. ASSUME NEW f \in Refunds, RefundUpdate(f) PROVE pc'[g] = "publish"
        BY <1>2, <2>2, <3>2 DEF RefundUpdate, Goto, TypeInv, TypeOK, Tasks
      <3> QED BY <1>2, <2>2, <3>1, <3>2, Writers
    <2> QED BY <2>1, <2>2
  <1> QED BY <1>1, <1>2 DEF EventsInv

(* The transactional outbox: a payment is stored exactly when its message is, a row is
   REFUNDED exactly when a refund message tells of it, and every message tells the status
   the row was stored with. *)
THEOREM EventsTellRows == Spec => []RowsAndEventsAgree
  <1>1. Init => EventsInv
    <2> SUFFICES ASSUME Init PROVE EventsInv
      OBVIOUS
    <2>1. \A t \in Tasks : outbox[t] = None BY DEF Init
    <2>2. \A r \in Requests : ~Stored(r) /\ [type |-> "Refunded", payment |-> r] # None
      BY NoneAssumption DEF Init, Stored, Message
    <2> QED BY <2>1, <2>2 DEF EventsInv, RowsAndEventsAgree, Tasks
  <1>2. EventsInv => RowsAndEventsAgree BY DEF EventsInv
  <1> QED BY <1>1, <1>2, AlwaysTableInv, NextEventsInv, PTL DEF Spec

-----------------------------------------------------------------------------
(* The table agrees with the provider's ledger *)

(* The charge a draft names is its own, or one that Stripe replayed to it. *)
Origin(r) ==
  \/ draft[r].tx = r
  \/ \E i \in intents : i.key = input[r].key /\ i.params = input[r] /\ i.tx = draft[r].tx

DraftBacked(r) ==
  draft[r] # None =>
    /\ pc[r] \in Past
    /\ draft[r].status # "REFUNDED"
    /\ draft[r].tx # None => Origin(r)
    /\ draft[r].status = "SUCCEEDED" => draft[r].tx \in taken

RowBacked(r) ==
  Stored(r) => /\ draft[r] # None /\ payments[r].tx = draft[r].tx
               /\ Shows(draft[r].status, payments[r].status)

(* Stripe keeps one record for a key, of the request that used it first. *)
IntentsKeyed ==
  \A i \in intents :
    /\ i.key \notin {None, EmptyKey} /\ pc[i.tx] # "idle"
    /\ i.key = input[i.tx].key /\ i.params = input[i.tx]
    /\ \A j \in intents : i.key = j.key => i = j

(* Under a key, Stripe charges only with a record. *)
ChargesKept ==
  \A r \in taken :
    /\ pc[r] # "idle"
    /\ ~UseMock /\ input[r].key \notin {None, EmptyKey} =>
         \E i \in intents : i.key = input[r].key /\ i.tx = r

ChargesInv ==
  /\ \A r \in Requests : DraftBacked(r) /\ RowBacked(r)
  /\ IntentsKeyed
  /\ ChargesKept

(* A refund that is stored was paid. *)
RefundBacked(f) ==
  /\ f \in repaid => pc[f] # "idle"
  /\ pc[f] \in {"call", "update", "publish"} =>
       refunding[f].tx = payments[refunding[f].payment].tx
  /\ pc[f] \in {"update", "publish"} => f \in repaid

RefundsPaid ==
  \A r \in Requests : Stored(r) /\ payments[r].status = "REFUNDED" =>
    \E f \in repaid : refunding[f].tx = payments[r].tx

RepaidInv == RefundsPaid /\ \A f \in Refunds : RefundBacked(f)

(* Who writes the drafts and the provider's books. *)
LEMMA LedgerWriters ==
  ASSUME [Next]_vars
  PROVE  /\ (\E r \in Requests : CheckFraud(r) \/ Charge(r)) \/ UNCHANGED draft
         /\ (\E r \in Requests : Charge(r)) \/ UNCHANGED <<taken, intents>>
         /\ (\E f \in Refunds : RefundCall(f)) \/ UNCHANGED repaid
  <1>1. ASSUME NEW r \in Requests, Charge(r) PROVE UNCHANGED repaid
    BY <1>1 DEF Charge, CreateCharge, MockCreateCharge, StripeCreateCharge, StripeNewCharge,
       providerVars
  <1>2. ASSUME NEW f \in Refunds, RefundCall(f) PROVE UNCHANGED <<draft, taken, intents>>
    BY <1>2 DEF RefundCall, RefundCharge, PayBack, providerVars
  <1>3. ASSUME NEW r \in Requests, Submit(r) \/ ProcessPayment(r), ~CheckFraud(r), ~Charge(r)
        PROVE  UNCHANGED <<draft, taken, intents, repaid>>
    BY <1>3 DEF Submit, ProcessPayment, PreflightOwn, PreflightAny, Save, SaveConflict, RecoverOwn,
       RecoverAny, Publish, providerVars
  <1>4. ASSUME NEW r \in Requests, CheckFraud(r) PROVE UNCHANGED <<taken, intents, repaid>>
    BY <1>4 DEF CheckFraud, providerVars
  <1>5. ASSUME NEW f \in Refunds, RefundLoad(f) \/ RefundPayment(f), ~RefundCall(f)
        PROVE  UNCHANGED <<draft, taken, intents, repaid>>
    BY <1>5 DEF RefundLoad, RefundPayment, RefundUpdate, RefundPublish, providerVars
  <1>6. ASSUME NEW t \in Tasks, Crash(t) PROVE UNCHANGED <<draft, taken, intents, repaid>>
    BY <1>6 DEF Crash, providerVars
  <1>7. CASE UNCHANGED vars BY <1>7 DEF vars, providerVars
  <1> QED BY <1>1, <1>2, <1>3, <1>4, <1>5, <1>6, <1>7 DEF Next, Finished

(* A draft that is made stays. *)
LEMMA DraftKept ==
  ASSUME TypeInv, [Next]_vars, NEW r \in Requests, pc[r] \in Past
  PROVE  draft'[r] = draft[r]
  <1>1. ASSUME NEW q \in Requests, CheckFraud(q) \/ Charge(q) PROVE draft'[r] = draft[r]
    <2>1. q # r BY <1>1 DEF CheckFraud, Charge, Past
    <2>2. UNCHANGED draft \/ \E d : draft' = [draft EXCEPT ![q] = d]
      BY <1>1 DEF CheckFraud, Charge
    <2> QED BY <2>1, <2>2 DEF TypeInv, TypeOK
  <1> QED BY <1>1, LedgerWriters

(* Only Save makes a row. *)
LEMMA NewRow ==
  ASSUME TypeInv, [Next]_vars, NEW p \in Requests, ~Stored(p), Stored(p)'
  PROVE  Save(p)
  <1>1. ASSUME NEW r \in Requests, Save(r) PROVE r = p
    BY <1>1 DEF Save, Stored, TypeInv, TypeOK
  <1>2. ASSUME NEW f \in Refunds, RefundUpdate(f) PROVE FALSE
    <2>1. refunding[f].payment \in Requests /\ payments[refunding[f].payment] \in Payment
      BY <1>2 DEF RefundUpdate, TypeInv, Control, RefundControl, Refunding
    <2> QED BY <1>2, <2>1, NoneAssumption DEF RefundUpdate, Stored, TypeInv, TypeOK
  <1> QED BY <1>1, <1>2, Writers DEF Stored

(* What one call of create_charge does to the books, under either provider. *)
LEMMA ChargeBooks ==
  ASSUME TypeInv, NEW r \in Requests, Charge(r), NEW new,
         new = [key |-> input[r].key, params |-> input[r], tx |-> r]
  PROVE  /\ taken \subseteq taken' /\ taken' \subseteq taken \cup {r}
         /\ \/ intents' = intents
            \/ /\ intents' = intents \cup {new}
               /\ input[r].key \notin {None, EmptyKey} /\ ~StripeKnows(input[r].key)
         /\ r \in taken' => \/ r \in taken \/ UseMock \/ input[r].key \in {None, EmptyKey}
                            \/ new \in intents'
         /\ draft'[r].status # "REFUNDED"
         /\ draft'[r].status = "SUCCEEDED" => draft'[r].tx \in taken'
         /\ draft'[r].tx # None =>
              \/ draft'[r].tx = r
              \/ \E i \in intents : i.key = input[r].key /\ i.params = input[r]
                                     /\ i.tx = draft'[r].tx
  <1>1. PICK res \in Result : /\ CreateCharge(r, input[r].key, input[r], res)
                              /\ draft' = [draft EXCEPT ![r] = Charged(res)]
    BY DEF Charge
  <1>2. /\ draft'[r].tx = res.tx /\ draft'[r].status # "REFUNDED"
        /\ draft'[r].status = "SUCCEEDED" <=> res.ok
    BY <1>1 DEF Charged, TypeInv, TypeOK
  <1> DEFINE N(ok) == StripeNewCharge(r, input[r].key, input[r], ok)
  <1>3. ASSUME NEW ok \in BOOLEAN, N(ok)
        PROVE  /\ taken \subseteq taken' /\ taken' \subseteq taken \cup {r} /\ (ok => r \in taken')
               /\ \/ intents' = intents /\ input[r].key \in {None, EmptyKey}
                  \/ /\ intents' = intents \cup {new}
                     /\ input[r].key \notin {None, EmptyKey} /\ ~StripeKnows(input[r].key)
    BY <1>3 DEF StripeNewCharge
  <1>4. CASE UseMock /\ MockCreateCharge(r, res)
    BY <1>2, <1>4 DEF MockCreateCharge
  <1>5. CASE res \in [ok : BOOLEAN, tx : {r}] /\ N(res.ok)
    <2>1. res.ok \in BOOLEAN /\ res.tx = r BY <1>5
    <2> HIDE DEF N
    <2> QED BY <1>2, <1>3, <1>5, <2>1
  <1>6. CASE UNCHANGED providerVars /\ \E i \in intents :
               /\ i.key = input[r].key /\ i.params = input[r]
               /\ res = [ok |-> i.tx \in taken, tx |-> i.tx]
    <2>1. PICK i \in intents : /\ i.key = input[r].key /\ i.params = input[r]
                               /\ res = [ok |-> i.tx \in taken, tx |-> i.tx]
      BY <1>6
    <2>2. (res.ok <=> i.tx \in taken) /\ res.tx = i.tx BY <2>1
    <2>3. taken' = taken /\ intents' = intents BY <1>6 DEF providerVars
    <2> QED BY <1>2, <2>1, <2>2, <2>3
  <1>7. CASE res = StripeError /\ UNCHANGED providerVars
    BY <1>2, <1>7 DEF providerVars, StripeError
  <1>8. CASE res = StripeError /\ N(TRUE)
    <2>1. ~res.ok /\ res.tx = None BY <1>8 DEF StripeError
    <2> HIDE DEF N
    <2> QED BY <1>2, <1>3, <1>8, <2>1
  <1> QED BY <1>1, <1>4, <1>5, <1>6, <1>7, <1>8 DEF CreateCharge, StripeCreateCharge

(* The books only grow. *)
LEMMA BooksGrow ==
  ASSUME TypeInv, [Next]_vars
  PROVE  taken \subseteq taken' /\ intents \subseteq intents'
  <1>1. ASSUME NEW r \in Requests, Charge(r)
        PROVE  taken \subseteq taken' /\ intents \subseteq intents'
    BY <1>1, ChargeBooks
  <1> QED BY <1>1, LedgerWriters

(* A draft is made by CheckFraud, with no charge, or by Charge. *)
LEMMA NextDraftBacked ==
  ASSUME TypeInv, ChargesInv, [Next]_vars, NEW q \in Requests
  PROVE  DraftBacked(q)'
  <1>0. DraftBacked(q) BY DEF ChargesInv
  <1>1. CASE pc[q] \in Past
    <2>1. draft'[q] = draft[q] BY <1>1, DraftKept
    <2>2. pc[q] # "idle" BY <1>1 DEF Past
    <2>3. pc'[q] \in Past /\ input'[q] = input[q] BY <1>1, <2>2, RequestForward
    <2>4. Origin(q) => Origin(q)' BY <2>1, <2>3, BooksGrow DEF Origin
    <2> QED BY <1>0, <2>1, <2>3, <2>4, BooksGrow DEF DraftBacked
  <1>2. CASE pc[q] \notin Past
    <2>1. draft[q] = None BY <1>0, <1>2 DEF DraftBacked
    <2>2. ASSUME NEW r \in Requests, CheckFraud(r) PROVE DraftBacked(q)'
      <3>1. CASE r = q
        <4>1. pc \in [Tasks -> RequestSteps \cup RefundSteps] /\ q \in Tasks
              /\ draft \in [Requests -> Payment \cup {None}]
          BY DEF TypeInv, TypeOK, Tasks
        <4>2. \/ UNCHANGED draft
              \/ pc'[q] = "save" /\ \E a : draft'[q] = Held(Decision(a))
          BY <2>2, <3>1, <4>1 DEF CheckFraud, Goto
        <4>3. ASSUME NEW a, pc'[q] = "save", draft'[q] = Held(Decision(a)) PROVE DraftBacked(q)'
          <5>1. draft'[q].tx = None /\ draft'[q].status \in {"FRAUD_REJECTED", "FAILED"}
            BY <4>3 DEF Held
          <5> QED BY <4>3, <5>1 DEF DraftBacked, Past
        <4> QED BY <2>1, <4>2, <4>3 DEF DraftBacked
      <3>2. CASE r # q
        <4>1. UNCHANGED draft \/ \E d : draft' = [draft EXCEPT ![r] = d] BY <2>2 DEF CheckFraud
        <4>2. draft'[q] = None BY <2>1, <3>2, <4>1 DEF TypeInv, TypeOK
        <4> QED BY <4>2 DEF DraftBacked
      <3> QED BY <3>1, <3>2
    <2>3. ASSUME NEW r \in Requests, Charge(r) PROVE DraftBacked(q)'
      <3>1. CASE r = q
        <4>1. pc'[q] = "save" /\ UNCHANGED input
          BY <2>3, <3>1 DEF Charge, Goto, TypeInv, TypeOK, Tasks
        <4>2. /\ draft'[q].status # "REFUNDED"
              /\ draft'[q].status = "SUCCEEDED" => draft'[q].tx \in taken'
              /\ draft'[q].tx # None =>
                   \/ draft'[q].tx = q
                   \/ \E i \in intents : i.key = input[q].key /\ i.params = input[q]
                                          /\ i.tx = draft'[q].tx
          BY <2>3, <3>1, ChargeBooks
        <4>3. draft'[q].tx # None => Origin(q)' BY <4>1, <4>2, BooksGrow DEF Origin
        <4>4. pc'[q] \in Past BY <4>1 DEF Past
        <4> QED BY <4>2, <4>3, <4>4 DEF DraftBacked
      <3>2. CASE r # q
        <4>1. draft'[q] = None BY <2>1, <2>3, <3>2 DEF Charge, TypeInv, TypeOK
        <4> QED BY <4>1 DEF DraftBacked
      <3> QED BY <3>1, <3>2
    <2>4. CASE UNCHANGED draft
      BY <2>1, <2>4 DEF DraftBacked
    <2> QED BY <2>2, <2>3, <2>4, LedgerWriters
  <1> QED BY <1>1, <1>2

(* A row is made from the draft and keeps its transaction. *)
LEMMA NextRowBacked ==
  ASSUME TypeInv, TableInv, ChargesInv, [Next]_vars, NEW q \in Requests, Stored(q)'
  PROVE  RowBacked(q)'
  <1>1. CASE Stored(q)
    <2>1. /\ draft[q] # None /\ payments[q].tx = draft[q].tx /\ pc[q] \in Past
          /\ Shows(draft[q].status, payments[q].status)
      BY <1>1 DEF ChargesInv, RowBacked, DraftBacked
    <2>2. draft'[q] = draft[q] BY <2>1, DraftKept
    <2>3. payments[q] \in Payment BY <1>1 DEF Stored, TypeInv, TypeOK
    <2>4. /\ Forward(payments[q], payments'[q])
          /\ \A st : Shows(st, payments[q].status) => Shows(st, payments'[q].status)
      BY <1>1, StoredRowsForward
    <2>5. payments'[q].tx = payments[q].tx BY <2>3, <2>4 DEF Forward, Payment
    <2> QED BY <2>1, <2>2, <2>4, <2>5 DEF RowBacked
  <1>2. CASE ~Stored(q)
    <2>1. Save(q) BY <1>2, NewRow
    <2>2. draft[q] \in Payment BY <2>1 DEF Save, TypeInv, Control, RequestControl
    <2>3. payments'[q] = draft[q] /\ draft' = draft BY <2>1 DEF Save, TypeInv, TypeOK
    <2> QED BY <2>2, <2>3, NoneAssumption DEF RowBacked, Shows
  <1> QED BY <1>1, <1>2

(* Stripe adds a record only under a key it does not know. *)
LEMMA NextIntentsKeyed == TypeInv /\ ChargesInv /\ [Next]_vars => IntentsKeyed'
  <1> SUFFICES ASSUME TypeInv, ChargesInv, [Next]_vars PROVE IntentsKeyed'
    OBVIOUS
  <1>1. ASSUME NEW i \in intents
        PROVE  /\ i.key \notin {None, EmptyKey} /\ pc'[i.tx] # "idle"
               /\ i.key = input'[i.tx].key /\ i.params = input'[i.tx]
               /\ \A j \in intents : i.key = j.key => i = j
    <2>1. i.tx \in Requests BY DEF TypeInv, TypeOK
    <2>2. /\ i.key \notin {None, EmptyKey} /\ pc[i.tx] # "idle"
          /\ i.key = input[i.tx].key /\ i.params = input[i.tx]
          /\ \A j \in intents : i.key = j.key => i = j
      BY DEF ChargesInv, IntentsKeyed
    <2> QED BY <2>1, <2>2, RequestForward
  <1>2. CASE intents' = intents
    BY <1>1, <1>2 DEF IntentsKeyed
  <1>3. CASE intents' # intents
    <2>1. PICK r \in Requests : Charge(r) BY <1>3, LedgerWriters
    <2> DEFINE new == [key |-> input[r].key, params |-> input[r], tx |-> r]
    <2>2. /\ intents' = intents \cup {new}
          /\ input[r].key \notin {None, EmptyKey} /\ ~StripeKnows(input[r].key)
      BY <1>3, <2>1, ChargeBooks
    <2>3. new.key = input[r].key /\ new.params = input[r] /\ new.tx = r
      OBVIOUS
    <2>4. pc'[r] = "save" /\ input' = input
      BY <2>1 DEF Charge, Goto, TypeInv, TypeOK, Tasks
    <2> HIDE DEF new
    <2>5. \A j \in intents : j.key # new.key BY <2>2, <2>3 DEF StripeKnows
    <2> QED BY <1>1, <2>2, <2>3, <2>4, <2>5 DEF IntentsKeyed
  <1> QED BY <1>2, <1>3

(* A charge under a key comes with its record. *)
LEMMA NextChargesKept == TypeInv /\ ChargesInv /\ [Next]_vars => ChargesKept'
  <1> SUFFICES ASSUME TypeInv, ChargesInv, [Next]_vars, NEW q \in taken'
               PROVE  /\ pc'[q] # "idle"
                      /\ ~UseMock /\ input'[q].key \notin {None, EmptyKey} =>
                           \E i \in intents' : i.key = input'[q].key /\ i.tx = q
    BY DEF ChargesKept
  <1>1. CASE q \in taken
    <2>1. q \in Requests /\ pc[q] # "idle"
      BY <1>1 DEF TypeInv, TypeOK, ChargesInv, ChargesKept
    <2>2. pc'[q] # "idle" /\ input'[q] = input[q] BY <2>1, RequestForward
    <2>3. ~UseMock /\ input[q].key \notin {None, EmptyKey} =>
            \E i \in intents : i.key = input[q].key /\ i.tx = q
      BY <1>1 DEF ChargesInv, ChargesKept
    <2> QED BY <2>2, <2>3, BooksGrow
  <1>2. CASE q \notin taken
    <2>1. PICK r \in Requests : Charge(r) BY <1>2, LedgerWriters
    <2> DEFINE new == [key |-> input[r].key, params |-> input[r], tx |-> r]
    <2>2. /\ taken' \subseteq taken \cup {r}
          /\ r \in taken' => \/ r \in taken \/ UseMock \/ input[r].key \in {None, EmptyKey}
                             \/ new \in intents'
      BY <2>1, ChargeBooks
    <2>3. q = r BY <1>2, <2>2
    <2>4. pc'[r] = "save" /\ input' = input
      BY <2>1 DEF Charge, Goto, TypeInv, TypeOK, Tasks
    <2>5. new.key = input[r].key /\ new.tx = r
      OBVIOUS
    <2> HIDE DEF new
    <2> QED BY <1>2, <2>2, <2>3, <2>4, <2>5
  <1> QED BY <1>1, <1>2

(* So drafts, rows and the provider's books agree in every reachable state. *)
LEMMA AlwaysChargesInv == Spec => [](TypeInv /\ TableInv /\ ChargesInv)
  <1>1. Init => ChargesInv
    BY DEF Init, ProviderInit, ChargesInv, DraftBacked, RowBacked, IntentsKeyed, ChargesKept, Stored
  <1>2. TypeInv /\ TableInv /\ ChargesInv /\ [Next]_vars => ChargesInv'
    <2> SUFFICES ASSUME TypeInv, TableInv, ChargesInv, [Next]_vars PROVE ChargesInv'
      OBVIOUS
    <2>1. ASSUME NEW q \in Requests PROVE DraftBacked(q)' /\ RowBacked(q)'
      <3>1. DraftBacked(q)' BY NextDraftBacked
      <3>2. ASSUME Stored(q)' PROVE RowBacked(q)' BY <3>2, NextRowBacked
      <3>3. ASSUME ~Stored(q)' PROVE RowBacked(q)' BY <3>3 DEF RowBacked
      <3> QED BY <3>1, <3>2, <3>3
    <2>2. IntentsKeyed' /\ ChargesKept' BY NextIntentsKeyed, NextChargesKept
    <2> QED BY <2>1, <2>2 DEF ChargesInv
  <1> QED BY <1>1, <1>2, AlwaysTableInv, PTL DEF Spec

(* With Stripe behind the service, a user is charged at most once under one idempotency
   key, whichever requests race, crash or lose their connection and are repeated. *)
THEOREM OneChargePerKey ==
  ASSUME UseMock = FALSE
  PROVE  Spec => []AtMostOneChargePerKey
  <1>1. ChargesInv => AtMostOneChargePerKey
    <2> SUFFICES ASSUME ChargesInv, NEW r \in taken, NEW s \in taken,
                        input[r].key = input[s].key, input[r].key \notin {None, EmptyKey}
                 PROVE  r = s
      BY DEF AtMostOneChargePerKey
    <2>1. PICK i \in intents : i.key = input[r].key /\ i.tx = r
      BY DEF ChargesInv, ChargesKept
    <2>2. PICK j \in intents : j.key = input[s].key /\ j.tx = s
      BY DEF ChargesInv, ChargesKept
    <2>3. i = j BY <2>1, <2>2 DEF ChargesInv, IntentsKeyed
    <2> QED BY <2>1, <2>2, <2>3
  <1> QED BY <1>1, AlwaysChargesInv, PTL

-----------------------------------------------------------------------------
(* Refunds that are stored were paid *)

(* A refund starts with RefundLoad, at "call" or with its answer. *)
LEMMA RefundStarts ==
  ASSUME TypeInv, [Next]_vars, NEW g \in Refunds, pc[g] = "idle", pc'[g] # "idle"
  PROVE  /\ pc'[g] \in {"call", "done"} /\ UNCHANGED payments
         /\ pc'[g] = "call" => refunding'[g].tx = payments[refunding'[g].payment].tx
  <1>1. /\ pc \in [Tasks -> RequestSteps \cup RefundSteps] /\ g \in Tasks /\ g \notin Requests
        /\ refunding \in [Refunds -> Refunding \cup {None}]
    BY TasksAssumption DEF TypeInv, TypeOK, Tasks
  <1>2. RefundLoad(g)
    <2>1. ASSUME NEW r \in Requests, Submit(r) \/ ProcessPayment(r) PROVE FALSE
      BY <1>1, <2>1, RequestGoes
    <2>2. ASSUME NEW f \in Refunds, RefundLoad(f) \/ RefundPayment(f) PROVE f = g
      BY <1>1, <2>2, RefundGoes
    <2>3. ASSUME NEW t \in Tasks, Crash(t) PROVE FALSE BY <1>1, <2>3 DEF Crash, Goto
    <2>4. ~RefundPayment(g) BY DEF RefundPayment, RefundCall, RefundUpdate, RefundPublish
    <2>5. ~UNCHANGED vars BY DEF vars
    <2> QED BY <2>1, <2>2, <2>3, <2>4, <2>5 DEF Next, Finished
  <1>3. PICK i \in RefundInputs :
          LET row == payments[i.payment] IN
          IF Refundable(row)
          THEN /\ refunding' = [refunding EXCEPT ![g] =
                    [payment |-> i.payment, amount |-> i.amount, key |-> i.key, tx |-> row.tx]]
               /\ Goto(g, "call")
          ELSE Answer(g, IF row = None THEN 404 ELSE 400, None, None)
    BY <1>2 DEF RefundLoad
  <1>4. UNCHANGED payments BY <1>2 DEF RefundLoad
  <1>5. CASE Refundable(payments[i.payment])
    <2>1. pc'[g] = "call" BY <1>1, <1>3, <1>5 DEF Goto
    <2>2. refunding'[g].payment = i.payment /\ refunding'[g].tx = payments[i.payment].tx
      BY <1>1, <1>3, <1>5
    <2> QED BY <1>4, <2>1, <2>2
  <1>6. CASE ~Refundable(payments[i.payment])
    <2>1. pc'[g] = "done" BY <1>1, <1>3, <1>6 DEF Answer, Goto
    <2> QED BY <1>4, <2>1
  <1> QED BY <1>5, <1>6

(* Only RefundCall pays back. *)
LEMMA RepaidGrows ==
  ASSUME TypeInv, [Next]_vars
  PROVE  /\ repaid \subseteq repaid'
         /\ \A g \in repaid' \ repaid : RefundCall(g)
  <1>1. ASSUME NEW f \in Refunds, RefundCall(f)
        PROVE  repaid \subseteq repaid' /\ repaid' \subseteq repaid \cup {f}
    BY <1>1 DEF RefundCall, RefundCharge, PayBack, providerVars
  <1> QED BY <1>1, LedgerWriters

(* A refund is at "update" only once it was paid. *)
LEMMA NextRefundBacked ==
  ASSUME TypeInv, TableInv, RepaidInv, [Next]_vars, NEW g \in Refunds
  PROVE  RefundBacked(g)'
  <1>0. /\ pc \in [Tasks -> RequestSteps \cup RefundSteps] /\ pc[g] \in RefundSteps
        /\ pc'[g] \in RefundSteps /\ g \in Tasks /\ RefundBacked(g)
    BY NextTypeInv DEF TypeInv, TypeOK, Tasks, RepaidInv
  <1>1. g \in repaid' => pc'[g] # "idle"
    <2>1. CASE RefundCall(g)
      <3>1. pc[g] # "idle" BY <2>1 DEF RefundCall
      <3> QED BY <3>1, RefundForward
    <2>2. CASE g \in repaid BY <1>0, <2>2, RefundForward DEF RefundBacked
    <2> QED BY <2>1, <2>2, RepaidGrows
  <1>2. CASE pc[g] = "idle"
    <2>1. CASE pc'[g] = "idle" BY <1>1, <2>1 DEF RefundBacked
    <2>2. CASE pc'[g] # "idle" BY <1>1, <1>2, <2>2, RefundStarts DEF RefundBacked
    <2> QED BY <2>1, <2>2
  <1>3. CASE pc[g] # "idle"
    <2>1. /\ refunding'[g] = refunding[g]
          /\ \/ pc'[g] \in {pc[g], "done", "crashed"}
             \/ pc[g] = "call" /\ RefundCall(g) /\ pc'[g] = "update"
             \/ pc[g] = "update" /\ RefundUpdate(g) /\ pc'[g] = "publish"
      BY <1>3, RefundForward
    <2>2. ASSUME pc'[g] \in {"call", "update", "publish"}
          PROVE  refunding'[g].tx = payments'[refunding'[g].payment].tx
      <3> DEFINE p == refunding[g].payment
      <3>1. pc[g] \in {"call", "update", "publish"} BY <2>1, <2>2
      <3>2. p \in Requests /\ payments[p] \in Payment
        BY <3>1 DEF TypeInv, Control, RefundControl, Refunding
      <3>3. Stored(p) BY <3>2, NoneAssumption DEF Stored
      <3>4. Forward(payments[p], payments'[p]) BY <3>2, <3>3, StoredRowsForward
      <3>5. payments'[p].tx = payments[p].tx BY <3>2, <3>4 DEF Forward, Payment
      <3>6. refunding[g].tx = payments[p].tx BY <1>0, <3>1 DEF RefundBacked
      <3> QED BY <2>1, <3>5, <3>6
    <2>3. ASSUME pc'[g] \in {"update", "publish"} PROVE g \in repaid'
      <3>1. CASE pc[g] \in {"update", "publish"}
        BY <1>0, <3>1, RepaidGrows DEF RefundBacked
      <3>2. CASE RefundCall(g) /\ pc'[g] = "update"
        <4>1. PICK ok \in BOOLEAN : /\ RefundCharge(g, ok)
                                    /\ IF ok THEN Goto(g, "update") ELSE Answer(g, 400, None, None)
          BY <3>2 DEF RefundCall
        <4>2. ok BY <1>0, <3>2, <4>1 DEF Answer, Goto
        <4> QED BY <4>1, <4>2 DEF RefundCharge, PayBack
      <3> QED BY <2>1, <2>3, <3>1, <3>2
    <2> QED BY <1>1, <2>2, <2>3 DEF RefundBacked
  <1> QED BY <1>2, <1>3

(* A row becomes REFUNDED only by a refund that was paid. *)
LEMMA NextRefundsPaid == TypeInv /\ TableInv /\ RepaidInv /\ [Next]_vars => RefundsPaid'
  <1> SUFFICES ASSUME TypeInv, TableInv, RepaidInv, [Next]_vars,
                      NEW r \in Requests, Stored(r)', payments'[r].status = "REFUNDED"
               PROVE  \E f \in repaid' : refunding'[f].tx = payments'[r].tx
    BY DEF RefundsPaid
  <1>1. Stored(r)
    <2> SUFFICES ASSUME ~Stored(r) PROVE FALSE
      OBVIOUS
    <2>1. Save(r) BY NewRow
    <2>2. payments'[r] = draft[r] BY <2>1 DEF Save, TypeInv, TypeOK
    <2> QED BY <2>1, <2>2 DEF Save, TypeInv, Control, RequestControl
  <1>2. payments[r] \in Payment /\ Forward(payments[r], payments'[r])
    BY <1>1, StoredRowsForward DEF Stored, TypeInv, TypeOK
  <1>3. payments'[r].tx = payments[r].tx BY <1>2 DEF Forward, Payment
  <1>4. CASE payments[r].status = "REFUNDED"
    <2>1. PICK f \in repaid : refunding[f].tx = payments[r].tx
      BY <1>1, <1>4 DEF RepaidInv, RefundsPaid
    <2>2. f \in Refunds /\ pc[f] # "idle"
      BY DEF TypeInv, TypeOK, RepaidInv, RefundBacked
    <2>3. refunding'[f] = refunding[f] BY <2>2, RefundForward
    <2> QED BY <1>3, <2>1, <2>3, RepaidGrows
  <1>5. CASE payments[r].status # "REFUNDED"
    <2>1. payments'[r] # payments[r] BY <1>5
    <2>2. ASSUME NEW q \in Requests, Save(q) PROVE FALSE
      <3>1. q # r BY <1>1, <2>2 DEF TableInv, StoredLate, Save
      <3> QED BY <2>1, <2>2, <3>1 DEF Save, TypeInv, TypeOK
    <2>3. PICK f \in Refunds : RefundUpdate(f) BY <2>1, <2>2, Writers
    <2>4. refunding[f].payment = r BY <2>1, <2>3 DEF RefundUpdate, TypeInv, TypeOK
    <2>5. pc[f] = "update" /\ refunding' = refunding BY <2>3 DEF RefundUpdate
    <2>6. RefundBacked(f) BY DEF RepaidInv
    <2>7. f \in repaid /\ refunding[f].tx = payments[r].tx BY <2>4, <2>5, <2>6 DEF RefundBacked
    <2> QED BY <1>3, <2>5, <2>7, RepaidGrows
  <1> QED BY <1>4, <1>5

(* So every refund that is stored was paid, in every reachable state. *)
LEMMA AlwaysRepaidInv == Spec => [](TypeInv /\ TableInv /\ RepaidInv)
  <1>1. Init => RepaidInv
    BY TasksAssumption DEF Init, ProviderInit, RepaidInv, RefundsPaid, RefundBacked, Stored, Tasks
  <1>2. TypeInv /\ TableInv /\ RepaidInv /\ [Next]_vars => RepaidInv'
    BY NextRefundBacked, NextRefundsPaid DEF RepaidInv
  <1> QED BY <1>1, <1>2, AlwaysTableInv, PTL DEF Spec

(* The table agrees with the provider's ledger, for either provider: every payment stored
   as succeeded has a charge of its own behind it, and one that is marked REFUNDED was
   paid back. *)
THEOREM LedgerBacksTable == Spec => []SucceededIsBacked
  <1>1. ASSUME TypeInv, TableInv, ChargesInv, RepaidInv PROVE SucceededIsBacked
    <2>1. ASSUME NEW r \in Requests, Stored(r), payments[r].tx \in Requests
          PROVE  \/ payments[r].tx = r
                 \/ input[r] = input[payments[r].tx] /\ input[r].key # None
      <3>1. payments[r].tx = draft[r].tx /\ Origin(r)
        <4>1. draft[r] # None /\ payments[r].tx = draft[r].tx
          BY <1>1, <2>1 DEF ChargesInv, RowBacked
        <4>2. draft[r].tx # None BY <2>1, <4>1, ConstantsAssumption
        <4> QED BY <1>1, <4>1, <4>2 DEF ChargesInv, DraftBacked
      <3>2. ASSUME NEW i \in intents, i.key = input[r].key, i.params = input[r],
                   i.tx = payments[r].tx
            PROVE  input[r] = input[payments[r].tx] /\ input[r].key # None
        BY <1>1, <3>2 DEF ChargesInv, IntentsKeyed
      <3> QED BY <3>1, <3>2 DEF Origin
    <2>2. ASSUME NEW r \in Requests, Stored(r), payments[r].status \in {"SUCCEEDED", "REFUNDED"}
          PROVE  payments[r].tx \in taken /\ payments[r].tx \in Requests
      <3>1. /\ draft[r] # None /\ payments[r].tx = draft[r].tx
            /\ Shows(draft[r].status, payments[r].status)
        BY <1>1, <2>2 DEF ChargesInv, RowBacked
      <3>2. /\ draft[r].status # "REFUNDED"
            /\ draft[r].status = "SUCCEEDED" => draft[r].tx \in taken
        BY <1>1, <3>1 DEF ChargesInv, DraftBacked
      <3>3. draft[r].status = "SUCCEEDED" BY <2>2, <3>1, <3>2 DEF Shows
      <3> QED BY <1>1, <3>1, <3>2, <3>3 DEF TypeInv, TypeOK
    <2>3. ASSUME NEW r \in Requests, NEW s \in Requests, Stored(r), Stored(s),
                 payments[r].tx \in Requests, payments[s].tx = payments[r].tx
          PROVE  r = s
      <3> DEFINE x == payments[r].tx
      <3>1. x = r \/ (input[r] = input[x] /\ input[r].key # None) BY <2>1, <2>3
      <3>2. x = s \/ (input[s] = input[x] /\ input[s].key # None) BY <2>1, <2>3
      <3>3. ASSUME input[r] = input[s], input[r].key # None PROVE r = s
        BY <1>1, <2>3, <3>3 DEF TableInv, UniqueKeys
      <3> QED BY <3>1, <3>2, <3>3
    <2>4. RefundsPaid BY <1>1 DEF RepaidInv
    <2> QED BY <2>2, <2>3, <2>4 DEF SucceededIsBacked, RefundsPaid
  <1> QED BY <1>1, AlwaysChargesInv, AlwaysRepaidInv, PTL
=============================================================================
