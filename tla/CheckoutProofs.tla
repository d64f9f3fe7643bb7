--------------------------- MODULE CheckoutProofs ---------------------------
(***************************************************************************)
(* Theorems about Checkout, for any number of submits, payment requests,   *)
(* keys, replicas, repeated deliveries, cancellations and faults.          *)
(***************************************************************************)
EXTENDS Checkout, FiniteSetTheorems, TLAPS

Answered == {"201", "400"}

(* Each delivery is counted where it is, and there is one for a publish at most. *)
Deliveries ==
  \A m \in Messages :
    /\ sends[m] > 0 => event[m] # None
    /\ \A s \in OrderReplicas : inbox[s][m] + setting[s][m] =< sends[m]
    /\ \A n \in NotificationReplicas : inbox[n][m] + notices[n][m] =< sends[m]

(* A cancellation is about an order that exists. *)
CancelThere ==
  \A c \in Cancels : cancelling[c] \in Orders => status[cancelling[c]] # "absent"

(* A handler of s has m before it. *)
Pending(s, m) == inbox[s][m] > 0 \/ setting[s][m] > 0

Settled(o) == status[o] \notin {"absent", "PENDING"}

(* What was handed over and not lost is with a handler, or has reached its order. *)
ReachInv ==
  \A m \in Messages \ lost :
    sends[m] > 0 => (\E s \in OrderReplicas : Pending(s, m)) \/ Settled(event[m].order)

(* The page makes one order and then one payment request for a submit. *)
PageInv ==
  /\ \A s \in Submits : s > submit => ordering[s] = "none" /\ keyOf[s] = 0
  /\ page \in Waiting => submit \in Submits
  /\ page \in {"ordering", "checking"} => keyOf[submit] = 0
  /\ page = "checking" => ordering[submit] = "created"

(* A payment request is for an order that exists: a submit for its own, under a key of the
   page, a call for any, under a key of its client. *)
RequestInv(r) ==
  keyOf[r] # 0 =>
    /\ orderOf[r] \in Orders /\ ordering[orderOf[r]] = "created"
    /\ r \in Submits => orderOf[r] = r /\ keyOf[r] \in Keys
    /\ r \notin Submits => keyOf[r] \in CallKeys

(* An event tells of the row it was stored with. *)
EventInv(m) ==
  event[m] # None =>
    /\ keyOf[m] \in AllKeys /\ paying[m] \in Answered
    /\ event[m].order = orderOf[m]
    /\ payments[keyOf[m]] # None
    /\ payments[keyOf[m]].order = orderOf[m]
    /\ event[m].type = EventTypeFor(payments[keyOf[m]].status)

(* Of the requests under a key only the one that wrote the row has an event. *)
OneEvent ==
  \A l, m \in Messages :
    event[l] # None /\ event[m] # None /\ keyOf[l] = keyOf[m] => l = m

(* A row was written by a request for its order, and money was taken for that order. *)
RowInv(k) ==
  payments[k] # None =>
    LET row == payments[k] IN
      /\ \E r \in Requests :
           keyOf[r] = k /\ orderOf[r] = row.order /\ paying[r] = AnswerFor(row.status)
      /\ row.status = "SUCCEEDED" => \E t \in taken : keyOf[t] = k /\ orderOf[t] = row.order

(* Stripe keeps one record for a key, and a charge under a key has one. *)
BankInv ==
  /\ taken \subseteq Requests
  /\ \A r \in Requests : outcome[r] = "SUCCEEDED" =>
       \E t \in taken : keyOf[t] = keyOf[r] /\ orderOf[t] = orderOf[r]
  /\ \A r \in taken : keyOf[r] # 0
  /\ \A i \in intents : /\ i.tx \in Requests /\ i.key \in AllKeys
                        /\ keyOf[i.tx] = i.key /\ orderOf[i.tx] = i.params.order
  /\ \A i, j \in intents : i.key = j.key => i = j
  /\ ~UseMock => \A r \in taken : \E i \in intents : i.key = keyOf[r] /\ i.tx = r

PaidInv ==
  \A o \in Orders : /\ status[o] = "PAID" => HasPayment(o, "SUCCEEDED")
                    /\ status[o] = "FAILED" => HasPayment(o, "FAILED")

(* FirstShownIsPaid, of one submit. *)
FirstPaid(s) ==
  (\A r \in Requests : keyOf[r] = keyOf[s] => r >= s) =>
    s \in taken /\ payments[keyOf[s]] = [order |-> s, status |-> "SUCCEEDED"]

Inv ==
  /\ TypeOK /\ Deliveries /\ CancelThere /\ ReachInv /\ PageInv
  /\ (\A r \in Requests : RequestInv(r)) /\ (\A m \in Messages : EventInv(m)) /\ OneEvent
  /\ (\A k \in AllKeys : RowInv(k)) /\ BankInv /\ PaidInv
  /\ \A s \in shown : keyOf[s] # 0 /\ FirstPaid(s)

(* Orders and submits are the same numbers, and every submit is a payment request. *)
LEMMA Numbers ==
  /\ Orders = Submits /\ Requests = Messages /\ Submits \subseteq Messages
  /\ Submits \subseteq Nat /\ 0 \notin Submits
  /\ AllKeys \subseteq Nat /\ 0 \notin AllKeys /\ 1 \in Keys
  /\ Keys \subseteq AllKeys /\ CallKeys \subseteq AllKeys /\ Keys \cap CallKeys = {}
  /\ OrderReplicas \subseteq Subscribers /\ NotificationReplicas \subseteq Subscribers
  /\ OrderReplicas \cap NotificationReplicas = {}
  /\ MaxSends \in Nat \ {0} /\ MaxFaults \in Nat
  BY CheckoutAssumption, EventFlowAssumption DEF Requests, AllKeys

(* A counter of a table of counters is set, and no other. *)
LEMMA OneCell ==
  ASSUME NEW S, NEW M, NEW T, NEW f \in [S -> [M -> T]], NEW x \in S, NEW y \in M, NEW v \in T,
         NEW g, g = [f EXCEPT ![x][y] = v]
  PROVE  /\ g \in [S -> [M -> T]]
         /\ g[x][y] = v
         /\ \A a \in S, b \in M : a # x \/ b # y => g[a][b] = f[a][b]
  <1>1. g = [f EXCEPT ![x] = [f[x] EXCEPT ![y] = v]]
    OBVIOUS
  <1> DEFINE row == [f[x] EXCEPT ![y] = v]
  <1>2. row \in [M -> T] /\ row[y] = v /\ \A b \in M \ {y} : row[b] = f[x][b]
    OBVIOUS
  <1> HIDE DEF row
  <1>3. g[x] = row /\ \A a \in S \ {x} : g[a] = f[a] BY <1>1 DEF row
  <1>4. g \in [S -> [M -> T]] BY <1>1, <1>2 DEF row
  <1> QED BY <1>2, <1>3, <1>4

(* Before the first submit nothing is ordered, stored or charged. *)
LEMMA InitInv == Init => Inv
  <1> SUFFICES ASSUME Init PROVE Inv
    OBVIOUS
  <1> USE Numbers DEF Init, FlowInit, BusInit
  <1>1. FlowTypeOK BY DEF FlowTypeOK, BusTypeOK, Processes
  <1>2. TypeOK BY <1>1 DEF TypeOK
  <1>3. Deliveries /\ CancelThere /\ ReachInv
    BY EventFlowAssumption DEF Deliveries, CancelThere, ReachInv
  <1>4. PageInv BY DEF PageInv, Waiting
  <1>5. /\ \A r \in Requests : RequestInv(r)
        /\ \A m \in Messages : EventInv(m)
        /\ \A k \in AllKeys : RowInv(k)
        /\ OneEvent
    BY DEF RequestInv, EventInv, RowInv, OneEvent
  <1>6. BankInv BY NoneAssumption DEF BankInv
  <1>7. PaidInv BY DEF PaidInv
  <1> QED BY <1>2, <1>3, <1>4, <1>5, <1>6, <1>7 DEF Inv

-----------------------------------------------------------------------------
(* What no step takes back: orders, keys of requests, answers, rows, charges. *)
Grows ==
  /\ \A s \in Submits : ordering[s] = "created" => ordering'[s] = "created"
  /\ \A r \in Requests : keyOf[r] # 0 => keyOf'[r] = keyOf[r] /\ orderOf'[r] = orderOf[r]
  /\ \A r \in Requests : paying[r] \in Answered => paying'[r] = paying[r]
  /\ \A k \in AllKeys : payments[k] # None => payments'[k] = payments[k]
  /\ taken \subseteq taken'

(* A stored payment stays. *)
LEMMA PaymentsStay ==
  ASSUME Inv, Grows, NEW o \in Orders, NEW stored \in {"SUCCEEDED", "FAILED"}, HasPayment(o, stored)
  PROVE  HasPayment(o, stored)'
  <1>1. PICK k \in AllKeys : payments[k] = [order |-> o, status |-> stored] BY DEF HasPayment
  <1>2. payments[k] # None BY <1>1, NoneAssumption DEF Row
  <1>3. payments'[k] = [order |-> o, status |-> stored] BY <1>1, <1>2 DEF Grows
  <1> QED BY <1>3 DEF HasPayment

(* A request with a key keeps what is said of it. *)
LEMMA RequestsStay ==
  ASSUME Inv, Grows, NEW r \in Requests, keyOf[r] # 0
  PROVE  keyOf'[r] = keyOf[r] /\ orderOf'[r] = orderOf[r] /\ RequestInv(r)'
  <1>1. keyOf'[r] = keyOf[r] /\ orderOf'[r] = orderOf[r] BY DEF Grows
  <1>2. /\ orderOf[r] \in Orders /\ ordering[orderOf[r]] = "created"
        /\ r \in Submits => orderOf[r] = r /\ keyOf[r] \in Keys
        /\ r \notin Submits => keyOf[r] \in CallKeys
    BY DEF Inv, RequestInv
  <1>3. ordering'[orderOf[r]] = "created" BY <1>2, Numbers DEF Grows
  <1> QED BY <1>1, <1>2, <1>3 DEF RequestInv

(* Under such a step events and rows that stay as they are stay true, and what the page has
   said stays paid. *)
LEMMA Grown ==
  ASSUME Inv, Grows
  PROVE  /\ \A r \in Requests : keyOf'[r] = keyOf[r] => RequestInv(r)'
         /\ \A m \in Messages : event'[m] = event[m] => EventInv(m)'
         /\ event' = event => OneEvent'
         /\ \A k \in AllKeys : payments'[k] = payments[k] => RowInv(k)'
         /\ \A o \in Orders : /\ status[o] = "PAID" => HasPayment(o, "SUCCEEDED")'
                              /\ status[o] = "FAILED" => HasPayment(o, "FAILED")'
         /\ \A s \in shown : keyOf'[s] # 0 /\ FirstPaid(s)'
  <1> USE Numbers
  <1>0. ASSUME NEW r \in Requests, keyOf'[r] = keyOf[r] PROVE RequestInv(r)'
    <2>1. CASE keyOf[r] = 0 BY <1>0, <2>1 DEF RequestInv
    <2>2. CASE keyOf[r] # 0 BY <2>2, RequestsStay
    <2> QED BY <2>1, <2>2
  <1>1. ASSUME NEW m \in Messages, event'[m] = event[m] PROVE EventInv(m)'
    <2> SUFFICES ASSUME event[m] # None PROVE EventInv(m)'
      BY <1>1 DEF EventInv
    <2>1. EventInv(m) BY DEF Inv
    <2>2. keyOf[m] \in AllKeys /\ paying[m] \in Answered BY <2>1 DEF EventInv
    <2>3. keyOf'[m] = keyOf[m] /\ orderOf'[m] = orderOf[m] /\ paying'[m] = paying[m]
      BY <2>2 DEF Grows
    <2>4. payments'[keyOf[m]] = payments[keyOf[m]] BY <2>1, <2>2 DEF EventInv, Grows
    <2> QED BY <1>1, <2>1, <2>3, <2>4 DEF EventInv
  <1>2. ASSUME NEW k \in AllKeys, payments'[k] = payments[k] PROVE RowInv(k)'
    <2> SUFFICES ASSUME payments[k] # None PROVE RowInv(k)'
      BY <1>2 DEF RowInv
    <2> DEFINE row == payments[k]
    <2>1. RowInv(k) /\ row \in Row BY DEF Inv, TypeOK
    <2>2. PICK r \in Requests : /\ keyOf[r] = k /\ orderOf[r] = row.order
                                /\ paying[r] = AnswerFor(row.status)
      BY <2>1 DEF RowInv
    <2>3. /\ keyOf'[r] = k /\ orderOf'[r] = row.order /\ paying'[r] = AnswerFor(row.status)
      BY <2>2 DEF Grows, AnswerFor, Answered
    <2>4. ASSUME row.status = "SUCCEEDED"
          PROVE  \E t \in taken' : keyOf'[t] = k /\ orderOf'[t] = row.order
      <3>1. PICK t \in taken : keyOf[t] = k /\ orderOf[t] = row.order BY <2>1, <2>4 DEF RowInv
      <3>2. t \in Requests BY DEF Inv, BankInv
      <3> QED BY <3>1, <3>2 DEF Grows
    <2> QED BY <1>2, <2>3, <2>4 DEF RowInv
  <1>3. ASSUME NEW o \in Orders
        PROVE  /\ status[o] = "PAID" => HasPayment(o, "SUCCEEDED")'
               /\ status[o] = "FAILED" => HasPayment(o, "FAILED")'
    BY PaymentsStay DEF Inv, PaidInv
  <1>4. ASSUME NEW s \in shown PROVE keyOf'[s] # 0 /\ FirstPaid(s)'
    <2>1. s \in Submits /\ keyOf[s] # 0 /\ FirstPaid(s) BY DEF Inv, TypeOK
    <2>2. keyOf'[s] = keyOf[s] /\ keyOf[s] \in AllKeys BY <2>1 DEF Grows, Inv, TypeOK
    <2>3. ASSUME \A r \in Requests : keyOf'[r] = keyOf'[s] => r >= s
          PROVE  s \in taken' /\ payments'[keyOf'[s]] = [order |-> s, status |-> "SUCCEEDED"]
      <3>1. ASSUME NEW r \in Requests, keyOf[r] = keyOf[s] PROVE r >= s
        BY <2>1, <2>2, <2>3, <3>1 DEF Grows
      <3>2. s \in taken /\ payments[keyOf[s]] = [order |-> s, status |-> "SUCCEEDED"]
        BY <2>1, <3>1 DEF FirstPaid
      <3>3. payments[keyOf[s]] # None BY <2>1, <3>2, NoneAssumption DEF Row
      <3> QED BY <2>2, <3>2, <3>3 DEF Grows
    <2> QED BY <2>1, <2>2, <2>3 DEF FirstPaid
  <1>5. ASSUME event' = event PROVE OneEvent'
    <2>1. \A m \in Messages : event[m] # None => keyOf[m] # 0 BY DEF Inv, EventInv
    <2>2. \A m \in Messages : event[m] # None => keyOf'[m] = keyOf[m] BY <2>1 DEF Grows
    <2> QED BY <1>5, <2>2 DEF Inv, OneEvent
  <1> QED BY <1>0, <1>1, <1>2, <1>3, <1>4, <1>5

(* A step that leaves the bus and the events' flow alone leaves their part of Inv. *)
LEMMA FlowStays ==
  ASSUME Inv, UNCHANGED <<busVars, flowVars>>
  PROVE  FlowTypeOK' /\ Deliveries' /\ CancelThere' /\ ReachInv'
  <1>1. FlowTypeOK' /\ Deliveries' /\ CancelThere'
    BY DEF Inv, TypeOK, FlowTypeOK, BusTypeOK, Deliveries, CancelThere, busVars, flowVars
  <1>2. UNCHANGED <<sends, lost, inbox, setting, status, event>> BY DEF busVars, flowVars
  <1>3. ReachInv' BY <1>2 DEF Inv, ReachInv, Pending, Settled
  <1> QED BY <1>1, <1>3

(* The provider's books stay as they are, and a request keeps its key. *)
LEMMA BankStays ==
  ASSUME Inv, Grows, UNCHANGED bankVars,
         \A r \in Requests : outcome'[r] = "SUCCEEDED" => outcome[r] = "SUCCEEDED"
  PROVE  BankInv'
  <1> USE Numbers
  <1>1. taken' = taken /\ intents' = intents BY DEF bankVars
  <1>2. \A r \in taken : /\ r \in Requests /\ keyOf[r] # 0
                         /\ keyOf'[r] = keyOf[r] /\ orderOf'[r] = orderOf[r]
    BY DEF Inv, BankInv, Grows
  <1>3. ASSUME NEW r \in Requests, outcome'[r] = "SUCCEEDED"
        PROVE  \E t \in taken' : keyOf'[t] = keyOf'[r] /\ orderOf'[t] = orderOf'[r]
    <2>1. PICK t \in taken : keyOf[t] = keyOf[r] /\ orderOf[t] = orderOf[r]
      BY <1>3 DEF Inv, BankInv
    <2>2. keyOf[r] # 0 BY <1>2, <2>1
    <2>3. keyOf'[r] = keyOf[r] /\ orderOf'[r] = orderOf[r] BY <2>2 DEF Grows
    <2> QED BY <1>1, <1>2, <2>1, <2>3
  <1>4. ASSUME NEW i \in intents
        PROVE  /\ i.tx \in Requests /\ i.key \in AllKeys
               /\ keyOf'[i.tx] = i.key /\ orderOf'[i.tx] = i.params.order
    <2>1. /\ i.tx \in Requests /\ i.key \in AllKeys
          /\ keyOf[i.tx] = i.key /\ orderOf[i.tx] = i.params.order
      BY DEF Inv, BankInv
    <2>2. keyOf[i.tx] # 0 BY <2>1
    <2>3. keyOf'[i.tx] = keyOf[i.tx] /\ orderOf'[i.tx] = orderOf[i.tx] BY <2>1, <2>2 DEF Grows
    <2> QED BY <2>1, <2>3
  <1> QED BY <1>1, <1>2, <1>3, <1>4 DEF Inv, BankInv

-----------------------------------------------------------------------------
(* The steps of the page *)

(* A new submit has no order and no key yet. *)
LEMMA SubmitInv == Inv /\ Submit => Inv'
  <1> SUFFICES ASSUME Inv, Submit PROVE Inv'
    OBVIOUS
  <1> USE Numbers
  <1> DEFINE n == submit + 1
  <1>1. /\ n \in Submits /\ submit' = n /\ page' = "ordering" /\ n > submit
        /\ ordering'[n] = "running" /\ \A s \in Submits \ {n} : ordering'[s] = ordering[s]
        /\ ordering' \in [Submits -> {"none", "running", "created", "refused"}]
        /\ submit \in Nat
    BY DEF Submit, Inv, TypeOK
  <1>2. UNCHANGED <<busVars, flowVars, key, shown, paying, keyOf, orderOf, outcome, payments, bankVars>>
    BY DEF Submit
  <1>3. UNCHANGED <<event, status, taken>> BY <1>2 DEF flowVars, bankVars
  <1>5. ordering[n] = "none" /\ keyOf[n] = 0 BY <1>1 DEF Inv, PageInv
  <1> HIDE DEF n
  <1>4. Grows BY <1>1, <1>2, <1>3, <1>5 DEF Grows
  <1>6. FlowTypeOK' /\ Deliveries' /\ CancelThere' /\ ReachInv' BY <1>2, FlowStays
  <1>7. TypeOK'
    <2>1. ASSUME NEW s \in Submits PROVE status[s] # "absent" <=> ordering'[s] = "created"
      BY <1>1, <1>5 DEF Inv, TypeOK
    <2> QED BY <1>1, <1>2, <1>3, <1>6, <2>1 DEF Inv, TypeOK, Waiting
  <1>8. PageInv'
    <2>1. ASSUME NEW s \in Submits, s > submit' PROVE ordering'[s] = "none" /\ keyOf'[s] = 0
      <3>1. s > submit /\ s # n BY <1>1, <2>1
      <3> QED BY <1>1, <1>2, <3>1 DEF Inv, PageInv
    <2> QED BY <1>1, <1>2, <1>5, <2>1 DEF PageInv
  <1>9. BankInv' BY <1>2, <1>4, BankStays
  <1>10. PaidInv' BY <1>3, <1>4, Grown DEF PaidInv
  <1> QED BY <1>2, <1>3, <1>4, <1>6, <1>7, <1>8, <1>9, <1>10, Grown DEF Inv

(* A step that only moves the page, or gives it a new key. *)
LEMMA PageMoves ==
  ASSUME Inv, UNCHANGED <<busVars, flowVars, submit, serviceVars, keyOf, orderOf>>,
         page' \in Waiting \cup {"form", "thanks"}, key' \in Keys,
         page' \in Waiting => page \in Waiting,
         page' \in {"ordering", "checking"} => page \in {"ordering", "checking"},
         page' = "checking" => ordering[submit] = "created",
         shown \subseteq shown', shown' \subseteq Submits,
         \A s \in shown' \ shown : keyOf[s] # 0 /\ FirstPaid(s)
  PROVE  Inv'
  <1>1. UNCHANGED <<event, status, taken, ordering, paying, outcome, payments, bankVars>>
    BY DEF flowVars, serviceVars, bankVars
  <1>2. Grows BY <1>1 DEF Grows
  <1>3. FlowTypeOK' /\ Deliveries' /\ CancelThere' /\ ReachInv' BY FlowStays
  <1>4. TypeOK' BY <1>1, <1>3 DEF Inv, TypeOK
  <1>5. PageInv' BY <1>1 DEF Inv, PageInv
  <1>6. BankInv' BY <1>1, <1>2, BankStays
  <1>7. ASSUME NEW s \in shown' PROVE keyOf'[s] # 0 /\ FirstPaid(s)'
    <2>1. CASE s \in shown BY <1>2, <2>1, Grown
    <2>2. CASE s \notin shown
      BY <1>1, <1>7, <2>2 DEF FirstPaid
    <2> QED BY <2>1, <2>2
  <1>8. PaidInv' BY <1>1, <1>2, Grown DEF PaidInv
  <1> QED BY <1>1, <1>2, <1>3, <1>4, <1>5, <1>6, <1>7, <1>8, Grown DEF Inv

(* The page goes on with the same submit. *)
LEMMA OrderAnsweredInv == Inv /\ OrderAnswered => Inv'
  <1> SUFFICES ASSUME Inv, OrderAnswered PROVE Inv'
    OBVIOUS
  <1>1. UNCHANGED <<busVars, flowVars, submit, serviceVars, keyOf, orderOf, key, shown>>
        /\ page = "ordering" /\ page' \in {"checking", "form"}
        /\ (page' = "checking" => ordering[submit] = "created")
    BY DEF OrderAnswered
  <1>2. key \in Keys /\ shown \subseteq Submits BY DEF Inv, TypeOK
  <1> QED BY <1>1, <1>2, PageMoves DEF Waiting

(* The first 201 under a key is for the order of the row: it was written by a submit
   that is not later, and no earlier one used the key. *)
LEMMA PaymentAnsweredInv == Inv /\ PaymentAnswered => Inv'
  <1> SUFFICES ASSUME Inv, PaymentAnswered PROVE Inv'
    OBVIOUS
  <1> USE Numbers
  <1>1. /\ UNCHANGED <<busVars, flowVars, submit, serviceVars, keyOf, orderOf, key>>
        /\ page = "paying" /\ page' \in {"thanks", "form"}
        /\ \/ UNCHANGED shown
           \/ paying[submit] = "201" /\ shown' = shown \cup {submit}
    BY DEF PaymentAnswered
  <1>2. key \in Keys /\ shown \subseteq Submits /\ submit \in Submits
    BY <1>1 DEF Inv, TypeOK, PageInv, Waiting
  <1>3. ASSUME paying[submit] = "201" PROVE keyOf[submit] # 0 /\ FirstPaid(submit)
    <2> DEFINE k == keyOf[submit]
               o == payments[k].order
    <2>1. k \in AllKeys /\ k # 0 /\ payments[k] \in Row /\ payments[k] # None
      BY <1>2, <1>3 DEF Inv, TypeOK
    <2>2. k \in Keys BY <1>2, <2>1 DEF Inv, RequestInv
    <2>3. ASSUME NEW r \in Requests, keyOf[r] = k PROVE r \in Submits /\ orderOf[r] = r
      BY <2>1, <2>2, <2>3 DEF Inv, RequestInv
    <2>4. PICK r \in Requests : /\ keyOf[r] = k /\ orderOf[r] = o
                                /\ paying[r] = AnswerFor(payments[k].status)
      BY <2>1 DEF Inv, RowInv
    <2>5. r \in Submits /\ r = o BY <2>3, <2>4
    <2>6. ASSUME \A x \in Requests : keyOf[x] = k => x >= submit
          PROVE  submit \in taken /\ payments[k] = [order |-> submit, status |-> "SUCCEEDED"]
      <3>1. o >= submit BY <2>4, <2>5, <2>6
      <3>2. ~(o > submit) BY <2>1, <2>4, <2>5 DEF Inv, PageInv
      <3>3. o = submit BY <1>2, <2>5, <3>1, <3>2
      <3>4. payments[k].status = "SUCCEEDED" BY <1>3, <2>1, <2>4, <2>5, <3>3 DEF AnswerFor, Row
      <3>5. PICK t \in taken : keyOf[t] = k /\ orderOf[t] = o BY <2>1, <3>4 DEF Inv, RowInv
      <3>6. t = o BY <2>3, <3>5 DEF Inv, BankInv
      <3> QED BY <2>1, <3>3, <3>4, <3>5, <3>6 DEF Row
    <2> QED BY <2>1, <2>6 DEF FirstPaid
  <1>4. \A s \in shown' \ shown : keyOf[s] # 0 /\ FirstPaid(s) BY <1>1, <1>3
  <1>5. shown \subseteq shown' /\ shown' \subseteq Submits BY <1>1, <1>2
  <1> QED BY <1>1, <1>2, <1>4, <1>5, PageMoves DEF Waiting

(* An error changes the page alone. *)
LEMMA GiveUpInv == Inv /\ GiveUp => Inv'
  <1> SUFFICES ASSUME Inv, GiveUp PROVE Inv'
    OBVIOUS
  <1>1. UNCHANGED <<busVars, flowVars, submit, serviceVars, keyOf, orderOf, key, shown>>
        /\ page' = "form"
    BY DEF GiveUp
  <1>2. key \in Keys /\ shown \subseteq Submits BY DEF Inv, TypeOK
  <1> QED BY <1>1, <1>2, PageMoves DEF Waiting

(* A new key is for requests to come. *)
LEMMA NewKeyInv == Inv /\ NewKey => Inv'
  <1> SUFFICES ASSUME Inv, NewKey PROVE Inv'
    OBVIOUS
  <1>1. UNCHANGED <<busVars, flowVars, submit, serviceVars, keyOf, orderOf, shown>>
        /\ page' = "form"
        /\ key' \in Keys
    BY DEF NewKey
  <1>2. shown \subseteq Submits BY DEF Inv, TypeOK
  <1> QED BY <1>1, <1>2, PageMoves DEF Waiting

(* A payment request sets out: what it carries was not used before. *)
LEMMA SendPaymentInv ==
  ASSUME Inv, NEW r \in Requests, NEW o \in Orders, NEW k \in AllKeys, SendPayment(r, o, k),
         ordering[o] = "created", r \in Submits => r = o /\ k \in Keys,
         r \notin Submits => k \in CallKeys,
         UNCHANGED <<busVars, flowVars, submit, key, shown, ordering, outcome, payments, bankVars>>,
         page' \in Waiting \cup {"form", "thanks"}, PageInv'
  PROVE  Inv'
  <1> USE Numbers
  <1>1. /\ keyOf[r] = 0 /\ keyOf' = [keyOf EXCEPT ![r] = k]
        /\ orderOf' = [orderOf EXCEPT ![r] = o] /\ paying' = [paying EXCEPT ![r] = "lookup"]
    BY DEF SendPayment
  <1>2. k # 0 /\ o # None BY EventFlowAssumption
  <1>3. /\ keyOf'[r] = k /\ orderOf'[r] = o /\ paying'[r] = "lookup"
        /\ \A x \in Requests \ {r} :
             keyOf'[x] = keyOf[x] /\ orderOf'[x] = orderOf[x] /\ paying'[x] = paying[x]
        /\ keyOf' \in [Requests -> AllKeys \cup {0}]
        /\ orderOf' \in [Requests -> Orders \cup {None}]
        /\ paying' \in [Requests -> {"none", "lookup", "charge", "save", "201", "400"}]
    BY <1>1 DEF Inv, TypeOK
  <1>4. UNCHANGED <<event, status, taken>> BY DEF flowVars, bankVars
  <1>5. paying[r] \notin Answered BY <1>1 DEF Inv, TypeOK, Answered
  <1>6. Grows BY <1>1, <1>3, <1>4, <1>5 DEF Grows
  <1>7. FlowTypeOK' /\ Deliveries' /\ CancelThere' /\ ReachInv' BY FlowStays
  <1>8. TypeOK'
    <2>1. ASSUME NEW x \in Requests
          PROVE  /\ paying'[x] # "none" <=> keyOf'[x] # 0
                 /\ keyOf'[x] # 0 <=> orderOf'[x] # None
                 /\ paying'[x] = "save" => outcome[x] # None
                 /\ paying'[x] = "201" => payments[keyOf'[x]] # None
      <3>1. CASE x = r BY <1>2, <1>3, <3>1
      <3>2. CASE x # r
        <4>1. /\ paying[x] # "none" <=> keyOf[x] # 0
              /\ keyOf[x] # 0 <=> orderOf[x] # None
              /\ paying[x] = "save" => outcome[x] # None
              /\ paying[x] = "201" => payments[keyOf[x]] # None
          BY DEF Inv, TypeOK
        <4> QED BY <1>3, <3>2, <4>1
      <3> QED BY <3>1, <3>2
    <2>2. /\ UNCHANGED <<submit, key, shown, ordering, outcome, payments, status>> BY <1>4
    <2>3. /\ submit' \in Submits \cup {0} /\ key' \in Keys /\ shown' \subseteq Submits
          /\ ordering' \in [Submits -> {"none", "running", "created", "refused"}]
          /\ outcome' \in [Requests -> {"SUCCEEDED", "FAILED", None}]
          /\ payments' \in [AllKeys -> Row \cup {None}]
          /\ \A s \in Submits : status'[s] # "absent" <=> ordering'[s] = "created"
      BY <2>2 DEF Inv, TypeOK
    <2> QED BY <1>3, <1>7, <2>1, <2>2, <2>3 DEF TypeOK
  <1>9. BankInv' BY <1>6, BankStays
  <1>10. ASSUME NEW x \in Requests PROVE RequestInv(x)'
    <2>1. CASE x = r BY <1>3, <2>1 DEF RequestInv
    <2>2. CASE x # r BY <1>3, <1>6, <2>2, Grown
    <2> QED BY <2>1, <2>2
  <1>11. PaidInv' BY <1>4, <1>6, Grown DEF PaidInv
  <1> QED BY <1>4, <1>6, <1>7, <1>8, <1>9, <1>10, <1>11, Grown DEF Inv

(* The payment request of a submit is sent under the key of the form. *)
LEMMA FraudAnsweredInv == Inv /\ FraudAnswered => Inv'
  <1> SUFFICES ASSUME Inv, FraudAnswered PROVE Inv'
    OBVIOUS
  <1> USE Numbers
  <1>1. CASE page' = "form" /\ UNCHANGED <<keyOf, orderOf, paying>>
    <2>1. UNCHANGED <<busVars, flowVars, submit, serviceVars, keyOf, orderOf, key, shown>>
      BY <1>1 DEF FraudAnswered, serviceVars
    <2>2. key \in Keys /\ shown \subseteq Submits BY DEF Inv, TypeOK
    <2> QED BY <1>1, <2>1, <2>2, PageMoves DEF Waiting
  <1>2. CASE page' = "paying" /\ SendPayment(submit, submit, key)
    <2>1. /\ page = "checking" /\ submit \in Submits /\ key \in Keys
          /\ ordering[submit] = "created"
      BY DEF FraudAnswered, Inv, TypeOK, PageInv, Waiting
    <2>2. UNCHANGED <<busVars, flowVars, submit, key, shown, ordering, outcome, payments, bankVars>>
      BY DEF FraudAnswered
    <2>3. keyOf' = [keyOf EXCEPT ![submit] = key] BY <1>2 DEF SendPayment
    <2>4. keyOf \in [Requests -> AllKeys \cup {0}] /\ submit \in Nat
      BY <2>1 DEF Inv, TypeOK
    <2>5. ASSUME NEW s \in Submits, s > submit PROVE ordering[s] = "none" /\ keyOf'[s] = 0
      <3>1. s # submit BY <2>4, <2>5
      <3>2. ordering[s] = "none" /\ keyOf[s] = 0 BY <2>5 DEF Inv, PageInv
      <3> QED BY <2>3, <2>4, <3>1, <3>2
    <2>6. PageInv' BY <1>2, <2>1, <2>2, <2>5 DEF PageInv
    <2> QED BY <1>2, <2>1, <2>2, <2>6, SendPaymentInv DEF Waiting
  <1> QED BY <1>1, <1>2 DEF FraudAnswered

(* A call carries a key of its client's own. *)
LEMMA CallInv ==
  ASSUME Inv, NEW r \in Calls, NEW o \in Orders, NEW k \in CallKeys, Call(r, o, k)
  PROVE  Inv'
  <1> USE Numbers
  <1>1. /\ ordering[o] = "created" /\ SendPayment(r, o, k)
        /\ UNCHANGED <<busVars, flowVars, page, submit, key, shown, ordering, outcome, payments,
                       bankVars>>
    BY DEF Call
  <1>2. r \in Requests /\ r \notin Submits BY DEF Calls
  <1>3. keyOf' = [keyOf EXCEPT ![r] = k] /\ keyOf \in [Requests -> AllKeys \cup {0}]
    BY <1>1 DEF SendPayment, Inv, TypeOK
  <1>4. \A s \in Submits : keyOf'[s] = keyOf[s] BY <1>2, <1>3
  <1>5. page' \in Waiting \cup {"form", "thanks"} BY <1>1 DEF Inv, TypeOK
  <1>6. PageInv' BY <1>1, <1>4 DEF Inv, PageInv, Waiting
  <1> QED BY <1>1, <1>2, <1>5, <1>6, SendPaymentInv

-----------------------------------------------------------------------------
(* The steps of the services *)

(* Where a handler runs, its event is stored. *)
LEMMA Counted ==
  ASSUME Inv, NEW m \in Messages
  PROVE  /\ sends[m] \in 0..MaxSends
         /\ \A s \in OrderReplicas : inbox[s][m] \in Nat /\ setting[s][m] \in 0..MaxSends
         /\ \A n \in NotificationReplicas : inbox[n][m] \in Nat /\ notices[n][m] \in 0..MaxSends
         /\ \A s \in OrderReplicas : setting[s][m] > 0 => event[m] # None
         /\ \A s \in Subscribers : inbox[s][m] > 0 => event[m] # None
  <1> USE Numbers
  <1>1. /\ inbox \in [Subscribers -> [Messages -> Nat]]
        /\ setting \in [OrderReplicas -> [Messages -> 0..MaxSends]]
        /\ notices \in [NotificationReplicas -> [Messages -> 0..MaxSends]]
        /\ sends \in [Messages -> 0..MaxSends]
    BY DEF Inv, TypeOK, FlowTypeOK, BusTypeOK
  <1>2. /\ sends[m] \in 0..MaxSends
        /\ \A s \in OrderReplicas : inbox[s][m] \in Nat /\ setting[s][m] \in 0..MaxSends
        /\ \A n \in NotificationReplicas : inbox[n][m] \in Nat /\ notices[n][m] \in 0..MaxSends
    BY <1>1
  <1>3. /\ sends[m] > 0 => event[m] # None
        /\ \A s \in OrderReplicas : inbox[s][m] + setting[s][m] =< sends[m]
        /\ \A n \in NotificationReplicas : inbox[n][m] + notices[n][m] =< sends[m]
    BY DEF Inv, Deliveries
  <1>4. ASSUME NEW s \in Subscribers, inbox[s][m] > 0 PROVE event[m] # None
    <2>1. s \in OrderReplicas \/ s \in NotificationReplicas BY EventFlowAssumption
    <2> QED BY <1>2, <1>3, <1>4, <2>1
  <1>5. ASSUME NEW s \in OrderReplicas, setting[s][m] > 0 PROVE event[m] # None
    BY <1>2, <1>3, <1>5
  <1> QED BY <1>2, <1>4, <1>5

(* An order gets its row, or none, with the answer. *)
LEMMA CreateOrderInv == ASSUME Inv, NEW s \in Submits, CreateOrder(s) PROVE Inv'
  <1> USE Numbers
  <1>1. /\ ordering[s] = "running" /\ ordering'[s] \in {"created", "refused"}
        /\ \A x \in Submits \ {s} : ordering'[x] = ordering[x] /\ status'[x] = status[x]
        /\ status'[s] = IF ordering'[s] = "created" THEN "PENDING" ELSE status[s]
        /\ ordering' \in [Submits -> {"none", "running", "created", "refused"}]
        /\ status' \in [Orders -> OrderStatuses \cup {"absent"}]
    BY DEF CreateOrder, Inv, TypeOK, FlowTypeOK, OrderStatuses
  <1>2. UNCHANGED <<busVars, event, sends, setting, cancelling, notices, faults, lost, page, submit,
                    key, shown, paying, keyOf, orderOf, outcome, payments, bankVars>>
    BY DEF CreateOrder
  <1>3. taken' = taken BY <1>2 DEF bankVars
  <1>4. Grows BY <1>1, <1>2, <1>3 DEF Grows
  <1>5. status[s] = "absent" BY <1>1 DEF Inv, TypeOK
  <1>6. \A o \in Orders : status[o] # "absent" => status'[o] = status[o] BY <1>1, <1>5
  <1>7. FlowTypeOK'
    BY <1>1, <1>2 DEF Inv, TypeOK, FlowTypeOK, BusTypeOK, busVars
  <1>8. TypeOK'
    <2>1. ASSUME NEW x \in Submits PROVE status'[x] # "absent" <=> ordering'[x] = "created"
      BY <1>1, <1>5 DEF Inv, TypeOK
    <2> QED BY <1>1, <1>2, <1>7, <2>1 DEF Inv, TypeOK
  <1>9. Deliveries' BY <1>2 DEF Inv, Deliveries, busVars
  <1>10. CancelThere'
    <2>1. ASSUME NEW c \in Cancels, cancelling[c] \in Orders PROVE status'[cancelling[c]] # "absent"
      BY <1>6, <2>1 DEF Inv, CancelThere
    <2> QED BY <1>2, <2>1 DEF CancelThere
  <1>11. ReachInv'
    <2>1. ASSUME NEW m \in Messages, m \notin lost, sends[m] > 0
          PROVE  (\E x \in OrderReplicas : Pending(x, m)) \/ Settled(event[m].order)'
      <3>1. (\E x \in OrderReplicas : Pending(x, m)) \/ Settled(event[m].order)
        BY <2>1 DEF Inv, ReachInv
      <3>2. event[m] # None BY <2>1 DEF Inv, Deliveries
      <3>3. event[m].order \in Orders BY <3>2 DEF Inv, TypeOK, FlowTypeOK, Event
      <3> QED BY <1>2, <1>6, <3>1, <3>3 DEF Settled
    <2>2. UNCHANGED <<inbox, setting>> BY <1>2 DEF busVars
    <2> QED BY <1>2, <2>1, <2>2 DEF ReachInv, Pending
  <1>12. PageInv'
    <2>1. \A x \in Submits : x > submit => x # s BY <1>1 DEF Inv, PageInv
    <2>2. page = "checking" => submit # s BY <1>1 DEF Inv, PageInv
    <2>3. page \in {"ordering", "checking"} => submit \in Submits BY DEF Inv, PageInv, Waiting
    <2> QED BY <1>1, <1>2, <2>1, <2>2, <2>3 DEF Inv, PageInv
  <1>13. BankInv' BY <1>2, <1>4, BankStays
  <1>14. PaidInv'
    <2>1. \A o \in Orders : status'[o] \in {"PAID", "FAILED"} => status'[o] = status[o]
      BY <1>1, <1>5
    <2> QED BY <1>4, <2>1, Grown DEF PaidInv
  <1> QED BY <1>2, <1>4, <1>8, <1>9, <1>10, <1>11, <1>12, <1>13, <1>14, Grown DEF Inv

(* A step of a payment request moves that request; nothing of orders and events. *)
LEMMA PaymentMoves ==
  ASSUME Inv, NEW r \in Requests, paying[r] \in {"lookup", "charge", "save"},
         NEW step \in {"charge", "save", "201", "400"}, PayGoto(r, step),
         outcome' \in [Requests -> {"SUCCEEDED", "FAILED", None}],
         \A x \in Requests \ {r} : outcome'[x] = outcome[x],
         step = "save" => outcome'[r] # None,
         step = "201" => payments'[keyOf[r]] # None,
         payments' \in [AllKeys -> Row \cup {None}],
         \A k \in AllKeys : payments[k] # None => payments'[k] = payments[k],
         taken \subseteq taken',
         FlowTypeOK', UNCHANGED <<page, submit, key, shown, ordering, status, keyOf, orderOf>>
  PROVE  /\ Grows /\ TypeOK' /\ PageInv' /\ keyOf[r] \in AllKeys
         /\ paying'[r] = step /\ \A x \in Requests \ {r} : paying'[x] = paying[x]
  <1> USE Numbers
  <1>1. /\ paying'[r] = step /\ \A x \in Requests \ {r} : paying'[x] = paying[x]
        /\ paying' \in [Requests -> {"none", "lookup", "charge", "save", "201", "400"}]
    BY DEF PayGoto, Inv, TypeOK
  <1>2. Grows BY <1>1 DEF Grows, Answered
  <1>3. keyOf[r] \in AllKeys /\ keyOf[r] # 0 /\ orderOf[r] # None BY DEF Inv, TypeOK
  <1>4. ASSUME NEW x \in Requests
        PROVE  /\ paying'[x] # "none" <=> keyOf'[x] # 0
               /\ keyOf'[x] # 0 <=> orderOf'[x] # None
               /\ paying'[x] = "save" => outcome'[x] # None
               /\ paying'[x] = "201" => payments'[keyOf'[x]] # None
    <2>1. CASE x = r BY <1>1, <1>3, <2>1
    <2>2. CASE x # r
      <3>1. /\ paying[x] # "none" <=> keyOf[x] # 0
            /\ keyOf[x] # 0 <=> orderOf[x] # None
            /\ paying[x] = "save" => outcome[x] # None
            /\ paying[x] = "201" => payments[keyOf[x]] # None
            /\ keyOf[x] # 0 => keyOf[x] \in AllKeys
        BY DEF Inv, TypeOK
      <3>2. /\ paying'[x] = paying[x] /\ outcome'[x] = outcome[x]
            /\ UNCHANGED <<keyOf, orderOf>>
        BY <1>1, <2>2
      <3> QED BY <3>1, <3>2
    <2> QED BY <2>1, <2>2
  <1>5. TypeOK'
    <2>1. /\ page' \in Waiting \cup {"form", "thanks"} /\ submit' \in Submits \cup {0}
          /\ key' \in Keys /\ shown' \subseteq Submits
          /\ ordering' \in [Submits -> {"none", "running", "created", "refused"}]
          /\ keyOf' \in [Requests -> AllKeys \cup {0}]
          /\ orderOf' \in [Requests -> Orders \cup {None}]
          /\ \A s \in Submits : status'[s] # "absent" <=> ordering'[s] = "created"
      BY DEF Inv, TypeOK
    <2> QED BY <1>1, <1>4, <2>1 DEF TypeOK
  <1>6. PageInv' BY DEF Inv, PageInv
  <1> QED BY <1>1, <1>2, <1>3, <1>5, <1>6

(* A request that finds a row is answered; otherwise nothing is stored yet. *)
LEMMA LookUpKeyInv == ASSUME Inv, NEW r \in Requests, LookUpKey(r) PROVE Inv'
  <1> USE Numbers
  <1>1. /\ paying[r] = "lookup"
        /\ UNCHANGED <<busVars, flowVars, page, submit, key, shown, ordering, keyOf, orderOf,
                       payments, bankVars>>
    BY DEF LookUpKey
  <1>2. PICK step \in {"charge", "save", "201", "400"} :
          /\ PayGoto(r, step)
          /\ \/ UNCHANGED outcome /\ step # "save"
             \/ outcome' = [outcome EXCEPT ![r] = "FAILED"]
          /\ step = "201" => payments[keyOf[r]] # None
    BY DEF LookUpKey
  <1>3. /\ outcome' \in [Requests -> {"SUCCEEDED", "FAILED", None}]
        /\ \A x \in Requests \ {r} : outcome'[x] = outcome[x]
        /\ step = "save" => outcome'[r] # None
        /\ \A x \in Requests : outcome'[x] = "SUCCEEDED" => outcome[x] = "SUCCEEDED"
    BY <1>2, NoneAssumption DEF Inv, TypeOK
  <1>4. UNCHANGED <<event, status, taken>> BY <1>1 DEF flowVars, bankVars
  <1>5. FlowTypeOK' /\ Deliveries' /\ CancelThere' /\ ReachInv' BY <1>1, FlowStays
  <1>6. Grows /\ TypeOK' /\ PageInv'
    <2>1. payments' \in [AllKeys -> Row \cup {None}] /\ payments' = payments
      BY <1>1 DEF Inv, TypeOK
    <2>2. UNCHANGED <<page, submit, key, shown, ordering, status, keyOf, orderOf>> BY <1>1, <1>4
    <2>3. /\ \A k \in AllKeys : payments[k] # None => payments'[k] = payments[k]
          /\ step = "201" => payments'[keyOf[r]] # None
      BY <1>2, <2>1
    <2>4. PayGoto(r, step) /\ taken \subseteq taken' BY <1>2, <1>4
    <2> QED BY <1>1, <1>3, <1>5, <2>1, <2>2, <2>3, <2>4, PaymentMoves
  <1>7. BankInv' BY <1>1, <1>3, <1>6, BankStays
  <1> QED BY <1>1, <1>4, <1>5, <1>6, <1>7, Grown DEF Inv, PaidInv

(* What create_charge does to the books: the answer is a charge of this request or of an
   earlier one under the same key, and for the same order, which is one of the parameters. *)
LEMMA ChargeBooks ==
  ASSUME Inv, NEW r \in Requests, NEW res \in Bank!Result, keyOf[r] \in AllKeys,
         Bank!CreateCharge(r, keyOf[r], [amount |-> "cents", order |-> orderOf[r]], res)
  PROVE  /\ taken \subseteq taken' /\ taken' \subseteq taken \cup {r}
         /\ res.ok => \E t \in taken' : keyOf[t] = keyOf[r] /\ orderOf[t] = orderOf[r]
         /\ \A i \in intents' : /\ i.tx \in Requests /\ i.key \in AllKeys
                                /\ keyOf[i.tx] = i.key /\ orderOf[i.tx] = i.params.order
         /\ \A i, j \in intents' : i.key = j.key => i = j
         /\ intents \subseteq intents'
         /\ r \in taken' /\ r \notin taken /\ ~UseMock =>
              \E i \in intents' : i.key = keyOf[r] /\ i.tx = r
  <1> USE Numbers
  <1> DEFINE params == [amount |-> "cents", order |-> orderOf[r]]
             new == [key |-> keyOf[r], params |-> params, tx |-> r]
             Recorded(i) == /\ i.tx \in Requests /\ i.key \in AllKeys
                            /\ keyOf[i.tx] = i.key /\ orderOf[i.tx] = i.params.order
             P == /\ taken \subseteq taken' /\ taken' \subseteq taken \cup {r}
                  /\ res.ok => \E t \in taken' : keyOf[t] = keyOf[r] /\ orderOf[t] = orderOf[r]
                  /\ \A i \in intents' : Recorded(i)
                  /\ \A i, j \in intents' : i.key = j.key => i = j
                  /\ intents \subseteq intents'
                  /\ r \in taken' /\ r \notin taken /\ ~UseMock =>
                       \E i \in intents' : i.key = keyOf[r] /\ i.tx = r
  <1> SUFFICES P
    OBVIOUS
  <1>1. /\ \A i \in intents : Recorded(i)
        /\ \A i, j \in intents : i.key = j.key => i = j
    BY DEF Inv, BankInv
  <1>2. keyOf[r] \notin {None, 0} BY NoneAssumption
  <1>3. CASE UseMock /\ Bank!MockCreateCharge(r, res)
    <2>1. /\ intents' = intents
          /\ taken' = IF res.ok THEN taken \cup {r} ELSE taken
      BY <1>3 DEF Bank!MockCreateCharge
    <2> HIDE DEF Recorded
    <2> QED BY <1>1, <1>3, <2>1
  <1>4. ASSUME NEW ok \in BOOLEAN, Bank!StripeNewCharge(r, keyOf[r], params, ok), res.ok => ok
        PROVE  P
    <2>1. /\ taken' = IF ok THEN taken \cup {r} ELSE taken
          /\ intents' = intents \cup {new}
          /\ \A i \in intents : i.key # keyOf[r]
      BY <1>2, <1>4 DEF Bank!StripeNewCharge, Bank!StripeKnows
    <2>2. new.key = keyOf[r] /\ new.tx = r /\ new.params.order = orderOf[r]
      OBVIOUS
    <2> HIDE DEF new
    <2>3. Recorded(new) BY <2>2
    <2> HIDE DEF Recorded
    <2> QED BY <1>1, <1>4, <2>1, <2>2, <2>3
  <1>5. CASE /\ \E i \in intents : /\ i.key = keyOf[r] /\ i.params = params
                                   /\ res = [ok |-> i.tx \in taken, tx |-> i.tx]
             /\ UNCHANGED Bank!providerVars
    <2>1. PICK i \in intents : /\ i.key = keyOf[r] /\ i.params = params
                               /\ res = [ok |-> i.tx \in taken, tx |-> i.tx]
      BY <1>5
    <2>2. keyOf[i.tx] = keyOf[r] /\ orderOf[i.tx] = orderOf[r] BY <1>1, <2>1
    <2>3. res.ok => i.tx \in taken BY <2>1
    <2>4. taken' = taken /\ intents' = intents BY <1>5 DEF Bank!providerVars
    <2> HIDE DEF Recorded
    <2> QED BY <1>1, <2>2, <2>3, <2>4
  <1>6. CASE res = Bank!StripeError /\ UNCHANGED Bank!providerVars
    <2>1. ~res.ok /\ taken' = taken /\ intents' = intents
      BY <1>6 DEF Bank!providerVars, Bank!StripeError
    <2> HIDE DEF Recorded
    <2> QED BY <1>1, <2>1
  <1>7. P
    <2>1. CASE ~UseMock /\ Bank!StripeCreateCharge(r, keyOf[r], params, res)
      <3>1. CASE res \in [ok : BOOLEAN, tx : {r}] /\ Bank!StripeNewCharge(r, keyOf[r], params, res.ok)
        <4>1. res.ok \in BOOLEAN BY <3>1
        <4> HIDE DEF P
        <4> QED BY <1>4, <3>1, <4>1
      <3>2. CASE res = Bank!StripeError /\ Bank!StripeNewCharge(r, keyOf[r], params, TRUE)
        <4> HIDE DEF P
        <4> QED BY <1>4, <3>2
      <3> HIDE DEF P
      <3> QED BY <1>5, <1>6, <2>1, <3>1, <3>2 DEF Bank!StripeCreateCharge
    <2> HIDE DEF P
    <2> QED BY <1>3, <2>1 DEF Bank!CreateCharge
  <1> HIDE DEF P
  <1> QED BY <1>7

(* The charge is recorded under the key of the request, and for its order. *)
LEMMA ChargeInv == ASSUME Inv, NEW r \in Requests, Charge(r) PROVE Inv'
  <1> USE Numbers
  <1>1. /\ paying[r] = "charge" /\ PayGoto(r, "save")
        /\ UNCHANGED <<busVars, flowVars, page, submit, key, shown, ordering, keyOf, orderOf, payments>>
    BY DEF Charge
  <1>2. PICK res \in Bank!Result :
          /\ Bank!CreateCharge(r, keyOf[r], [amount |-> "cents", order |-> orderOf[r]], res)
          /\ outcome' = [outcome EXCEPT ![r] = IF res.ok THEN "SUCCEEDED" ELSE "FAILED"]
    BY DEF Charge
  <1>3. /\ outcome' \in [Requests -> {"SUCCEEDED", "FAILED", None}]
        /\ \A x \in Requests \ {r} : outcome'[x] = outcome[x]
        /\ outcome'[r] # None /\ (outcome'[r] = "SUCCEEDED" => res.ok)
    BY <1>2, NoneAssumption DEF Inv, TypeOK
  <1>4. keyOf[r] \in AllKeys /\ payments \in [AllKeys -> Row \cup {None}]
    BY <1>1 DEF Inv, TypeOK
  <1>5. /\ taken \subseteq taken' /\ taken' \subseteq taken \cup {r}
        /\ res.ok => \E t \in taken' : keyOf[t] = keyOf[r] /\ orderOf[t] = orderOf[r]
        /\ \A i \in intents' : /\ i.tx \in Requests /\ i.key \in AllKeys
                               /\ keyOf[i.tx] = i.key /\ orderOf[i.tx] = i.params.order
        /\ \A i, j \in intents' : i.key = j.key => i = j
        /\ intents \subseteq intents'
        /\ r \in taken' /\ r \notin taken /\ ~UseMock =>
             \E i \in intents' : i.key = keyOf[r] /\ i.tx = r
    BY <1>2, <1>4, ChargeBooks
  <1>6. UNCHANGED <<event, status>> BY <1>1 DEF flowVars
  <1>7. FlowTypeOK' /\ Deliveries' /\ CancelThere' /\ ReachInv' BY <1>1, FlowStays
  <1>8. Grows /\ TypeOK' /\ PageInv'
    BY <1>1, <1>3, <1>4, <1>5, <1>6, <1>7, PaymentMoves
  <1>9. BankInv'
    <2>1. taken' \subseteq Requests BY <1>5 DEF Inv, BankInv
    <2>2. ASSUME NEW x \in Requests, outcome'[x] = "SUCCEEDED"
          PROVE  \E t \in taken' : keyOf[t] = keyOf[x] /\ orderOf[t] = orderOf[x]
      <3>1. CASE x = r BY <1>3, <1>5, <2>2, <3>1
      <3>2. CASE x # r BY <1>3, <1>5, <2>2, <3>2 DEF Inv, BankInv
      <3> QED BY <3>1, <3>2
    <2>3. ASSUME NEW x \in taken'
          PROVE  keyOf[x] # 0 /\ (~UseMock => \E i \in intents' : i.key = keyOf[x] /\ i.tx = x)
      <3>1. CASE x \in taken BY <1>5, <3>1 DEF Inv, BankInv
      <3>2. CASE x \notin taken
        <4>1. x = r BY <1>5, <2>3, <3>2
        <4> QED BY <1>4, <1>5, <2>3, <3>2, <4>1
      <3> QED BY <3>1, <3>2
    <2>4. keyOf' = keyOf /\ orderOf' = orderOf BY <1>1
    <2> QED BY <1>5, <2>1, <2>2, <2>3, <2>4 DEF BankInv
  <1> QED BY <1>1, <1>6, <1>7, <1>8, <1>9, Grown DEF Inv, PaidInv

(* Row and event are written together, by the first request under the key to get there. *)
LEMMA SavePaymentInv == ASSUME Inv, NEW r \in Requests, SavePayment(r) PROVE Inv'
  <1> USE Numbers
  <1> DEFINE k == keyOf[r]
             row == [order |-> orderOf[r], status |-> outcome[r]]
             e == [type |-> EventTypeFor(outcome[r]), order |-> orderOf[r]]
  <1>1. /\ paying[r] = "save" /\ outcome' = [outcome EXCEPT ![r] = None]
        /\ UNCHANGED <<busVars, sends, status, setting, cancelling, notices, faults, lost, page,
                       submit, key, shown, ordering, keyOf, orderOf, bankVars>>
    BY DEF SavePayment
  <1>2. k \in AllKeys /\ outcome[r] \in {"SUCCEEDED", "FAILED"} /\ orderOf[r] \in Orders
    BY <1>1 DEF Inv, TypeOK
  <1>3. /\ outcome' \in [Requests -> {"SUCCEEDED", "FAILED", None}]
        /\ \A x \in Requests \ {r} : outcome'[x] = outcome[x]
        /\ outcome'[r] = None
        /\ \A x \in Requests : outcome'[x] = "SUCCEEDED" => outcome[x] = "SUCCEEDED"
    BY <1>1, NoneAssumption DEF Inv, TypeOK
  <1>4. row \in Row /\ row # None /\ e \in Event /\ e # None /\ e.order = orderOf[r]
    <2>1. row \in Row BY <1>2 DEF Row
    <2>2. e \in Event BY <1>2 DEF Event, EventTypes, EventTypeFor
    <2> QED BY <2>1, <2>2, NoneAssumption
  <1>5. PICK step \in {"201", "400"} :
          /\ PayGoto(r, step)
          /\ \/ /\ payments[k] = None /\ step = AnswerFor(outcome[r])
                /\ payments' = [payments EXCEPT ![k] = row] /\ event' = [event EXCEPT ![r] = e]
             \/ payments[k] # None /\ step = "201" /\ UNCHANGED <<payments, event>>
    BY DEF SavePayment, StoreEvent, AnswerFor
  <1> HIDE DEF row, e
  <1>6. event[r] = None /\ sends[r] = 0
    <2>1. event[r] = None BY <1>1 DEF Inv, EventInv, Answered
    <2>2. sends[r] \in 0..MaxSends BY DEF Inv, TypeOK, FlowTypeOK
    <2> QED BY <2>1, <2>2 DEF Inv, Deliveries
  <1>7. /\ payments' \in [AllKeys -> Row \cup {None}]
        /\ \A x \in AllKeys : payments[x] # None => payments'[x] = payments[x]
        /\ payments'[k] # None
        /\ event' \in [Messages -> Event \cup {None}]
        /\ \A m \in Messages : event[m] # None => event'[m] = event[m]
        /\ \A m \in Messages \ {r} : event'[m] = event[m]
    <2>1. payments \in [AllKeys -> Row \cup {None}] /\ event \in [Messages -> Event \cup {None}]
      BY DEF Inv, TypeOK, FlowTypeOK
    <2>2. CASE payments' = [payments EXCEPT ![k] = row] /\ event' = [event EXCEPT ![r] = e]
               /\ payments[k] = None
      BY <1>2, <1>4, <1>6, <2>1, <2>2
    <2>3. CASE payments[k] # None /\ UNCHANGED <<payments, event>>
      BY <2>1, <2>3
    <2> QED BY <1>5, <2>2, <2>3
  <1>8. FlowTypeOK'
    BY <1>1, <1>7 DEF Inv, TypeOK, FlowTypeOK, BusTypeOK, busVars
  <1>9. taken' = taken BY <1>1 DEF bankVars
  <1>10. /\ Grows /\ TypeOK' /\ PageInv'
         /\ paying'[r] = step /\ \A x \in Requests \ {r} : paying'[x] = paying[x]
    <2>1. UNCHANGED <<page, submit, key, shown, ordering, status, keyOf, orderOf>> BY <1>1
    <2>2. PayGoto(r, step) /\ taken \subseteq taken' /\ (step = "201" => payments'[keyOf[r]] # None)
      BY <1>5, <1>7, <1>9
    <2>3. step = "save" => outcome'[r] # None BY <1>5
    <2>4. paying[r] \in {"lookup", "charge", "save"} /\ step \in {"charge", "save", "201", "400"}
      BY <1>1, <1>5
    <2>5. PayGoto(r, step) BY <2>2
    <2>6. /\ payments' \in [AllKeys -> Row \cup {None}]
          /\ \A x \in AllKeys : payments[x] # None => payments'[x] = payments[x]
      BY <1>7
    <2>7. /\ outcome' \in [Requests -> {"SUCCEEDED", "FAILED", None}]
          /\ \A x \in Requests \ {r} : outcome'[x] = outcome[x]
      BY <1>3
    <2> HIDE Numbers
    <2> QED BY <1>8, <2>1, <2>2, <2>3, <2>4, <2>5, <2>6, <2>7, PaymentMoves
  <1>11. BankInv' BY <1>1, <1>3, <1>10, BankStays
  <1>12. Deliveries' BY <1>1, <1>7 DEF Inv, Deliveries, busVars
  <1>13. CancelThere' BY <1>1 DEF Inv, CancelThere
  <1>14. ReachInv'
    <2>1. ASSUME NEW m \in Messages, m \notin lost, sends[m] > 0
          PROVE  (\E x \in OrderReplicas : Pending(x, m)) \/ Settled(event'[m].order)
      <3>1. m # r BY <1>6, <2>1
      <3>2. event'[m] = event[m] BY <1>7, <3>1
      <3> QED BY <2>1, <3>2 DEF Inv, ReachInv
    <2>2. UNCHANGED <<inbox, setting, sends, lost, status>> BY <1>1 DEF busVars
    <2> QED BY <2>1, <2>2 DEF ReachInv, Pending, Settled
  <1>15. ASSUME NEW m \in Messages PROVE EventInv(m)'
    <2>1. CASE event'[m] = event[m] BY <1>10, <2>1, Grown
    <2>2. CASE event'[m] # event[m]
      <3>0. m = r BY <1>7, <2>2
      <3>1. event'[m] = e /\ payments'[k] = row
        <4>1. payments' = [payments EXCEPT ![k] = row] /\ event' = [event EXCEPT ![r] = e]
          BY <1>5, <2>2
        <4>2. payments \in [AllKeys -> Row \cup {None}] /\ event \in [Messages -> Event \cup {None}]
          BY DEF Inv, TypeOK, FlowTypeOK
        <4> QED BY <1>2, <3>0, <4>1, <4>2
      <3>2. paying'[r] \in Answered BY <1>10 DEF Answered
      <3>3. e.type = EventTypeFor(row.status) /\ row.order = orderOf[r] /\ e.order = orderOf[r]
        BY DEF row, e
      <3> QED BY <1>1, <1>2, <1>7, <3>0, <3>1, <3>2, <3>3 DEF EventInv
    <2> QED BY <2>1, <2>2
  <1>16. OneEvent'
    <2>1. keyOf' = keyOf BY <1>1
    <2>2. ASSUME NEW l \in Messages, event[l] # None, keyOf[l] = k PROVE event' = event
      <3>1. payments[k] # None BY <2>2 DEF Inv, EventInv
      <3> QED BY <1>5, <3>1
    <2>3. CASE event' = event BY <1>10, <2>3, Grown
    <2>4. CASE event' # event
      <3>1. \A l \in Messages : keyOf[l] = k => event[l] = None BY <2>2, <2>4
      <3>2. ASSUME NEW l \in Messages, NEW m \in Messages, event'[l] # None, event'[m] # None,
                   keyOf[l] = keyOf[m]
            PROVE  l = m
        <4>1. CASE l = r BY <1>7, <3>1, <3>2, <4>1
        <4>2. CASE m = r BY <1>7, <3>1, <3>2, <4>2
        <4>3. CASE l # r /\ m # r BY <1>7, <3>2, <4>3 DEF Inv, OneEvent
        <4> QED BY <4>1, <4>2, <4>3
      <3> QED BY <2>1, <3>2 DEF OneEvent
    <2> QED BY <2>3, <2>4
  <1>17. ASSUME NEW x \in AllKeys PROVE RowInv(x)'
    <2>1. CASE payments'[x] = payments[x] BY <1>10, <2>1, Grown
    <2>2. CASE payments'[x] # payments[x]
      <3>1. x = k /\ payments'[x] = row /\ step = AnswerFor(outcome[r])
        BY <1>2, <1>5, <2>2 DEF Inv, TypeOK
      <3>2. row.order = orderOf[r] /\ row.status = outcome[r] BY DEF row
      <3>3. outcome[r] = "SUCCEEDED" => \E t \in taken : keyOf[t] = k /\ orderOf[t] = orderOf[r]
        BY DEF Inv, BankInv
      <3>4. keyOf' = keyOf /\ orderOf' = orderOf BY <1>1
      <3>5. keyOf[r] = x /\ orderOf[r] = row.order /\ paying'[r] = AnswerFor(row.status)
        BY <1>10, <3>1, <3>2
      <3> QED BY <1>9, <3>1, <3>2, <3>3, <3>4, <3>5 DEF RowInv
    <2> QED BY <2>1, <2>2
  <1>18. PaidInv' BY <1>1, <1>10, Grown DEF PaidInv
  <1>19. ASSUME NEW x \in Requests PROVE RequestInv(x)'
    BY <1>1, <1>10, Grown
  <1>20. shown' = shown BY <1>1
  <1> QED BY <1>10, <1>11, <1>12, <1>13, <1>14, <1>15, <1>16, <1>17, <1>18, <1>19, <1>20, Grown
      DEF Inv

-----------------------------------------------------------------------------
(* The steps of the events' flow *)

(* A step of a handler or a cancellation changes the status of an order that exists to that of
   a stored payment of it, or to CANCELLED. *)
StatusMoves ==
  \A o \in Orders : status'[o] # status[o] =>
    /\ status[o] # "absent"
    /\ \/ status'[o] = "CANCELLED"
       \/ status'[o] = "PAID" /\ HasPayment(o, "SUCCEEDED")
       \/ status'[o] = "FAILED" /\ HasPayment(o, "FAILED")

(* They leave the page, the payments and the events as they are. *)
LEMMA FlowMoves ==
  ASSUME Inv, UNCHANGED checkoutVars, UNCHANGED event, FlowTypeOK', Deliveries', CancelThere',
         ReachInv', StatusMoves
  PROVE  Inv'
  <1> USE Numbers
  <1>1. UNCHANGED <<page, submit, key, shown, ordering, paying, keyOf, orderOf, outcome, payments,
                    taken, intents, bankVars>>
    BY DEF checkoutVars, bankVars
  <1>2. Grows BY <1>1 DEF Grows
  <1>3. TypeOK'
    <2>1. ASSUME NEW s \in Submits PROVE status'[s] # "absent" <=> ordering[s] = "created"
      BY DEF Inv, TypeOK, StatusMoves
    <2>2. /\ page \in Waiting \cup {"form", "thanks"} /\ submit \in Submits \cup {0}
          /\ key \in Keys /\ shown \subseteq Submits
          /\ ordering \in [Submits -> {"none", "running", "created", "refused"}]
          /\ paying \in [Requests -> {"none", "lookup", "charge", "save", "201", "400"}]
          /\ keyOf \in [Requests -> AllKeys \cup {0}]
          /\ orderOf \in [Requests -> Orders \cup {None}]
          /\ outcome \in [Requests -> {"SUCCEEDED", "FAILED", None}]
          /\ payments \in [AllKeys -> Row \cup {None}]
          /\ \A r \in Requests : /\ paying[r] # "none" <=> keyOf[r] # 0
                                 /\ keyOf[r] # 0 <=> orderOf[r] # None
                                 /\ paying[r] = "save" => outcome[r] # None
                                 /\ paying[r] = "201" => payments[keyOf[r]] # None
      BY DEF Inv, TypeOK
    <2> QED BY <1>1, <2>1, <2>2 DEF TypeOK
  <1>4. PageInv' BY <1>1 DEF Inv, PageInv
  <1>5. BankInv' BY <1>1, <1>2, BankStays
  <1>6. PaidInv'
    <2>1. ASSUME NEW o \in Orders
          PROVE  /\ status'[o] = "PAID" => HasPayment(o, "SUCCEEDED")
                 /\ status'[o] = "FAILED" => HasPayment(o, "FAILED")
      BY DEF StatusMoves, Inv, PaidInv
    <2> QED BY <1>1, <2>1 DEF PaidInv, HasPayment
  <1>7. /\ \A r \in Requests : RequestInv(r)'
        /\ \A m \in Messages : EventInv(m)'
        /\ OneEvent'
        /\ \A k \in AllKeys : RowInv(k)'
        /\ \A s \in shown' : keyOf'[s] # 0 /\ FirstPaid(s)'
    BY <1>1, <1>2, Grown
  <1> QED BY <1>3, <1>4, <1>5, <1>6, <1>7 DEF Inv

(* Deliveries are not lost from sight: each goes on to wait for a handler, its order is settled,
   or the step counts it as lost. *)
LEMMA ReachMoves ==
  ASSUME Inv, UNCHANGED event, lost \subseteq lost', StatusMoves,
         \A m \in Messages \ lost' : sends'[m] > 0 /\ ~(sends[m] > 0) =>
           \E s \in OrderReplicas : Pending(s, m)',
         \A m \in Messages \ lost', s \in OrderReplicas : Pending(s, m) =>
           (\E x \in OrderReplicas : Pending(x, m)') \/ Settled(event[m].order)'
  PROVE  ReachInv'
  <1> SUFFICES ASSUME NEW m \in Messages, m \notin lost', sends'[m] > 0
               PROVE  (\E x \in OrderReplicas : Pending(x, m)') \/ Settled(event[m].order)'
    BY DEF ReachInv
  <1>1. CASE ~(sends[m] > 0) BY <1>1
  <1>2. CASE sends[m] > 0
    <2>1. (\E s \in OrderReplicas : Pending(s, m)) \/ Settled(event[m].order)
      BY <1>2 DEF Inv, ReachInv
    <2>2. event[m] # None BY <1>2 DEF Inv, Deliveries
    <2>3. event[m].order \in Orders BY <2>2 DEF Inv, TypeOK, FlowTypeOK, Event
    <2>4. CASE \E s \in OrderReplicas : Pending(s, m) BY <2>4
    <2>5. CASE Settled(event[m].order) BY <2>3, <2>5 DEF StatusMoves, Settled
    <2> QED BY <2>1, <2>4, <2>5
  <1> QED BY <1>1, <1>2

(* The order of a stored event exists. *)
LEMMA EventsOrder ==
  ASSUME Inv, NEW m \in Messages, event[m] # None
  PROVE  /\ event[m].order = orderOf[m] /\ orderOf[m] \in Orders
         /\ status[orderOf[m]] # "absent"
  <1>1. keyOf[m] \in AllKeys /\ event[m].order = orderOf[m] BY DEF Inv, EventInv
  <1>2. keyOf[m] # 0 BY <1>1, Numbers
  <1>3. orderOf[m] \in Orders /\ ordering[orderOf[m]] = "created"
    BY <1>2, Numbers DEF Inv, RequestInv
  <1> QED BY <1>1, <1>3, Numbers DEF Inv, TypeOK

(* The tables of counters, one by one. *)
LEMMA FlowTypes ==
  Inv => /\ inbox \in [Subscribers -> [Messages -> Nat]]
         /\ setting \in [OrderReplicas -> [Messages -> 0..MaxSends]]
         /\ notices \in [NotificationReplicas -> [Messages -> 0..MaxSends]]
         /\ sends \in [Messages -> 0..MaxSends]
         /\ status \in [Orders -> OrderStatuses \cup {"absent"}]
         /\ cancelling \in [Cancels -> Orders \cup {None, Done}]
         /\ event \in [Messages -> Event \cup {None}]
         /\ faults \in 0..MaxFaults
         /\ lost \subseteq Messages
         /\ BusTypeOK
  BY DEF Inv, TypeOK, FlowTypeOK, BusTypeOK

(* A publish reaches each listener once. *)
LEMMA PublishOnce ==
  ASSUME Inv, NEW p \in Publishers, NEW m \in Messages, Publish(p, m)
  PROVE  /\ BusTypeOK'
         /\ \A s \in Subscribers : inbox'[s][m] \in {inbox[s][m], inbox[s][m] + 1}
         /\ \A s \in Subscribers : \A x \in Messages \ {m} : inbox'[s][x] = inbox[s][x]
  <1>0. BusTypeOK BY FlowTypes
  <1>1. CASE UNCHANGED busVars BY <1>0, <1>1 DEF busVars, BusTypeOK
  <1>2. CASE Accept(m)
    <2>1. inbox \in [Subscribers -> [Messages -> Nat]] BY <1>0 DEF BusTypeOK
    <2>2. ASSUME NEW s \in Subscribers
          PROVE  /\ inbox'[s] \in [Messages -> Nat]
                 /\ inbox'[s][m] \in {inbox[s][m], inbox[s][m] + 1}
                 /\ \A x \in Messages \ {m} : inbox'[s][x] = inbox[s][x]
      <3>1. inbox[s] \in [Messages -> Nat] /\ inbox[s][m] + 1 \in Nat BY <2>1
      <3>2. inbox'[s] = IF listening[s] THEN [inbox[s] EXCEPT ![m] = @ + 1] ELSE inbox[s]
        BY <1>2 DEF Accept
      <3> QED BY <3>1, <3>2
    <2>3. inbox' \in [Subscribers -> [Messages -> Nat]] BY <1>2, <2>2 DEF Accept
    <2> QED BY <1>0, <1>2, <2>2, <2>3 DEF Accept, BusTypeOK
  <1> QED BY <1>1, <1>2 DEF Publish

(* A publish raises sends by one and each inbox by one at most. *)
LEMMA HandOverInv == ASSUME Inv, NEW m \in Messages, HandOver(m), UNCHANGED checkoutVars PROVE Inv'
  <1> USE Numbers, FlowTypes
  <1>1. /\ event[m] # None /\ sends[m] < MaxSends /\ sends' = [sends EXCEPT ![m] = sends[m] + 1]
        /\ UNCHANGED <<event, status, setting, cancelling, notices>>
        /\ lost' = IF \E s \in OrderReplicas : inbox'[s] # inbox[s] THEN lost ELSE lost \cup {m}
        /\ faults' = faults \/ (faults < MaxFaults /\ faults' = faults + 1)
    BY DEF HandOver, Fault
  <1>2. /\ BusTypeOK'
        /\ \A s \in Subscribers : inbox'[s][m] \in {inbox[s][m], inbox[s][m] + 1}
        /\ \A s \in Subscribers : \A x \in Messages \ {m} : inbox'[s][x] = inbox[s][x]
    BY PublishOnce DEF HandOver
  <1>3. /\ sends[m] \in Nat /\ sends[m] + 1 \in 0..MaxSends
        /\ sends' \in [Messages -> 0..MaxSends] /\ sends'[m] = sends[m] + 1
        /\ \A x \in Messages \ {m} : sends'[x] = sends[x]
    BY <1>1
  <1>4. FlowTypeOK'
    <2>1. faults' \in 0..MaxFaults /\ lost' \subseteq Messages BY <1>1
    <2> QED BY <1>1, <1>2, <1>3, <2>1 DEF Inv, TypeOK, FlowTypeOK
  <1>5. Deliveries'
    <2>1. ASSUME NEW x \in Messages
          PROVE  /\ sends'[x] > 0 => event'[x] # None
                 /\ \A s \in OrderReplicas : inbox'[s][x] + setting'[s][x] =< sends'[x]
                 /\ \A n \in NotificationReplicas : inbox'[n][x] + notices'[n][x] =< sends'[x]
      <3>0. /\ sends[x] > 0 => event[x] # None
            /\ \A s \in OrderReplicas : inbox[s][x] + setting[s][x] =< sends[x]
            /\ \A n \in NotificationReplicas : inbox[n][x] + notices[n][x] =< sends[x]
        BY DEF Inv, Deliveries
      <3>1. CASE x = m
        <4>1. ASSUME NEW s \in OrderReplicas PROVE inbox'[s][m] + setting'[s][m] =< sends'[m]
          <5>1. inbox[s][m] \in Nat /\ setting[s][m] \in 0..MaxSends BY Counted
          <5>2. inbox'[s][m] \in {inbox[s][m], inbox[s][m] + 1} BY <1>2
          <5>3. inbox[s][m] + setting[s][m] =< sends[m] BY <3>0, <3>1
          <5> QED BY <1>1, <1>3, <5>1, <5>2, <5>3
        <4>2. ASSUME NEW n \in NotificationReplicas
              PROVE  inbox'[n][m] + notices'[n][m] =< sends'[m]
          <5>1. inbox[n][m] \in Nat /\ notices[n][m] \in 0..MaxSends BY Counted
          <5>2. inbox'[n][m] \in {inbox[n][m], inbox[n][m] + 1} BY <1>2
          <5>3. inbox[n][m] + notices[n][m] =< sends[m] BY <3>0, <3>1
          <5> QED BY <1>1, <1>3, <5>1, <5>2, <5>3
        <4> QED BY <1>1, <3>1, <4>1, <4>2
      <3>2. CASE x # m BY <1>1, <1>2, <1>3, <3>0, <3>2
      <3> QED BY <3>1, <3>2
    <2> QED BY <2>1 DEF Deliveries
  <1>6. CancelThere' BY <1>1 DEF Inv, CancelThere
  <1>7. StatusMoves BY <1>1 DEF StatusMoves
  <1>8. ASSUME NEW s \in OrderReplicas, NEW x \in Messages, Pending(s, x) PROVE Pending(s, x)'
    <2>1. inbox[s][x] \in Nat /\ inbox'[s][x] \in {inbox[s][x], inbox[s][x] + 1}
      BY <1>2, Counted
    <2> QED BY <1>1, <1>8, <2>1 DEF Pending
  <1>9. ASSUME m \notin lost' PROVE \E s \in OrderReplicas : Pending(s, m)'
    <2>1. PICK s \in OrderReplicas : inbox'[s] # inbox[s] BY <1>1, <1>9
    <2>2. inbox[s] \in [Messages -> Nat] /\ inbox'[s] \in [Messages -> Nat]
      BY <1>2 DEF BusTypeOK
    <2>3. inbox'[s][m] # inbox[s][m]
      <3>1. PICK x \in Messages : inbox'[s][x] # inbox[s][x] BY <2>1, <2>2
      <3>2. x = m BY <1>2, <3>1
      <3> QED BY <3>1, <3>2
    <2>4. inbox'[s][m] = inbox[s][m] + 1 /\ inbox[s][m] \in Nat BY <1>2, <2>2, <2>3
    <2>5. inbox'[s][m] > 0 BY <2>4
    <2> QED BY <2>5 DEF Pending
  <1>10. ReachInv'
    <2>1. \A x \in Messages : sends'[x] > 0 /\ ~(sends[x] > 0) => x = m BY <1>3
    <2>2. lost \subseteq lost' BY <1>1
    <2> QED BY <1>1, <1>7, <1>8, <1>9, <2>1, <2>2, ReachMoves
  <1> QED BY <1>1, <1>4, <1>5, <1>6, <1>7, <1>10, FlowMoves

(* A handler takes one delivery from its inbox. *)
LEMMA Takes ==
  ASSUME Inv, NEW s \in Subscribers, NEW m \in Messages, Take(s, m)
  PROVE  /\ BusTypeOK' /\ event[m] # None
         /\ inbox[s][m] \in Nat /\ inbox[s][m] > 0 /\ inbox'[s][m] = inbox[s][m] - 1
         /\ \A a \in Subscribers, b \in Messages : a # s \/ b # m => inbox'[a][b] = inbox[a][b]
  <1>1. inbox \in [Subscribers -> [Messages -> Nat]] BY FlowTypes
  <1>2. inbox[s][m] \in Nat /\ inbox[s][m] > 0 /\ inbox[s][m] - 1 \in Nat
    BY <1>1 DEF Take
  <1> DEFINE v == inbox[s][m] - 1
  <1>3. inbox' = [inbox EXCEPT ![s][m] = v] /\ UNCHANGED <<redisUp, connected, listening, reached>>
    BY DEF Take
  <1>4. v \in Nat BY <1>2
  <1> HIDE DEF v
  <1>5. /\ inbox' \in [Subscribers -> [Messages -> Nat]] /\ inbox'[s][m] = v
        /\ \A a \in Subscribers, b \in Messages : a # s \/ b # m => inbox'[a][b] = inbox[a][b]
    BY <1>1, <1>3, <1>4, OneCell
  <1>6. BusTypeOK' BY <1>3, <1>5, FlowTypes DEF BusTypeOK
  <1>7. event[m] # None BY <1>2, Counted
  <1> QED BY <1>2, <1>5, <1>6, <1>7 DEF v

(* A delivery leaves the inbox and is counted as a handler's, if the handler goes on. *)
LEMMA HandleInv ==
  ASSUME Inv, NEW s \in OrderReplicas, NEW m \in Messages, Handle(s, m), UNCHANGED checkoutVars
  PROVE  Inv'
  <1> USE Numbers, FlowTypes
  <1>1. /\ BusTypeOK' /\ event[m] # None
        /\ inbox[s][m] \in Nat /\ inbox[s][m] > 0 /\ inbox'[s][m] = inbox[s][m] - 1
        /\ \A a \in Subscribers, b \in Messages : a # s \/ b # m => inbox'[a][b] = inbox[a][b]
    BY Takes DEF Handle
  <1> DEFINE skip == status[event[m].order] \in {"absent", NewStatus(m)}
             v == IF skip THEN setting[s][m] ELSE setting[s][m] + 1
  <1>2. setting' = [setting EXCEPT ![s][m] = v] /\ UNCHANGED <<event, sends, status, cancelling, notices, faults, lost>>
    BY DEF Handle
  <1>3. setting[s][m] \in 0..MaxSends /\ sends[m] \in 0..MaxSends BY Counted
  <1>4. inbox[s][m] + setting[s][m] =< sends[m] BY DEF Inv, Deliveries
  <1>5. v \in 0..MaxSends /\ (v = setting[s][m] \/ (v = setting[s][m] + 1 /\ ~skip))
    <2> HIDE DEF skip
    <2>1. setting[s][m] + 1 \in 0..MaxSends BY <1>1, <1>3, <1>4
    <2> QED BY <1>3, <2>1
  <1> HIDE DEF v
  <1>6. /\ setting' \in [OrderReplicas -> [Messages -> 0..MaxSends]] /\ setting'[s][m] = v
        /\ \A a \in OrderReplicas, b \in Messages : a # s \/ b # m => setting'[a][b] = setting[a][b]
    BY <1>2, <1>5, OneCell
  <1>7. FlowTypeOK' BY <1>1, <1>2, <1>6 DEF Inv, TypeOK, FlowTypeOK
  <1>8. Deliveries'
    <2>1. ASSUME NEW x \in Messages, NEW a \in OrderReplicas
          PROVE  inbox'[a][x] + setting'[a][x] =< sends'[x]
      <3>1. CASE a = s /\ x = m BY <1>1, <1>2, <1>3, <1>4, <1>5, <1>6, <3>1
      <3>2. CASE a # s \/ x # m
        <4>1. inbox[a][x] + setting[a][x] =< sends[x] BY DEF Inv, Deliveries
        <4>2. inbox'[a][x] = inbox[a][x] /\ setting'[a][x] = setting[a][x] BY <1>1, <1>6, <3>2
        <4> QED BY <1>2, <4>1, <4>2
      <3> QED BY <3>1, <3>2
    <2>2. ASSUME NEW x \in Messages, NEW n \in NotificationReplicas
          PROVE  inbox'[n][x] + notices'[n][x] =< sends'[x]
      <3>1. n # s /\ n \in Subscribers OBVIOUS
      <3>2. inbox'[n][x] = inbox[n][x] BY <1>1, <3>1
      <3> QED BY <1>2, <3>2 DEF Inv, Deliveries
    <2> QED BY <1>2, <2>1, <2>2 DEF Inv, Deliveries
  <1>9. CancelThere' BY <1>2 DEF Inv, CancelThere
  <1>10. StatusMoves BY <1>2 DEF StatusMoves
  <1>11. ASSUME NEW a \in OrderReplicas, NEW x \in Messages, Pending(a, x)
         PROVE  (\E y \in OrderReplicas : Pending(y, x)') \/ Settled(event[x].order)'
    <2>1. CASE a # s \/ x # m
      <3>1. inbox'[a][x] = inbox[a][x] /\ setting'[a][x] = setting[a][x] BY <1>1, <1>6, <2>1
      <3> QED BY <1>11, <3>1 DEF Pending
    <2>2. CASE a = s /\ x = m /\ ~skip
      <3>1. v > 0 BY <1>3, <2>2 DEF v
      <3> QED BY <1>6, <2>2, <3>1 DEF Pending
    <2>3. CASE x = m /\ skip
      <3>1. status[event[m].order] = NewStatus(m) BY <1>1, <2>3, EventsOrder
      <3> QED BY <1>2, <2>3, <3>1 DEF Settled, NewStatus
    <2> QED BY <2>1, <2>2, <2>3
  <1>12. ReachInv' BY <1>2, <1>10, <1>11, ReachMoves
  <1> QED BY <1>2, <1>7, <1>8, <1>9, <1>10, <1>12, FlowMoves

(* A handler ends, with its status committed or not. *)
LEMMA HandlerEnds ==
  ASSUME Inv, NEW s \in OrderReplicas, NEW m \in Messages, setting[s][m] > 0,
         setting' = [setting EXCEPT ![s][m] = @ - 1],
         UNCHANGED <<busVars, event, sends, cancelling, notices>>,
         status' \in [Orders -> OrderStatuses \cup {"absent"}],
         faults' \in 0..MaxFaults,
         lost' \subseteq Messages, lost \subseteq lost', StatusMoves,
         m \in lost' \/ Settled(event[m].order)'
  PROVE  FlowTypeOK' /\ Deliveries' /\ CancelThere' /\ ReachInv'
  <1> USE Numbers, FlowTypes
  <1> DEFINE v == setting[s][m] - 1
  <1>1. setting[s][m] \in 0..MaxSends /\ v \in 0..MaxSends /\ v =< setting[s][m]
    BY Counted
  <1>2. setting' = [setting EXCEPT ![s][m] = v] OBVIOUS
  <1> HIDE DEF v
  <1>3. /\ setting' \in [OrderReplicas -> [Messages -> 0..MaxSends]] /\ setting'[s][m] = v
        /\ \A a \in OrderReplicas, b \in Messages : a # s \/ b # m => setting'[a][b] = setting[a][b]
    BY <1>1, <1>2, OneCell
  <1>4. FlowTypeOK' BY <1>3 DEF Inv, TypeOK, FlowTypeOK, BusTypeOK, busVars
  <1>5. ASSUME NEW a \in OrderReplicas, NEW x \in Messages
        PROVE  setting'[a][x] =< setting[a][x]
    <2>1. setting[a][x] \in 0..MaxSends BY Counted
    <2> QED BY <1>1, <1>3, <2>1
  <1>6. Deliveries'
    <2>1. ASSUME NEW x \in Messages, NEW a \in OrderReplicas
          PROVE  inbox'[a][x] + setting'[a][x] =< sends'[x]
      <3>1. /\ inbox[a][x] \in Nat /\ setting[a][x] \in 0..MaxSends /\ sends[x] \in 0..MaxSends
            /\ setting'[a][x] \in 0..MaxSends
        BY <1>3, Counted
      <3>2. inbox[a][x] + setting[a][x] =< sends[x] BY DEF Inv, Deliveries
      <3>3. inbox' = inbox /\ sends' = sends BY DEF busVars
      <3> QED BY <1>5, <3>1, <3>2, <3>3
    <2> QED BY <2>1 DEF Inv, Deliveries, busVars
  <1>7. CancelThere'
    <2>1. cancelling' = cancelling OBVIOUS
    <2> QED BY <2>1 DEF Inv, CancelThere, StatusMoves
  <1>8. UNCHANGED <<inbox, sends, event>> BY DEF busVars
  <1>9. ASSUME NEW x \in Messages, x \notin lost', NEW a \in OrderReplicas, Pending(a, x)
        PROVE  (\E y \in OrderReplicas : Pending(y, x)') \/ Settled(event[x].order)'
    <2>1. CASE x = m BY <1>9, <2>1
    <2>2. CASE x # m
      <3>1. setting'[a][x] = setting[a][x] BY <1>3, <2>2
      <3> QED BY <1>8, <1>9, <3>1 DEF Pending
    <2> QED BY <2>1, <2>2
  <1>10. ReachInv' BY <1>8, <1>9, ReachMoves
  <1> QED BY <1>4, <1>6, <1>7, <1>10

(* The status committed for an order is that of a stored payment of it. *)
LEMMA CommitsItsPayment ==
  ASSUME Inv, NEW s \in OrderReplicas, NEW m \in Messages, CommitStatus(s, m)
  PROVE  /\ event[m] # None /\ event[m].order = orderOf[m]
         /\ orderOf[m] \in Orders /\ status[orderOf[m]] # "absent"
         /\ status' = [status EXCEPT ![orderOf[m]] = NewStatus(m)]
         /\ \/ NewStatus(m) = "PAID" /\ HasPayment(orderOf[m], "SUCCEEDED")
            \/ NewStatus(m) = "FAILED" /\ HasPayment(orderOf[m], "FAILED")
  <1> USE Numbers
  <1>1. setting[s][m] > 0 /\ status' = [status EXCEPT ![event[m].order] = NewStatus(m)]
    BY DEF CommitStatus
  <1>2. event[m] # None BY <1>1, Counted
  <1>3. /\ event[m].order = orderOf[m] /\ orderOf[m] \in Orders
        /\ status[orderOf[m]] # "absent"
    BY <1>2, EventsOrder
  <1> DEFINE row == payments[keyOf[m]]
  <1>4. /\ keyOf[m] \in AllKeys /\ row \in Row /\ row.order = orderOf[m]
        /\ event[m].type = EventTypeFor(row.status)
    BY <1>2 DEF EventInv, Inv, TypeOK
  <1>5. row = [order |-> orderOf[m], status |-> row.status] /\ row.status \in {"SUCCEEDED", "FAILED"}
    BY <1>4 DEF Row
  <1> HIDE DEF row
  <1>6. HasPayment(orderOf[m], row.status)
    BY <1>4, <1>5 DEF HasPayment, row
  <1>7. NewStatus(m) = IF row.status = "SUCCEEDED" THEN "PAID" ELSE "FAILED"
    BY <1>4, <1>5 DEF NewStatus, EventTypeFor
  <1> QED BY <1>1, <1>2, <1>3, <1>5, <1>6, <1>7

(* So is the change of its order. *)
LEMMA CommitMoves ==
  ASSUME Inv, NEW s \in OrderReplicas, NEW m \in Messages, CommitStatus(s, m)
  PROVE  /\ StatusMoves /\ Settled(event[m].order)'
         /\ status' \in [Orders -> OrderStatuses \cup {"absent"}]
  <1> USE FlowTypes
  <1> DEFINE new == NewStatus(m)
             o == orderOf[m]
  <1>1. /\ event[m].order = o /\ o \in Orders /\ status[o] # "absent"
        /\ status' = [status EXCEPT ![o] = new]
        /\ \/ new = "PAID" /\ HasPayment(o, "SUCCEEDED")
           \/ new = "FAILED" /\ HasPayment(o, "FAILED")
    BY CommitsItsPayment
  <1>2. event' = event BY DEF CommitStatus
  <1> HIDE DEF new, o
  <1>3. new \in {"PAID", "FAILED"} BY <1>1
  <1>4. /\ status' \in [Orders -> OrderStatuses \cup {"absent"}] /\ status'[o] = new
        /\ \A x \in Orders \ {o} : status'[x] = status[x]
    BY <1>1, <1>3 DEF OrderStatuses
  <1>5. StatusMoves BY <1>1, <1>4 DEF StatusMoves
  <1> QED BY <1>1, <1>2, <1>3, <1>4, <1>5 DEF Settled

(* What a handler writes is the status of a stored payment of its order. *)
LEMMA CommitStatusInv ==
  ASSUME Inv, NEW s \in OrderReplicas, NEW m \in Messages, CommitStatus(s, m), UNCHANGED checkoutVars
  PROVE  Inv'
  <1>1. /\ setting[s][m] > 0 /\ setting' = [setting EXCEPT ![s][m] = @ - 1]
        /\ UNCHANGED <<busVars, event, sends, cancelling, notices, faults, lost>>
    BY DEF CommitStatus
  <1>2. /\ StatusMoves /\ Settled(event[m].order)'
        /\ status' \in [Orders -> OrderStatuses \cup {"absent"}]
    BY CommitMoves
  <1>3. faults' \in 0..MaxFaults /\ lost' \subseteq Messages /\ lost \subseteq lost'
    BY <1>1, FlowTypes
  <1>4. FlowTypeOK' /\ Deliveries' /\ CancelThere' /\ ReachInv'
    BY <1>1, <1>2, <1>3, HandlerEnds
  <1> QED BY <1>1, <1>2, <1>4, FlowMoves

(* A handler that fails forgets its delivery. *)
LEMMA HandlerFailsInv ==
  ASSUME Inv, NEW s \in OrderReplicas, NEW m \in Messages, HandlerFails(s, m), UNCHANGED checkoutVars
  PROVE  Inv'
  <1> USE Numbers, FlowTypes
  <1>1. /\ setting[s][m] > 0 /\ setting' = [setting EXCEPT ![s][m] = @ - 1]
        /\ UNCHANGED <<busVars, event, sends, status, cancelling, notices>>
        /\ faults < MaxFaults /\ faults' = faults + 1 /\ lost' = lost \cup {m}
    BY DEF HandlerFails, Fault
  <1>2. faults' \in 0..MaxFaults /\ lost' \subseteq Messages BY <1>1
  <1>3. StatusMoves BY <1>1 DEF StatusMoves
  <1>4. status' \in [Orders -> OrderStatuses \cup {"absent"}] /\ lost \subseteq lost' /\ m \in lost'
    BY <1>1
  <1>5. FlowTypeOK' /\ Deliveries' /\ CancelThere' /\ ReachInv'
    BY <1>1, <1>2, <1>3, <1>4, HandlerEnds
  <1> QED BY <1>1, <1>3, <1>5, FlowMoves

(* A delivery leaves the inbox and is counted as a notice. *)
LEMMA NotifyInv ==
  ASSUME Inv, NEW n \in NotificationReplicas, NEW m \in Messages, Notify(n, m), UNCHANGED checkoutVars
  PROVE  Inv'
  <1> USE Numbers, FlowTypes
  <1>1. /\ BusTypeOK' /\ event[m] # None
        /\ inbox[n][m] \in Nat /\ inbox[n][m] > 0 /\ inbox'[n][m] = inbox[n][m] - 1
        /\ \A a \in Subscribers, b \in Messages : a # n \/ b # m => inbox'[a][b] = inbox[a][b]
    BY Takes DEF Notify
  <1> DEFINE v == notices[n][m] + 1
  <1>2. notices' = [notices EXCEPT ![n][m] = v] /\ UNCHANGED <<event, sends, status, setting, cancelling, faults, lost>>
    BY DEF Notify, SendNotification
  <1>3. notices[n][m] \in 0..MaxSends /\ sends[m] \in 0..MaxSends BY Counted
  <1>4. inbox[n][m] + notices[n][m] =< sends[m] BY DEF Inv, Deliveries
  <1>5. v \in 0..MaxSends /\ v = notices[n][m] + 1 BY <1>1, <1>3, <1>4
  <1> HIDE DEF v
  <1>6. /\ notices' \in [NotificationReplicas -> [Messages -> 0..MaxSends]] /\ notices'[n][m] = v
        /\ \A a \in NotificationReplicas, b \in Messages :
             a # n \/ b # m => notices'[a][b] = notices[a][b]
    BY <1>2, <1>5, OneCell
  <1>7. FlowTypeOK' BY <1>1, <1>2, <1>6 DEF Inv, TypeOK, FlowTypeOK
  <1>8. Deliveries'
    <2>1. ASSUME NEW x \in Messages, NEW a \in NotificationReplicas
          PROVE  inbox'[a][x] + notices'[a][x] =< sends'[x]
      <3>1. CASE a = n /\ x = m BY <1>1, <1>2, <1>3, <1>4, <1>5, <1>6, <3>1
      <3>2. CASE a # n \/ x # m
        <4>1. inbox[a][x] + notices[a][x] =< sends[x] BY DEF Inv, Deliveries
        <4>2. inbox'[a][x] = inbox[a][x] /\ notices'[a][x] = notices[a][x] BY <1>1, <1>6, <3>2
        <4> QED BY <1>2, <4>1, <4>2
      <3> QED BY <3>1, <3>2
    <2>2. ASSUME NEW x \in Messages, NEW a \in OrderReplicas
          PROVE  inbox'[a][x] + setting'[a][x] =< sends'[x]
      <3>1. a # n /\ a \in Subscribers OBVIOUS
      <3>2. inbox'[a][x] = inbox[a][x] BY <1>1, <3>1
      <3> QED BY <1>2, <3>2 DEF Inv, Deliveries
    <2> QED BY <1>2, <2>1, <2>2 DEF Inv, Deliveries
  <1>9. CancelThere' BY <1>2 DEF Inv, CancelThere
  <1>10. StatusMoves BY <1>2 DEF StatusMoves
  <1>11. ASSUME NEW a \in OrderReplicas, NEW x \in Messages, Pending(a, x) PROVE Pending(a, x)'
    <2>1. a # n /\ a \in Subscribers OBVIOUS
    <2>2. inbox'[a][x] = inbox[a][x] BY <1>1, <2>1
    <2> QED BY <1>2, <1>11, <2>2 DEF Pending
  <1>12. ReachInv' BY <1>2, <1>10, <1>11, ReachMoves
  <1> QED BY <1>2, <1>7, <1>8, <1>9, <1>10, <1>12, FlowMoves

(* A restart loses deliveries and handlers; it makes none. *)
LEMMA RestartInv ==
  ASSUME Inv, NEW s \in Subscribers, Restart(s), UNCHANGED checkoutVars
  PROVE  Inv'
  <1> USE Numbers, FlowTypes
  <1> DEFINE zero == [m \in Messages |-> 0]
  <1>1. /\ faults < MaxFaults /\ faults' = faults + 1
        /\ connected' = [connected EXCEPT ![s] = redisUp]
        /\ listening' = [listening EXCEPT ![s] = redisUp]
        /\ inbox' = [inbox EXCEPT ![s] = zero]
        /\ setting' = [x \in OrderReplicas |-> IF x = s THEN zero ELSE setting[x]]
        /\ notices' = [x \in NotificationReplicas |-> IF x = s THEN zero ELSE notices[x]]
        /\ lost' = lost \cup
             {m \in Messages : s \in OrderReplicas /\ (inbox[s][m] > 0 \/ setting[s][m] > 0)}
        /\ UNCHANGED <<redisUp, reached, event, sends, status, cancelling>>
    BY DEF Restart, Fault
  <1>2. /\ zero \in [Messages -> Nat] /\ zero \in [Messages -> 0..MaxSends]
        /\ \A m \in Messages : zero[m] = 0
    OBVIOUS
  <1> HIDE DEF zero
  <1>3. /\ inbox'[s] = zero /\ \A x \in Subscribers \ {s} : inbox'[x] = inbox[x]
        /\ \A x \in OrderReplicas : setting'[x] = IF x = s THEN zero ELSE setting[x]
        /\ \A x \in NotificationReplicas : notices'[x] = IF x = s THEN zero ELSE notices[x]
    BY <1>1
  <1>4. /\ inbox' \in [Subscribers -> [Messages -> Nat]]
        /\ setting' \in [OrderReplicas -> [Messages -> 0..MaxSends]]
        /\ notices' \in [NotificationReplicas -> [Messages -> 0..MaxSends]]
        /\ faults' \in 0..MaxFaults /\ lost' \subseteq Messages
    BY <1>1, <1>2
  <1>5. BusTypeOK' BY <1>1, <1>4 DEF BusTypeOK
  <1>6. FlowTypeOK' BY <1>1, <1>4, <1>5 DEF Inv, TypeOK, FlowTypeOK
  <1>7. Deliveries'
    <2>1. ASSUME NEW m \in Messages, NEW a \in OrderReplicas
          PROVE  inbox'[a][m] + setting'[a][m] =< sends'[m]
      <3>1. sends[m] \in 0..MaxSends BY Counted
      <3>2. CASE a = s BY <1>1, <1>2, <1>3, <3>1, <3>2
      <3>3. CASE a # s BY <1>1, <1>3, <3>3 DEF Inv, Deliveries
      <3> QED BY <3>2, <3>3
    <2>2. ASSUME NEW m \in Messages, NEW a \in NotificationReplicas
          PROVE  inbox'[a][m] + notices'[a][m] =< sends'[m]
      <3>1. sends[m] \in 0..MaxSends BY Counted
      <3>2. CASE a = s BY <1>1, <1>2, <1>3, <3>1, <3>2
      <3>3. CASE a # s BY <1>1, <1>3, <3>3 DEF Inv, Deliveries
      <3> QED BY <3>2, <3>3
    <2> QED BY <1>1, <2>1, <2>2 DEF Inv, Deliveries
  <1>8. CancelThere' BY <1>1 DEF Inv, CancelThere
  <1>9. StatusMoves BY <1>1 DEF StatusMoves
  <1>10. ASSUME NEW m \in Messages, m \notin lost', NEW a \in OrderReplicas, Pending(a, m)
         PROVE  Pending(a, m)'
    <2>1. a # s BY <1>1, <1>10 DEF Pending
    <2>2. inbox'[a] = inbox[a] /\ setting'[a] = setting[a] BY <1>3, <2>1
    <2> QED BY <1>10, <2>2 DEF Pending
  <1>11. ReachInv'
    <2>1. lost \subseteq lost' BY <1>1
    <2> QED BY <1>1, <1>9, <1>10, <2>1, ReachMoves
  <1> QED BY <1>1, <1>6, <1>7, <1>8, <1>9, <1>11, FlowMoves

(* A cancellation writes CANCELLED, and to an order that exists. *)
LEMMA CancelMoves ==
  ASSUME Inv, NEW c \in Cancels, CommitCancel(c)
  PROVE  StatusMoves /\ status' \in [Orders -> OrderStatuses \cup {"absent"}]
  <1> DEFINE o == cancelling[c]
  <1>1. o \in Orders /\ status' = [status EXCEPT ![o] = "CANCELLED"] BY DEF CommitCancel
  <1>2. status[o] # "absent" BY <1>1 DEF Inv, CancelThere
  <1>3. status \in [Orders -> OrderStatuses \cup {"absent"}] BY FlowTypes
  <1> HIDE DEF o
  <1>4. /\ status' \in [Orders -> OrderStatuses \cup {"absent"}] /\ status'[o] = "CANCELLED"
        /\ \A x \in Orders \ {o} : status'[x] = status[x]
    BY <1>1, <1>3 DEF OrderStatuses
  <1> QED BY <1>2, <1>4 DEF StatusMoves

(* Once a cancellation is done it is about no order. *)
LEMMA CancelInv ==
  ASSUME Inv, NEW c \in Cancels, CommitCancel(c) \/ (\E o \in Orders : LoadCancel(c, o)),
         UNCHANGED checkoutVars
  PROVE  Inv'
  <1> USE Numbers, FlowTypes
  <1>1. CASE \E o \in Orders : LoadCancel(c, o)
    <2>1. PICK o \in Orders : LoadCancel(c, o) BY <1>1
    <2>2. /\ status[o] # "absent" /\ cancelling' = [cancelling EXCEPT ![c] = o]
          /\ UNCHANGED <<busVars, event, sends, status, setting, notices, faults, lost>>
      BY <2>1 DEF LoadCancel
    <2>3. FlowTypeOK' BY <2>2 DEF Inv, TypeOK, FlowTypeOK, BusTypeOK, busVars
    <2>4. Deliveries' BY <2>2 DEF Inv, Deliveries, busVars
    <2>5. CancelThere' BY <2>2 DEF Inv, CancelThere
    <2>6. StatusMoves BY <2>2 DEF StatusMoves
    <2>7. UNCHANGED <<inbox, setting, sends, lost, event>> BY <2>2 DEF busVars
    <2>8. ReachInv' BY <2>2, <2>7 DEF Inv, ReachInv, Pending, Settled
    <2> QED BY <2>2, <2>3, <2>4, <2>5, <2>6, <2>8, FlowMoves
  <1>2. CASE CommitCancel(c)
    <2>1. /\ cancelling' = [cancelling EXCEPT ![c] = Done]
          /\ UNCHANGED <<busVars, event, sends, setting, notices, faults, lost>>
      BY <1>2 DEF CommitCancel
    <2>2. StatusMoves /\ status' \in [Orders -> OrderStatuses \cup {"absent"}]
      BY <1>2, CancelMoves
    <2>3. /\ cancelling' \in [Cancels -> Orders \cup {None, Done}]
          /\ cancelling'[c] = Done /\ \A x \in Cancels \ {c} : cancelling'[x] = cancelling[x]
      BY <2>1
    <2>4. FlowTypeOK' BY <2>1, <2>2, <2>3 DEF Inv, TypeOK, FlowTypeOK, BusTypeOK, busVars
    <2>5. Deliveries' BY <2>1 DEF Inv, Deliveries, busVars
    <2>6. CancelThere'
      <3>1. ASSUME NEW x \in Cancels, cancelling'[x] \in Orders
            PROVE  status'[cancelling'[x]] # "absent"
        <4>1. x # c BY <2>3, <3>1, EventFlowAssumption
        <4> QED BY <2>2, <2>3, <3>1, <4>1 DEF Inv, CancelThere, StatusMoves
      <3> QED BY <3>1 DEF CancelThere
    <2>7. UNCHANGED <<inbox, setting, sends, lost, event>> BY <2>1 DEF busVars
    <2>8. ReachInv' BY <2>2, <2>7, ReachMoves DEF Pending
    <2> QED BY <2>1, <2>2, <2>4, <2>5, <2>6, <2>8, FlowMoves
  <1> QED BY <1>1, <1>2

(* Every step keeps the invariant. *)
LEMMA NextInv == Inv /\ [Next]_vars => Inv'
  <1> SUFFICES ASSUME Inv, [Next]_vars PROVE Inv'
    OBVIOUS
  <1>1. CASE Shopper
    BY <1>1, SubmitInv, OrderAnsweredInv, FraudAnsweredInv, PaymentAnsweredInv, GiveUpInv, NewKeyInv
    DEF Shopper
  <1>2. CASE \E s \in Submits : CreateOrder(s) BY <1>2, CreateOrderInv
  <1>3. CASE \E r \in Calls, o \in Orders, k \in CallKeys : Call(r, o, k) BY <1>3, CallInv
  <1>4. CASE \E r \in Requests : Pay(r)
    BY <1>4, LookUpKeyInv, ChargeInv, SavePaymentInv DEF Pay
  <1>5. CASE FlowNext /\ UNCHANGED checkoutVars
    BY <1>5, HandOverInv, HandleInv, CommitStatusInv, HandlerFailsInv, NotifyInv, RestartInv,
       CancelInv
    DEF FlowNext, Deliver
  <1>6. CASE UNCHANGED vars
    <2>1. UNCHANGED <<busVars, flowVars, checkoutVars, event, status>> BY <1>6 DEF vars, flowVars
    <2>2. FlowTypeOK' /\ Deliveries' /\ CancelThere' /\ ReachInv' BY <2>1, FlowStays
    <2>3. StatusMoves BY <2>1 DEF StatusMoves
    <2> QED BY <2>1, <2>2, <2>3, FlowMoves
  <1> QED BY <1>1, <1>2, <1>3, <1>4, <1>5, <1>6 DEF Next

(* So it holds in every state of every behaviour. *)
LEMMA AlwaysInv == Spec => []Inv
  BY InitInv, NextInv, PTL DEF Spec

-----------------------------------------------------------------------------
(* Type correctness of the page, the services, the bus and the handlers; in particular
   an order has a row exactly when its request was answered so, and no handler counts
   more deliveries than were made. *)
THEOREM CheckoutTypes == Spec => []TypeOK
  <1>1. Inv => TypeOK BY DEF Inv
  <1> QED BY <1>1, AlwaysInv, PTL

(* A set whose elements are all equal counts one at most. *)
LEMMA AtMostOne ==
  ASSUME NEW S, \A x, y \in S : x = y
  PROVE  Cardinality(S) =< 1
  <1>1. CASE S = {} BY <1>1, FS_EmptySet
  <1>2. CASE S # {}
    <2>1. PICK x : x \in S BY <1>2
    <2>2. S = {x} BY <2>1
    <2> QED BY <2>2, FS_Singleton
  <1> QED BY <1>1, <1>2

(* With Stripe behind the payment service, money is taken once at most under one key, however
   often requests are repeated after time-outs and errors, and by whomever; and an order is
   PAID only if money was taken for that very order. *)
THEOREM OnePurchase ==
  ASSUME UseMock = FALSE
  PROVE  Spec => []OnePurchasePerKey
  <1>1. Inv => OnePurchasePerKey
    <2> SUFFICES ASSUME Inv PROVE OnePurchasePerKey
      OBVIOUS
    <2> USE Numbers
    <2>1. ASSUME NEW k \in AllKeys PROVE Cardinality(taken \cap Under(k)) =< 1
      <3>1. ASSUME NEW x \in taken \cap Under(k), NEW y \in taken \cap Under(k) PROVE x = y
        <4>1. x \in taken /\ y \in taken /\ keyOf[x] = k /\ keyOf[y] = k BY DEF Under
        <4>2. PICK i \in intents : i.key = k /\ i.tx = x BY <4>1 DEF Inv, BankInv
        <4>3. PICK j \in intents : j.key = k /\ j.tx = y BY <4>1 DEF Inv, BankInv
        <4>4. i = j BY <4>2, <4>3 DEF Inv, BankInv
        <4> QED BY <4>2, <4>3, <4>4
      <3> QED BY <3>1, AtMostOne
    <2>2. ASSUME NEW o \in Orders, status[o] = "PAID" PROVE \E r \in taken : orderOf[r] = o
      <3>1. PICK k \in AllKeys : payments[k] = [order |-> o, status |-> "SUCCEEDED"]
        BY <2>2 DEF Inv, PaidInv, HasPayment
      <3>2. /\ payments[k] # None /\ payments[k].order = o /\ payments[k].status = "SUCCEEDED"
        BY <3>1, NoneAssumption DEF Row
      <3> QED BY <3>2 DEF Inv, RowInv
    <2> QED BY <2>1, <2>2 DEF OnePurchasePerKey
  <1> QED BY <1>1, AlwaysInv, PTL

(* When the page says that the payment was processed after the first request under its
   key, money was taken for that very order, with either provider. *)
THEOREM FirstThanksIsPaid == Spec => []FirstShownIsPaid
  <1>1. Inv => FirstShownIsPaid
    <2> SUFFICES ASSUME Inv, NEW s \in shown, \A r \in Under(keyOf[s]) : r >= s
                 PROVE  s \in taken /\ payments[keyOf[s]] = [order |-> s, status |-> "SUCCEEDED"]
      BY DEF FirstShownIsPaid
    <2>1. \A r \in Requests : keyOf[r] = keyOf[s] => r >= s BY DEF Under
    <2> QED BY <2>1 DEF Inv, FirstPaid
  <1> QED BY <1>1, AlwaysInv, PTL

(* Where a notification was made, the event was stored and sent that often. *)
LEMMA Noticed ==
  ASSUME Inv, NEW n \in NotificationReplicas, NEW m \in Messages, notices[n][m] > 0
  PROVE  event[m] # None /\ notices[n][m] =< sends[m]
  <1>1. inbox[n][m] \in Nat /\ notices[n][m] \in 0..MaxSends /\ sends[m] \in 0..MaxSends
    BY Counted
  <1>2. inbox[n][m] + notices[n][m] =< sends[m] /\ (sends[m] > 0 => event[m] # None)
    BY DEF Inv, Deliveries
  <1> QED BY <1>1, <1>2, Numbers

(* However many requests race under a key, and whichever replicas tell of it, the buyer is told
   of one payment under it, the stored one, and as it is stored; and no more often by a replica
   than it was sent. *)
THEOREM NoticesTellPayments == Spec => []NoticesAgree
  <1>1. Inv => NoticesAgree
    <2> SUFFICES ASSUME Inv, NEW n1 \in NotificationReplicas, NEW n2 \in NotificationReplicas,
                        NEW m1 \in Messages, NEW m2 \in Messages,
                        notices[n1][m1] > 0, notices[n2][m2] > 0
                 PROVE  /\ notices[n1][m1] =< sends[m1]
                        /\ payments[keyOf[m1]].order = event[m1].order
                        /\ payments[keyOf[m1]].status = "SUCCEEDED"
                             <=> event[m1].type = "PaymentCompleted"
                        /\ keyOf[m1] = keyOf[m2] => m1 = m2
      BY DEF NoticesAgree
    <2>1. event[m1] # None /\ event[m2] # None /\ notices[n1][m1] =< sends[m1] BY Noticed
    <2>2. /\ event[m1].order = orderOf[m1] /\ payments[keyOf[m1]].order = orderOf[m1]
          /\ event[m1].type = EventTypeFor(payments[keyOf[m1]].status)
      BY <2>1 DEF Inv, EventInv
    <2>3. keyOf[m1] = keyOf[m2] => m1 = m2 BY <2>1 DEF Inv, OneEvent
    <2> QED BY <2>1, <2>2, <2>3 DEF EventTypeFor
  <1> QED BY <1>1, AlwaysInv, PTL

(* A payment whose event was handed over, and of which no delivery to the order service was
   lost, has its order settled once no handler has it before it. *)
THEOREM HandedOverReaches == Spec => []PaymentsReachOrders
  <1>1. Inv => PaymentsReachOrders
    <2> SUFFICES ASSUME Inv, NEW m \in Messages, m \notin lost, sends[m] > 0,
                        \A s \in OrderReplicas : inbox[s][m] = 0 /\ setting[s][m] = 0
                 PROVE  status[event[m].order] \notin {"absent", "PENDING"}
      BY DEF PaymentsReachOrders
    <2>1. \A s \in OrderReplicas : ~Pending(s, m) BY DEF Pending
    <2> QED BY <2>1 DEF Inv, ReachInv, Settled
  <1> QED BY <1>1, AlwaysInv, PTL

(* What a step makes of an order's status, as StatusFollowsPayment says of every step. *)
FollowsPayment ==
  \A o \in Orders : status'[o] # status[o] =>
    /\ status'[o] = "PAID" => HasPayment(o, "SUCCEEDED")
    /\ status'[o] = "FAILED" => HasPayment(o, "FAILED")
    /\ {status[o], status'[o]} = {"PAID", "FAILED"} =>
         HasPayment(o, "SUCCEEDED") /\ HasPayment(o, "FAILED")

(* The statuses that handlers and cancellations write are those of stored payments. *)
LEMMA MovesFollow == ASSUME Inv, StatusMoves PROVE FollowsPayment
  <1> SUFFICES ASSUME NEW o \in Orders, status'[o] # status[o]
               PROVE  /\ status'[o] = "PAID" => HasPayment(o, "SUCCEEDED")
                      /\ status'[o] = "FAILED" => HasPayment(o, "FAILED")
                      /\ {status[o], status'[o]} = {"PAID", "FAILED"} =>
                           HasPayment(o, "SUCCEEDED") /\ HasPayment(o, "FAILED")
    BY DEF FollowsPayment
  <1>1. /\ status'[o] = "PAID" => HasPayment(o, "SUCCEEDED")
        /\ status'[o] = "FAILED" => HasPayment(o, "FAILED")
    BY DEF StatusMoves
  <1>2. /\ status[o] = "PAID" => HasPayment(o, "SUCCEEDED")
        /\ status[o] = "FAILED" => HasPayment(o, "FAILED")
    BY DEF Inv, PaidInv
  <1>3. {status[o], status'[o]} = {"PAID", "FAILED"} =>
          (status[o] = "PAID" \/ status'[o] = "PAID") /\ (status[o] = "FAILED" \/ status'[o] = "FAILED")
    OBVIOUS
  <1> QED BY <1>1, <1>2, <1>3

(* Repeated, reordered or late, events give an order no other status than that of a payment
   stored for it; PAID and FAILED take turns only where payments of both kinds are stored. *)
THEOREM StatusTellsPayment == Spec => StatusFollowsPayment
  <1>1. ASSUME Inv, Next PROVE FollowsPayment
    <2> USE Numbers
    <2>0. status \in [Orders -> OrderStatuses \cup {"absent"}] BY <1>1, FlowTypes
    <2>1. ASSUME UNCHANGED status PROVE FollowsPayment
      BY <2>1 DEF FollowsPayment
    <2>2. CASE Shopper
      <3>1. UNCHANGED status
        BY <2>2 DEF Shopper, Submit, OrderAnswered, FraudAnswered, PaymentAnswered, GiveUp, NewKey,
                    flowVars
      <3> QED BY <2>1, <3>1
    <2>3. CASE \E s \in Submits : CreateOrder(s)
      <3>1. PICK s \in Submits : CreateOrder(s) BY <2>3
      <3>2. CASE UNCHANGED status BY <2>1, <3>2
      <3>3. CASE status' = [status EXCEPT ![s] = "PENDING"]
        <4>1. status'[s] = "PENDING" /\ \A o \in Orders \ {s} : status'[o] = status[o]
          BY <2>0, <3>3
        <4>2. ASSUME NEW o \in Orders, status'[o] # status[o]
              PROVE  status'[o] = "PENDING" /\ {status[o], status'[o]} # {"PAID", "FAILED"}
          <5>1. o = s /\ status'[o] = "PENDING" BY <4>1, <4>2
          <5> QED BY <5>1
        <4> QED BY <4>2 DEF FollowsPayment
      <3> QED BY <3>1, <3>2, <3>3 DEF CreateOrder
    <2>4. CASE \E r \in Calls, o \in Orders, k \in CallKeys : Call(r, o, k)
      BY <2>1, <2>4 DEF Call, flowVars
    <2>5. CASE \E r \in Requests : Pay(r)
      BY <2>1, <2>5 DEF Pay, LookUpKey, Charge, SavePayment, flowVars
    <2>6. ASSUME NEW s \in OrderReplicas, NEW m \in Messages, CommitStatus(s, m)
          PROVE  FollowsPayment
      BY <1>1, <2>6, CommitMoves, MovesFollow
    <2>7. ASSUME NEW c \in Cancels, CommitCancel(c) PROVE FollowsPayment
      BY <1>1, <2>7, CancelMoves, MovesFollow
    <2>8. CASE FlowNext
      <3>1. \/ \E s \in OrderReplicas, m \in Messages : CommitStatus(s, m)
            \/ \E c \in Cancels : CommitCancel(c)
            \/ UNCHANGED status
        BY <2>8 DEF FlowNext, Deliver, HandOver, Handle, Notify, HandlerFails, Restart, LoadCancel
      <3> QED BY <2>1, <2>6, <2>7, <3>1
    <2> QED BY <1>1, <2>2, <2>3, <2>4, <2>5, <2>8 DEF Next
  <1>2. Inv /\ [Next]_vars => [FollowsPayment]_vars
    BY <1>1
  <1>3. Spec => [][FollowsPayment]_vars
    BY <1>2, AlwaysInv, PTL DEF Spec
  <1> QED BY <1>3 DEF StatusFollowsPayment, FollowsPayment
=============================================================================
