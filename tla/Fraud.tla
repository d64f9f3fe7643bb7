------------------------------- MODULE Fraud --------------------------------
(***************************************************************************)
(* The fraud service: rule-based scoring of a transaction, the record each *)
(* replica keeps in memory, and the alert it publishes for what it flags.  *)
(* Checks come from the payment service, which knows only the amount, and  *)
(* from clients that fill in the whole request.  The event bus is seen by  *)
(* the listeners whose channels include the one alerts are published on.   *)
(***************************************************************************)
EXTENDS Integers, FiniteSets

CONSTANTS
  Transactions,  \* transactions, each checked once
  Replicas,      \* fraud service processes
  Amounts,       \* amounts of transactions
  Counts,        \* values of the two counters in a request; a missing one counts 0
  HighAmount, CriticalAmount,  \* HIGH_AMOUNT_THRESHOLD, CRITICAL_AMOUNT_THRESHOLD
  MaxVelocity,   \* MAX_VELOCITY_TX_PER_HOUR
  MaxFailed,     \* MAX_FAILED_ATTEMPTS
  RedisReliable,
  None

ASSUME FraudAssumption ==
  /\ Amounts \subseteq Int /\ Counts \subseteq Int
  /\ HighAmount \in Int /\ CriticalAmount \in Int
  /\ MaxVelocity \in Nat /\ MaxFailed \in Nat
  /\ RedisReliable \in BOOLEAN
  /\ None \notin Replicas

(* The processes that listen, with the channels each passes to start_listening. *)
Listening == [notification |-> {"orders", "payments", "fraud"},
              order        |-> {"payments", "PaymentCompleted", "PaymentFailed"}]
AlertChannel == "fraud_events"
AlertListeners == {l \in DOMAIN Listening : AlertChannel \in Listening[l]}

VARIABLES
  redisUp, connected, listening, reached, inbox,  \* the event bus
  pc,        \* transaction -> where its check is
  replica,   \* transaction -> the process that checks it
  facts,     \* transaction -> the fields of the request the rules read
  decision,  \* transaction -> the decision made
  records    \* replica -> transactions in its storage

fraudVars == <<pc, replica, facts, decision, records>>
vars == <<redisUp, connected, listening, reached, inbox, fraudVars>>

Bus == INSTANCE EventBus WITH
         Publishers <- Replicas, Subscribers <- AlertListeners, Messages <- Transactions

Facts == [amount : Int, velocity : Int, failures : Int, newAccount : BOOLEAN, abroad : BOOLEAN]

-----------------------------------------------------------------------------
(* The rules *)

AmountScore(f) ==
  IF f.amount >= CriticalAmount THEN 45
  ELSE IF f.amount >= HighAmount THEN 25 ELSE 0

(* The limit of 3 for moderate velocity is a literal in the code. *)
VelocityScore(f) ==
  IF f.velocity >= MaxVelocity THEN 35
  ELSE IF f.velocity >= 3 THEN 15 ELSE 0

AccountAgeScore(f) == IF f.newAccount THEN 20 ELSE 0

(* Fault: a run of failures that reaches the limit scores like a single one. *)
FailuresScoreDrops(f) == IF f.failures > 0 /\ f.failures < MaxFailed THEN 10 * f.failures
                                                                   ELSE 0
FailuresScore(f) ==
  IF f.failures >= MaxFailed THEN 40
  ELSE IF f.failures > 0 THEN 10 * f.failures ELSE 0

GeolocationScore(f) == IF f.abroad THEN 25 ELSE 0

Score(f) ==
  LET total == AmountScore(f) + VelocityScore(f) + AccountAgeScore(f)
                 + FailuresScore(f) + GeolocationScore(f)
  IN IF total > 100 THEN 100 ELSE total

(* Fault: the scores from 25 to 49 have a risk level but no decision. *)
DecisionWithGap(score) ==
  IF score >= 80 THEN "REJECT" ELSE IF score >= 50 THEN "REVIEW"
  ELSE IF score < 25 THEN "APPROVE" ELSE "none"

DecisionFor(score) ==
  IF score >= 80 THEN "REJECT" ELSE IF score >= 25 THEN "REVIEW" ELSE "APPROVE"

-----------------------------------------------------------------------------

Checked == {t \in Transactions : pc[t] # "idle"}

TypeOK ==
  /\ Bus!BusTypeOK
  /\ pc \in [Transactions -> {"idle", "publish", "answered", "lost"}]
  /\ replica \in [Transactions -> Replicas \cup {None}]
  /\ decision \in [Transactions -> {"APPROVE", "REVIEW", "REJECT", "none"}]
  /\ facts \in [Transactions -> Facts \cup {None}]
  /\ \A t \in Transactions : t \in Checked <=> decision[t] # "none"
  /\ \A g \in Replicas : records[g] \subseteq {t \in Checked : replica[t] = g}

Init ==
  /\ Bus!BusInit
  /\ pc = [t \in Transactions |-> "idle"]
  /\ replica = [t \in Transactions |-> None]
  /\ facts = [t \in Transactions |-> None]
  /\ decision = [t \in Transactions |-> "none"]
  /\ records = [g \in Replicas |-> {}]

Flagged(d) == d \in {"REVIEW", "REJECT"}

(* evaluate_transaction up to its first suspension: score, decide, save. *)
Evaluate(t, g, f) ==
  LET d == DecisionFor(Score(f))
  IN /\ pc[t] = "idle"
     /\ facts' = [facts EXCEPT ![t] = f]
     /\ decision' = [decision EXCEPT ![t] = d]
     /\ replica' = [replica EXCEPT ![t] = g]
     /\ records' = [records EXCEPT ![g] = @ \cup {t}]
     /\ pc' = [pc EXCEPT ![t] = IF Flagged(d) THEN "publish" ELSE "answered"]
     /\ UNCHANGED <<redisUp, connected, listening, reached, inbox>>

(* _check_fraud: the payment service sends no counters, no account age and no
   country of the client's address, so that their defaults apply. *)
CheckPayment(t) ==
  \E g \in Replicas, a \in Amounts :
    Evaluate(t, g, [amount |-> a, velocity |-> 0, failures |-> 0,
                    newAccount |-> FALSE, abroad |-> FALSE])

(* POST /fraud/check from anybody else, with any of the optional fields. *)
CheckInFull(t) ==
  \E g \in Replicas, a \in Amounts, v \in Counts, n \in Counts, young, far \in BOOLEAN :
    Evaluate(t, g, [amount |-> a, velocity |-> v, failures |-> n,
                    newAccount |-> young, abroad |-> far])

PublishAlert(t) ==
  /\ pc[t] = "publish"
  /\ Bus!Publish(replica[t], t)
  /\ pc' = [pc EXCEPT ![t] = "answered"]
  /\ UNCHANGED <<replica, facts, decision, records>>

(* A replica dies with its checks and its storage, and starts again. *)
Restart(g) ==
  /\ records[g] # {}
  /\ Bus!Connect(g)
  /\ records' = [records EXCEPT ![g] = {}]
  /\ pc' = [t \in Transactions |->
              IF replica[t] = g /\ pc[t] = "publish" THEN "lost" ELSE pc[t]]
  /\ UNCHANGED <<replica, facts, decision>>

RedisChanges == (Bus!RedisStops \/ Bus!RedisStarts) /\ UNCHANGED fraudVars

Next ==
  \/ \E t \in Transactions : CheckPayment(t) \/ CheckInFull(t) \/ PublishAlert(t)
  \/ \E g \in Replicas : Restart(g)
  \/ RedisChanges

Spec == Init /\ [][Next]_vars

-----------------------------------------------------------------------------
(* Properties *)

(* f is at least as risky as e in everything the rules look at. *)
AsRisky(f, e) ==
  /\ f.amount >= e.amount /\ f.velocity >= e.velocity /\ f.failures >= e.failures
  /\ e.newAccount => f.newAccount
  /\ e.abroad => f.abroad

Severity(d) == IF d = "REJECT" THEN 2 ELSE IF d = "REVIEW" THEN 1 ELSE 0

(* More risk never gets a milder decision, whichever replica decides: the rules
   overlap in bands, a band could fall below the one before it, and the cap of
   100 could hide it. *)
RiskIsMonotone ==
  \A t, s \in Checked :
    AsRisky(facts[t], facts[s]) => Severity(decision[t]) >= Severity(decision[s])
=============================================================================
