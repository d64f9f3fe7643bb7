---------------------------- MODULE FraudProofs -----------------------------
(***************************************************************************)
(* Proofs about Fraud, for any number of transactions and replicas and any *)
(* thresholds: its types, and that no checked transaction is treated more  *)
(* mildly than a less risky one, on any replica.                           *)
(***************************************************************************)
EXTENDS Fraud, TLAPS

(* The bus keeps its types when a replica publishes. *)
LEMMA BusPublishes ==
  ASSUME Bus!BusTypeOK, NEW g \in Replicas, NEW t \in Transactions, Bus!Publish(g, t)
  PROVE  Bus!BusTypeOK'
<1>1. CASE Bus!Accept(t)
  BY <1>1 DEF Bus!BusTypeOK, Bus!Accept
<1>2. CASE UNCHANGED Bus!busVars
  BY <1>2 DEF Bus!BusTypeOK, Bus!busVars
<1> QED
  BY <1>1, <1>2 DEF Bus!Publish

(* Types hold initially. *)
LEMMA InitTypes == Init => TypeOK
<1> SUFFICES ASSUME Init PROVE TypeOK
  OBVIOUS
<1>1. Bus!BusTypeOK
  BY DEF Init, Bus!BusInit, Bus!BusTypeOK
<1> QED
  BY <1>1 DEF Init, TypeOK, Checked

(* Whatever the counters and the amount, a score decides something. *)
LEMMA ScoreIsInt == \A f \in Facts : Score(f) \in Int
  BY FraudAssumption
  DEF Facts, Score, AmountScore, VelocityScore, AccountAgeScore, FailuresScore, GeolocationScore

(* Every score has a decision. *)
LEMMA DecisionTypes == \A s \in Int : DecisionFor(s) \in {"APPROVE", "REVIEW", "REJECT"}
  BY DEF DecisionFor

(* What a check writes down, whoever asked for it. *)
LEMMA EvaluateTypes ==
  ASSUME TypeOK, NEW t \in Transactions, NEW g \in Replicas, NEW f \in Facts,
         Evaluate(t, g, f)
  PROVE  TypeOK'
<1>1. DecisionFor(Score(f)) \in {"APPROVE", "REVIEW", "REJECT"}
  BY ScoreIsInt, DecisionTypes
<1>2. Bus!BusTypeOK'
  BY DEF TypeOK, Evaluate, Bus!BusTypeOK
<1>3. Checked' = Checked \cup {t}
  BY DEF TypeOK, Evaluate, Checked
<1>4. t \notin Checked
  BY DEF Evaluate, Checked
<1>5. /\ pc' \in [Transactions -> {"idle", "publish", "answered", "lost"}]
      /\ replica' \in [Transactions -> Replicas \cup {None}]
      /\ facts' \in [Transactions -> Facts \cup {None}]
  BY DEF TypeOK, Evaluate
<1>6. /\ decision' \in [Transactions -> {"APPROVE", "REVIEW", "REJECT", "none"}]
      /\ \A q \in Transactions : q \in Checked' <=> decision'[q] # "none"
  BY <1>1, <1>3 DEF TypeOK, Evaluate
<1>7. ASSUME NEW h \in Replicas, NEW q \in records'[h]
      PROVE  q \in Checked' /\ replica'[q] = h
  <2>1. CASE q = t /\ h = g
    BY <2>1, <1>3 DEF TypeOK, Evaluate
  <2>2. CASE q # t \/ h # g
    <3>1. q \in records[h]
      BY <2>2, <1>7 DEF Evaluate, TypeOK
    <3>2. q \in Checked /\ replica[q] = h
      BY <3>1 DEF TypeOK
    <3> QED
      BY <3>2, <1>3, <1>4 DEF TypeOK, Evaluate, Checked
  <2> QED
    BY <2>1, <2>2
<1>8. Checked' \subseteq Transactions
  BY <1>3 DEF Checked
<1> QED
  BY <1>2, <1>5, <1>6, <1>7, <1>8 DEF TypeOK

(* What a payment tells the fraud service is a well-formed request, and so is
   what anybody else does. *)
LEMMA ChecksEvaluate ==
  ASSUME NEW t \in Transactions, CheckPayment(t) \/ CheckInFull(t)
  PROVE  \E g \in Replicas, f \in Facts : Evaluate(t, g, f)
<1>1. CASE CheckPayment(t)
  <2>1. PICK g \in Replicas, a \in Amounts :
          Evaluate(t, g, [amount |-> a, velocity |-> 0, failures |-> 0,
                          newAccount |-> FALSE, abroad |-> FALSE])
    BY <1>1 DEF CheckPayment
  <2>2. [amount |-> a, velocity |-> 0, failures |-> 0,
         newAccount |-> FALSE, abroad |-> FALSE] \in Facts
    BY FraudAssumption DEF Facts
  <2> QED
    BY <2>1, <2>2
<1>2. CASE CheckInFull(t)
  <2>1. PICK g \in Replicas, a \in Amounts, v \in Counts, n \in Counts,
             young \in BOOLEAN, far \in BOOLEAN :
          Evaluate(t, g, [amount |-> a, velocity |-> v, failures |-> n,
                          newAccount |-> young, abroad |-> far])
    BY <1>2 DEF CheckInFull
  <2>2. [amount |-> a, velocity |-> v, failures |-> n,
         newAccount |-> young, abroad |-> far] \in Facts
    BY FraudAssumption DEF Facts
  <2> QED
    BY <2>1, <2>2
<1> QED
  BY <1>1, <1>2

(* The alert goes out on a bus that keeps its types, and to listeners that exist. *)
LEMMA PublishTypes ==
  ASSUME TypeOK, NEW t \in Transactions, PublishAlert(t)
  PROVE  TypeOK'
<1>1. t \in Checked
  BY DEF PublishAlert, Checked
<1>2. replica[t] \in Replicas \cup {None}
  BY DEF TypeOK
<1>3. Bus!BusTypeOK'
  <2>1. CASE Bus!Accept(t)
    BY <2>1 DEF TypeOK, Bus!BusTypeOK, Bus!Accept
  <2>2. CASE UNCHANGED Bus!busVars
    BY <2>2 DEF TypeOK, Bus!BusTypeOK, Bus!busVars
  <2> QED
    BY <2>1, <2>2 DEF PublishAlert, Bus!Publish
<1>4. Checked' = Checked
  BY DEF PublishAlert, Checked, TypeOK
<1> QED
  BY <1>3, <1>4 DEF TypeOK, PublishAlert

(* A restart empties the dictionary of one process and reconnects it. *)
LEMMA RestartTypes ==
  ASSUME TypeOK, NEW g \in Replicas, Restart(g)
  PROVE  TypeOK'
<1>1. Bus!BusTypeOK'
  BY DEF TypeOK, Restart, Bus!BusTypeOK, Bus!Connect
<1>2. Checked' = Checked
  BY DEF Restart, Checked, TypeOK
<1> QED
  BY <1>1, <1>2 DEF TypeOK, Restart

(* The fraud service and its connection to the bus keep their types. *)
LEMMA NextTypes == TypeOK /\ [Next]_vars => TypeOK'
<1> SUFFICES ASSUME TypeOK, [Next]_vars PROVE TypeOK'
  OBVIOUS
<1>1. ASSUME NEW t \in Transactions, CheckPayment(t) \/ CheckInFull(t) PROVE TypeOK'
  BY <1>1, ChecksEvaluate, EvaluateTypes
<1>2. ASSUME NEW t \in Transactions, PublishAlert(t) PROVE TypeOK'
  BY <1>2, PublishTypes
<1>3. ASSUME NEW g \in Replicas, Restart(g) PROVE TypeOK'
  BY <1>3, RestartTypes
<1>4. CASE RedisChanges
  <2>1. Bus!BusTypeOK'
    BY <1>4 DEF TypeOK, RedisChanges, Bus!RedisStops, Bus!RedisStarts, Bus!BusTypeOK
  <2> QED
    BY <1>4, <2>1 DEF TypeOK, RedisChanges, fraudVars, Checked
<1>5. CASE UNCHANGED vars
  BY <1>5 DEF TypeOK, vars, fraudVars, Checked, Bus!BusTypeOK
<1> QED
  BY <1>1, <1>2, <1>3, <1>4, <1>5 DEF Next

(* Type correctness of the fraud service: every check in progress or answered
   has a decision, and a replica's storage holds only its own checks. *)
THEOREM FraudTypes == Spec => []TypeOK
  BY InitTypes, NextTypes, PTL DEF Spec

-----------------------------------------------------------------------------
(* Monotonicity *)

(* Every decision is the one the rules give for the facts of its request. *)
Scored == \A t \in Checked : facts[t] \in Facts /\ decision[t] = DecisionFor(Score(facts[t]))

(* Nothing is decided at the start. *)
LEMMA InitScored == Init => Scored
  BY DEF Init, Scored, Checked

(* A check decides by the score of the facts that it stores. *)
LEMMA EvaluateScores ==
  ASSUME TypeOK, Scored, NEW t \in Transactions, NEW g \in Replicas, NEW f \in Facts,
         Evaluate(t, g, f)
  PROVE  Scored'
<1> SUFFICES ASSUME NEW q \in Checked'
             PROVE  facts'[q] \in Facts /\ decision'[q] = DecisionFor(Score(facts'[q]))
  BY DEF Scored
<1>1. CASE q = t
  BY <1>1 DEF Evaluate, TypeOK
<1>2. CASE q # t
  <2>1. q \in Checked
    BY <1>2 DEF Evaluate, TypeOK, Checked
  <2>2. facts'[q] = facts[q] /\ decision'[q] = decision[q]
    BY <1>2, <2>1 DEF Evaluate, TypeOK, Checked
  <2> QED
    BY <2>1, <2>2 DEF Scored
<1> QED
  BY <1>1, <1>2

(* No other step writes a decision or the facts behind it. *)
LEMMA NextScored == TypeOK /\ Scored /\ [Next]_vars => Scored'
<1> SUFFICES ASSUME TypeOK, Scored, [Next]_vars PROVE Scored'
  OBVIOUS
<1>1. ASSUME NEW t \in Transactions, CheckPayment(t) \/ CheckInFull(t) PROVE Scored'
  BY <1>1, ChecksEvaluate, EvaluateScores
<1>2. ASSUME UNCHANGED <<facts, decision>>, Checked' = Checked PROVE Scored'
  BY <1>2 DEF Scored
<1>3. ASSUME NEW t \in Transactions, PublishAlert(t) PROVE Scored'
  <2>1. Checked' = Checked
    BY <1>3 DEF PublishAlert, Checked, TypeOK
  <2> QED
    BY <1>2, <1>3, <2>1 DEF PublishAlert
<1>4. ASSUME NEW g \in Replicas, Restart(g) PROVE Scored'
  <2>1. Checked' = Checked
    BY <1>4 DEF Restart, Checked, TypeOK
  <2> QED
    BY <1>2, <1>4, <2>1 DEF Restart
<1>5. CASE RedisChanges \/ UNCHANGED vars
  BY <1>2, <1>5 DEF RedisChanges, vars, fraudVars, Checked
<1> QED
  BY <1>1, <1>3, <1>4, <1>5 DEF Next

(* No rule scores less for a riskier request. The failed payments below the limit
   score ten each, so that the limit may not be above five: with a limit of six,
   five failures would score fifty and six only forty. *)
LEMMA RulesAreMonotone ==
  ASSUME MaxFailed =< 5, NEW f \in Facts, NEW e \in Facts, AsRisky(f, e)
  PROVE  Score(f) >= Score(e)
<1> USE FraudAssumption
<1>1. AmountScore(f) \in Int /\ AmountScore(e) \in Int /\ AmountScore(f) >= AmountScore(e)
  BY DEF AsRisky, Facts, AmountScore
<1>2. VelocityScore(f) \in Int /\ VelocityScore(e) \in Int /\ VelocityScore(f) >= VelocityScore(e)
  BY DEF AsRisky, Facts, VelocityScore
<1>3. /\ AccountAgeScore(f) \in Int /\ AccountAgeScore(e) \in Int
      /\ AccountAgeScore(f) >= AccountAgeScore(e)
  BY DEF AsRisky, Facts, AccountAgeScore
<1>4. FailuresScore(f) \in Int /\ FailuresScore(e) \in Int /\ FailuresScore(f) >= FailuresScore(e)
  BY DEF AsRisky, Facts, FailuresScore
<1>5. /\ GeolocationScore(f) \in Int /\ GeolocationScore(e) \in Int
      /\ GeolocationScore(f) >= GeolocationScore(e)
  BY DEF AsRisky, Facts, GeolocationScore
<1> QED
  BY <1>1, <1>2, <1>3, <1>4, <1>5 DEF Score

(* A higher score never gets a milder decision. *)
LEMMA DecisionsAreMonotone ==
  \A m, n \in Int : m >= n => Severity(DecisionFor(m)) >= Severity(DecisionFor(n))
  BY DEF DecisionFor, Severity

(* A riskier transaction is never treated more mildly than another that was
   checked before or after it, on the same replica or elsewhere, for any values
   of the thresholds that keep the bands of the failures rule in order. *)
THEOREM MonotoneDecisions ==
  ASSUME MaxFailed =< 5
  PROVE  Spec => []RiskIsMonotone
<1>1. Init => TypeOK /\ Scored
  BY InitTypes, InitScored
<1>2. TypeOK /\ Scored /\ [Next]_vars => (TypeOK /\ Scored)'
  BY NextTypes, NextScored
<1>3. Scored => RiskIsMonotone
  <2> SUFFICES ASSUME Scored, NEW t \in Checked, NEW s \in Checked, AsRisky(facts[t], facts[s])
               PROVE  Severity(decision[t]) >= Severity(decision[s])
    BY DEF RiskIsMonotone
  <2>1. facts[t] \in Facts /\ facts[s] \in Facts
    BY DEF Scored
  <2>2. Score(facts[t]) >= Score(facts[s])
    BY <2>1, RulesAreMonotone
  <2> QED
    BY <2>1, <2>2, ScoreIsInt, DecisionsAreMonotone DEF Scored
<1> QED
  BY <1>1, <1>2, <1>3, PTL DEF Spec
=============================================================================
