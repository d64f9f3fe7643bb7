---------------------------- MODULE OutboxProofs ----------------------------
(***************************************************************************)
(* Theorems about Outbox, for any number of replicas and messages, any     *)
(* batch size and any number of crashes.                                   *)
(***************************************************************************)
EXTENDS Outbox, FiniteSetTheorems, TLAPS

(* Rows are written before anything works on them. *)
RowsBeforeWork ==
  /\ \A p \in Publishers : \A m \in batch[p] : status[m] # "absent"
  /\ \A w \in replying : status[w[2]] # "absent"

(* Nobody hands over a message without a row. *)
HandedHaveRows == \A m \in Messages : sends[m] > 0 => status[m] # "absent"

(* A processor about to mark a message has handed it over. *)
MarkingHanded ==
  \A p \in Publishers, m \in Messages :
    step[p] \in Marking \cup {"mark failed"} /\ AtMessage(p, m) => sends[m] > 0

(* MarkedAfterHanded is not inductive: a mark is justified by the publish some
   steps before, and by the snapshot having been taken from rows of the table. *)
Inv == /\ TypeOK
       /\ RowsBeforeWork
       /\ HandedHaveRows
       /\ MarkingHanded
       /\ MarkedAfterHanded

(* Nothing is stored, held or sent at first. *)
LEMMA InitInv == Init => Inv
  <1> SUFFICES ASSUME Init PROVE Inv
    OBVIOUS
  <1> USE BusAssumption, OutboxAssumption DEF Init, BusInit
  <1>1. TypeOK
    BY DEF TypeOK, BusTypeOK, Steps, Marking, Processes
  <1>2. RowsBeforeWork /\ HandedHaveRows /\ MarkedAfterHanded
    BY DEF RowsBeforeWork, HandedHaveRows, MarkedAfterHanded
  <1>3. MarkingHanded
    BY DEF MarkingHanded, Marking
  <1> QED BY <1>1, <1>2, <1>3 DEF Inv

(* Publishing touches only what Redis and its listeners hold. *)
LEMMA PublishTypes ==
  ASSUME BusTypeOK, NEW p \in Publishers, NEW m \in Messages, Publish(p, m)
  PROVE  BusTypeOK'
  <1>1. CASE Accept(m)
    BY <1>1 DEF BusTypeOK, Accept
  <1>2. CASE UNCHANGED busVars
    BY <1>2 DEF BusTypeOK, busVars
  <1> QED BY <1>1, <1>2 DEF Publish

(* A send raises the count of its message and of no other. *)
LEMMA SendCounts ==
  ASSUME Inv, NEW p \in Publishers, NEW m \in Messages, Send(p, m)
  PROVE  /\ BusTypeOK'
         /\ sends' \in [Messages -> Nat]
         /\ sends'[m] > 0
         /\ \A n \in Messages : sends[n] > 0 => sends'[n] > 0
         /\ \A n \in Messages \ {m} : sends'[n] = sends[n]
  <1>1. BusTypeOK'
    BY PublishTypes DEF Inv, TypeOK, Send
  <1> QED BY <1>1 DEF Inv, TypeOK, Send

(* Working off a batch keeps the rows of what is left of it. *)
LEMMA RowsStillThere ==
  ASSUME Inv,
         \A n \in Messages : status'[n] = "absent" <=> status[n] = "absent",
         \A q \in Publishers : batch'[q] \subseteq batch[q],
         replying' \subseteq replying
  PROVE  RowsBeforeWork'
  <1>1. ASSUME NEW q \in Publishers, NEW n \in batch'[q] PROVE status'[n] # "absent"
    BY DEF Inv, TypeOK, RowsBeforeWork
  <1>2. ASSUME NEW w \in replying' PROVE status'[w[2]] # "absent"
    BY DEF Inv, TypeOK, RowsBeforeWork
  <1> QED BY <1>1, <1>2 DEF RowsBeforeWork

(* A batch has one oldest message. *)
LEMMA OneOldest ==
  ASSUME NEW m \in Messages, NEW n \in Messages, m =< n, n =< m
  PROVE  m = n
  <1>1. m \in Nat /\ n \in Nat
    BY OutboxAssumption
  <1> QED BY <1>1

(* A counted fault stays within the bound. *)
LEMMA FaultBounded == TypeOK /\ Fault => faults' \in 0..MaxFaults
  BY OutboxAssumption DEF TypeOK, Fault

(* Only marked messages change status, and they keep a row. *)
LEMMA MarkEffect ==
  ASSUME Inv, NEW p \in Publishers, NEW m \in Messages,
         NEW value \in {"PUBLISHED", "FAILED"},
         step[p] \in Marking \cup {"mark failed"}, Mark(p, m, value),
         faults' = faults
  PROVE  Inv'
  <1> DEFINE old == batch[p]
  <1>1. AtMessage(p, m) /\ m \in old /\ sends[m] > 0
    BY DEF Mark, AtMessage, Inv, MarkingHanded
  <1>2. TypeOK'
    <2>1. /\ status' \in [Messages -> {"absent", "PENDING", "PUBLISHED", "FAILED"}]
          /\ batch' \in [Publishers -> SUBSET Messages]
          /\ step' \in [Publishers -> Steps]
      BY DEF Inv, TypeOK, Mark, Steps, Marking
    <2>2. ASSUME NEW q \in Publishers
          PROVE  (batch[q] = {} <=> step[q] \in {"poll", "down"})'
      BY <1>1 DEF Inv, TypeOK, Mark
    <2>3. BusTypeOK'
      BY DEF Inv, TypeOK, BusTypeOK, Mark, busVars
    <2> QED BY <2>1, <2>2, <2>3 DEF Inv, TypeOK, Mark
  <1>3. \A n \in Messages : status'[n] = "absent" <=> status[n] = "absent"
    BY <1>1 DEF Inv, TypeOK, Mark, RowsBeforeWork
  <1>4. RowsBeforeWork'
    BY <1>3, RowsStillThere DEF Inv, TypeOK, Mark
  <1>5. HandedHaveRows'
    BY <1>3 DEF Inv, HandedHaveRows, Mark
  <1>6. MarkingHanded'
    <2> SUFFICES ASSUME NEW q \in Publishers, NEW n \in Messages,
                        step'[q] \in Marking \cup {"mark failed"}, AtMessage(q, n)'
                 PROVE  sends'[n] > 0
      BY DEF MarkingHanded
    <2>1. q # p
      BY DEF Mark, Inv, TypeOK, Marking
    <2> QED BY <2>1 DEF Inv, TypeOK, MarkingHanded, AtMessage, Mark
  <1>7. MarkedAfterHanded'
    BY <1>1 DEF Inv, TypeOK, MarkedAfterHanded, Mark
  <1> QED BY <1>2, <1>4, <1>5, <1>6, <1>7 DEF Inv

(* Every step keeps the invariant. *)
LEMMA StepInv == Inv /\ [Next]_vars => Inv'
  <1> SUFFICES ASSUME Inv, [Next]_vars PROVE Inv'
    OBVIOUS
  <1> USE DEF Inv
  <1>1. ASSUME NEW p \in Publishers, NEW m \in Messages, Commit(p, m) PROVE Inv'
    <2>1. TypeOK'
      BY <1>1 DEF Commit, TypeOK, BusTypeOK, busVars
    <2>2. RowsBeforeWork'
      BY <1>1 DEF Commit, TypeOK, RowsBeforeWork
    <2>3. HandedHaveRows' /\ MarkedAfterHanded'
      BY <1>1 DEF Commit, TypeOK, HandedHaveRows, MarkedAfterHanded
    <2>4. MarkingHanded'
      BY <1>1 DEF Commit, MarkingHanded, AtMessage
    <2> QED BY <2>1, <2>2, <2>3, <2>4
  <1>2. ASSUME NEW p \in Publishers, NEW m \in Messages, ImmediatePublish(p, m) PROVE Inv'
    <2> USE SendCounts
    <2>1. status[m] # "absent"
      BY <1>2 DEF ImmediatePublish, RowsBeforeWork
    <2>2. TypeOK'
      BY <1>2 DEF ImmediatePublish, TypeOK
    <2>3. RowsBeforeWork'
      BY <1>2 DEF ImmediatePublish, RowsBeforeWork
    <2>4. HandedHaveRows' /\ MarkedAfterHanded'
      BY <1>2, <2>1 DEF ImmediatePublish, HandedHaveRows, MarkedAfterHanded
    <2>5. MarkingHanded'
      BY <1>2 DEF ImmediatePublish, MarkingHanded, AtMessage
    <2> QED BY <2>2, <2>3, <2>4, <2>5
  <1>3. ASSUME NEW p \in Publishers, Poll(p) PROVE Inv'
    <2>1. OldestPending \subseteq {m \in Messages : status[m] = "PENDING"}
      BY DEF OldestPending, Pending
    <2>2. TypeOK'
      BY <1>3, <2>1 DEF Poll, TypeOK, BusTypeOK, busVars, Steps
    <2>3. RowsBeforeWork'
      <3>1. /\ batch'[p] = OldestPending /\ UNCHANGED <<status, replying>>
            /\ \A q \in Publishers \ {p} : batch'[q] = batch[q]
        BY <1>3 DEF Poll, TypeOK
      <3>2. \A n \in OldestPending : status[n] # "absent"
        BY <2>1
      <3>3. ASSUME NEW q \in Publishers, NEW n \in batch'[q] PROVE status[n] # "absent"
        BY <3>1, <3>2, <3>3 DEF RowsBeforeWork
      <3> QED BY <3>1, <3>3 DEF RowsBeforeWork
    <2>4. HandedHaveRows' /\ MarkedAfterHanded'
      BY <1>3 DEF Poll, HandedHaveRows, MarkedAfterHanded
    <2>5. MarkingHanded'
      BY <1>3 DEF Poll, TypeOK, MarkingHanded, AtMessage, Marking
    <2> QED BY <2>2, <2>3, <2>4, <2>5
  <1>4. ASSUME NEW p \in Publishers, NEW m \in Messages, PublishMessage(p, m) PROVE Inv'
    <2> USE SendCounts
    <2>1. m \in batch[p] /\ status[m] # "absent"
      BY <1>4 DEF PublishMessage, AtMessage, RowsBeforeWork
    <2>2. TypeOK'
      <3>1. step' \in [Publishers -> Steps]
        BY <1>4 DEF PublishMessage, TypeOK, Steps, Marking
      <3>2. ASSUME NEW q \in Publishers
            PROVE  (batch[q] = {} <=> step[q] \in {"poll", "down"})'
        BY <1>4 DEF PublishMessage, TypeOK
      <3> QED BY <1>4, <3>1, <3>2 DEF PublishMessage, TypeOK
    <2>3. RowsBeforeWork'
      BY <1>4 DEF PublishMessage, RowsBeforeWork
    <2>4. HandedHaveRows' /\ MarkedAfterHanded'
      BY <1>4, <2>1 DEF PublishMessage, HandedHaveRows, MarkedAfterHanded
    <2>5. MarkingHanded'
      <3> SUFFICES ASSUME NEW q \in Publishers, NEW n \in Messages,
                          step'[q] \in Marking \cup {"mark failed"}, AtMessage(q, n)'
                   PROVE  sends'[n] > 0
        BY DEF MarkingHanded
      <3>1. CASE q = p
        <4>1. n = m
          BY <1>4, <3>1, OneOldest DEF PublishMessage, AtMessage
        <4> QED BY <1>4, <4>1 DEF PublishMessage
      <3>2. CASE q # p
        <4>1. sends[n] > 0
          BY <1>4, <3>2 DEF PublishMessage, TypeOK, MarkingHanded, AtMessage
        <4> QED BY <1>4, <4>1 DEF PublishMessage
      <3> QED BY <3>1, <3>2
    <2> QED BY <2>2, <2>3, <2>4, <2>5
  <1>5. ASSUME NEW p \in Publishers, NEW m \in Messages, MarkPublished(p, m) PROVE Inv'
    BY <1>5, MarkEffect DEF MarkPublished
  <1>6. ASSUME NEW p \in Publishers, NEW m \in Messages, MarkFailed(p, m) PROVE Inv'
    BY <1>6, MarkEffect DEF MarkFailed
  <1>7. ASSUME NEW p \in Publishers, MarkRaises(p) PROVE Inv'
    <2>1. TypeOK'
      BY <1>7, FaultBounded DEF MarkRaises, TypeOK, BusTypeOK, busVars, Steps
    <2>2. RowsBeforeWork' /\ HandedHaveRows' /\ MarkedAfterHanded'
      BY <1>7 DEF MarkRaises, RowsBeforeWork, HandedHaveRows, MarkedAfterHanded
    <2>3. MarkingHanded'
      BY <1>7 DEF MarkRaises, TypeOK, MarkingHanded, AtMessage, Marking
    <2> QED BY <2>1, <2>2, <2>3
  <1>8. ASSUME NEW p \in Publishers, NEW m \in Messages, AbortBatch(p, m) PROVE Inv'
    <2>1. m \in batch[p] /\ sends[m] > 0 /\ status[m] # "absent"
      BY <1>8 DEF AbortBatch, AtMessage, MarkingHanded, RowsBeforeWork
    <2>2. /\ status' \in [Messages -> {"absent", "PENDING", "PUBLISHED", "FAILED"}]
          /\ \A n \in Messages : status'[n] = "absent" <=> status[n] = "absent"
          /\ \A n \in Messages \ {m} : status'[n] = status[n]
      BY <1>8, <2>1 DEF AbortBatch, TypeOK
    <2>3. TypeOK'
      BY <1>8, <2>2, FaultBounded DEF AbortBatch, TypeOK, BusTypeOK, busVars, Steps
    <2>4. RowsBeforeWork'
      BY <1>8, <2>2, RowsStillThere DEF AbortBatch, TypeOK
    <2>5. HandedHaveRows' /\ MarkedAfterHanded'
      BY <1>8, <2>1, <2>2 DEF AbortBatch, HandedHaveRows, MarkedAfterHanded
    <2>6. MarkingHanded'
      <3>1. /\ step'[p] = "poll" /\ sends' = sends
            /\ \A q \in Publishers \ {p} : step'[q] = step[q] /\ batch'[q] = batch[q]
        BY <1>8 DEF AbortBatch, TypeOK
      <3> QED BY <3>1 DEF MarkingHanded, AtMessage, Marking
    <2> QED BY <2>3, <2>4, <2>5, <2>6
  <1>9. ASSUME NEW p \in Publishers, Crash(p) PROVE Inv'
    <2>1. TypeOK'
      BY <1>9, FaultBounded DEF Crash, TypeOK, BusTypeOK, busVars, Steps
    <2>2. RowsBeforeWork' /\ HandedHaveRows' /\ MarkedAfterHanded'
      BY <1>9 DEF Crash, TypeOK, RowsBeforeWork, HandedHaveRows, MarkedAfterHanded
    <2>3. MarkingHanded'
      BY <1>9 DEF Crash, TypeOK, MarkingHanded, AtMessage, Marking
    <2> QED BY <2>1, <2>2, <2>3
  <1>10. ASSUME NEW p \in Publishers, Restart(p) PROVE Inv'
    <2>1. TypeOK'
      BY <1>10 DEF Restart, Connect, TypeOK, BusTypeOK, Steps
    <2>2. RowsBeforeWork' /\ HandedHaveRows' /\ MarkedAfterHanded'
      BY <1>10 DEF Restart, RowsBeforeWork, HandedHaveRows, MarkedAfterHanded
    <2>3. MarkingHanded'
      BY <1>10 DEF Restart, TypeOK, MarkingHanded, AtMessage, Marking
    <2> QED BY <2>1, <2>2, <2>3
  <1>11. CASE (RedisStops \/ RedisStarts) /\ UNCHANGED outboxVars
    <2> USE DEF outboxVars
    <2>1. TypeOK'
      BY <1>11 DEF RedisStops, RedisStarts, TypeOK, BusTypeOK
    <2>2. RowsBeforeWork' /\ HandedHaveRows' /\ MarkedAfterHanded' /\ MarkingHanded'
      BY <1>11 DEF RowsBeforeWork, HandedHaveRows, MarkedAfterHanded, MarkingHanded, AtMessage
    <2> QED BY <2>1, <2>2
  <1>12. CASE UNCHANGED vars
    <2> USE DEF vars, busVars, outboxVars
    <2>1. TypeOK'
      BY <1>12 DEF TypeOK, BusTypeOK
    <2>2. RowsBeforeWork' /\ HandedHaveRows' /\ MarkedAfterHanded' /\ MarkingHanded'
      BY <1>12 DEF RowsBeforeWork, HandedHaveRows, MarkedAfterHanded, MarkingHanded, AtMessage
    <2> QED BY <2>1, <2>2
  <1> QED
    BY <1>1, <1>2, <1>3, <1>4, <1>5, <1>6, <1>7, <1>8, <1>9, <1>10, <1>11, <1>12
    DEF Next, Process

(* So it holds in every state of every behaviour. *)
LEMMA InvHolds == Spec => []Inv
  BY InitInv, StepInv, PTL DEF Spec

(* TypeOK holds in every reachable state: in particular a processor's snapshot is
   empty exactly between two batches. *)
THEOREM OutboxTypes == Spec => []TypeOK
  BY InvHolds, PTL DEF Inv

(* No crash, failed commit or concurrent processor makes a row leave PENDING
   before its message was handed to the event bus. *)
THEOREM NoMarkWithoutHandOver == Spec => []MarkedAfterHanded
  BY InvHolds, PTL DEF Inv

-----------------------------------------------------------------------------
(* How often a message is sent *)

(* Requests that have yet to publish m. *)
Owing(m) == {p \in Publishers : <<p, m>> \in replying}

(* Processors that have published m and not yet marked it. *)
Handing(m) ==
  {p \in Publishers : step[p] \in Marking \cup {"mark failed"} /\ AtMessage(p, m)}

(* Processors whose snapshot holds m, still to be published. *)
Holding(m) == {p \in Publishers : m \in batch[p] /\ p \notin Handing(m)}

(* DuplicatesBounded is not inductive.  While m is PENDING each send beyond the request's
   is by a processor about to mark m, or was forgotten in a fault; once m is marked, no
   poll selects it again, and what can still be sent is what snapshots hold. *)
SendsInv(m) ==
  /\ status[m] = "PENDING" =>
       sends[m] + Cardinality(Owing(m)) =< 1 + Cardinality(Handing(m)) + faults
  /\ status[m] \in {"PUBLISHED", "FAILED"} =>
       sends[m] + Cardinality(Owing(m)) + Cardinality(Holding(m))
         =< 1 + Cardinality(Publishers) + faults

(* These sets are finite, and no processor is in two of them. *)
LEMMA Counts ==
  ASSUME NEW m \in Messages
  PROVE  /\ IsFiniteSet(Owing(m)) /\ IsFiniteSet(Handing(m)) /\ IsFiniteSet(Holding(m))
         /\ Cardinality(Owing(m)) \in Nat /\ Cardinality(Handing(m)) \in Nat
         /\ Cardinality(Holding(m)) \in Nat /\ Cardinality(Publishers) \in Nat
         /\ Cardinality(Handing(m)) + Cardinality(Holding(m)) =< Cardinality(Publishers)
  <1>1. IsFiniteSet(Publishers) /\ Cardinality(Publishers) \in Nat
    BY OutboxAssumption, FS_CardinalityType
  <1>2. Owing(m) \subseteq Publishers /\ Handing(m) \subseteq Publishers
        /\ Holding(m) \subseteq Publishers /\ Handing(m) \cap Holding(m) = {}
    BY DEF Owing, Handing, Holding
  <1>3. /\ IsFiniteSet(Owing(m)) /\ IsFiniteSet(Handing(m)) /\ IsFiniteSet(Holding(m))
    BY <1>1, <1>2, FS_Subset
  <1>4. /\ Cardinality(Owing(m)) \in Nat /\ Cardinality(Handing(m)) \in Nat
        /\ Cardinality(Holding(m)) \in Nat
    BY <1>3, FS_CardinalityType
  <1> DEFINE both == Handing(m) \cup Holding(m)
  <1>5. Cardinality(both) = Cardinality(Handing(m)) + Cardinality(Holding(m)) - Cardinality({})
    BY <1>2, <1>3, FS_Union
  <1>6. Cardinality({}) = 0 BY FS_EmptySet
  <1>7. Cardinality(both) =< Cardinality(Publishers) BY <1>1, <1>2, FS_Subset
  <1> QED BY <1>1, <1>3, <1>4, <1>5, <1>6, <1>7

(* A part of a finite set is no larger; without one element it is one smaller. *)
LEMMA Smaller ==
  ASSUME NEW S, NEW T, IsFiniteSet(T), S \subseteq T
  PROVE  /\ Cardinality(S) \in Nat /\ Cardinality(T) \in Nat
         /\ Cardinality(S) =< Cardinality(T)
         /\ \A x \in T : S = T \ {x} => Cardinality(S) = Cardinality(T) - 1
  <1>1. IsFiniteSet(S) /\ Cardinality(S) =< Cardinality(T) BY FS_Subset
  <1>2. Cardinality(S) \in Nat /\ Cardinality(T) \in Nat BY <1>1, FS_CardinalityType
  <1>3. ASSUME NEW x \in T, S = T \ {x} PROVE Cardinality(S) = Cardinality(T) - 1
    BY <1>3, FS_RemoveElement
  <1> QED BY <1>1, <1>2, <1>3

(* A step that does not send m, leaves its status, and forgets only with a fault. *)
LEMMA NotSent ==
  ASSUME TypeOK, TypeOK', NEW m \in Messages, SendsInv(m),
         sends'[m] = sends[m], status'[m] = status[m],
         Owing(m)' \subseteq Owing(m),
         status[m] # "PENDING" => Holding(m)' \subseteq Holding(m),
         \/ Handing(m)' = Handing(m) /\ faults' = faults
         \/ faults' = faults + 1 /\ \E p \in Publishers : Handing(m) \subseteq Handing(m)' \cup {p}
  PROVE  SendsInv(m)'
  <1>1. /\ sends[m] \in Nat /\ faults \in Nat /\ faults' \in Nat
    BY OutboxAssumption DEF TypeOK
  <1>2. /\ Cardinality(Owing(m)') \in Nat /\ Cardinality(Owing(m)') =< Cardinality(Owing(m))
        /\ Cardinality(Owing(m)) \in Nat
    BY Counts, Smaller
  <1>3. Cardinality(Handing(m)) \in Nat /\ Cardinality(Holding(m)) \in Nat
        /\ Cardinality(Publishers) \in Nat
    BY Counts
  <1>4. /\ Cardinality(Handing(m)') \in Nat
        /\ Cardinality(Handing(m)) + faults =< Cardinality(Handing(m)') + faults'
    <2>1. IsFiniteSet(Publishers) BY OutboxAssumption
    <2>2. Handing(m)' \subseteq Publishers BY DEF Handing
    <2>3. IsFiniteSet(Handing(m)') BY <2>1, <2>2, FS_Subset
    <2>4. Cardinality(Handing(m)') \in Nat BY <2>3, FS_CardinalityType
    <2>5. CASE Handing(m)' = Handing(m) /\ faults' = faults BY <1>1, <1>3, <2>5
    <2>6. CASE /\ faults' = faults + 1
               /\ \E p \in Publishers : Handing(m) \subseteq Handing(m)' \cup {p}
      <3>1. PICK p \in Publishers : Handing(m) \subseteq Handing(m)' \cup {p} BY <2>6
      <3>2. IsFiniteSet(Handing(m)' \cup {p})
            /\ (\/ Cardinality(Handing(m)' \cup {p}) = Cardinality(Handing(m)')
                \/ Cardinality(Handing(m)' \cup {p}) = Cardinality(Handing(m)') + 1)
        BY <2>3, FS_AddElement
      <3>3. Cardinality(Handing(m)) =< Cardinality(Handing(m)' \cup {p}) BY <3>1, <3>2, Smaller
      <3> QED BY <1>1, <1>3, <2>4, <2>6, <3>2, <3>3
    <2> QED BY <2>4, <2>5, <2>6
  <1>5. faults =< faults' BY <1>1
  <1>6. ASSUME status'[m] = "PENDING"
        PROVE  sends'[m] + Cardinality(Owing(m)') =< 1 + Cardinality(Handing(m)') + faults'
    <2>1. sends[m] + Cardinality(Owing(m)) =< 1 + Cardinality(Handing(m)) + faults
      BY <1>6 DEF SendsInv
    <2> QED BY <1>1, <1>2, <1>3, <1>4, <2>1
  <1>7. ASSUME status'[m] \in {"PUBLISHED", "FAILED"}
        PROVE  sends'[m] + Cardinality(Owing(m)') + Cardinality(Holding(m)')
                 =< 1 + Cardinality(Publishers) + faults'
    <2>1. sends[m] + Cardinality(Owing(m)) + Cardinality(Holding(m))
            =< 1 + Cardinality(Publishers) + faults
      BY <1>7 DEF SendsInv
    <2>2. Holding(m)' \subseteq Holding(m) BY <1>7
    <2>3. Cardinality(Holding(m)') \in Nat /\ Cardinality(Holding(m)') =< Cardinality(Holding(m))
      BY <2>2, Counts, Smaller
    <2> QED BY <1>1, <1>2, <1>3, <1>5, <2>1, <2>3
  <1> QED BY <1>6, <1>7 DEF SendsInv

(* With the mark, what processors may still send are the copies in their snapshots. *)
LEMMA Settled ==
  ASSUME TypeOK, TypeOK', NEW m \in Messages, SendsInv(m),
         status[m] # "absent", status'[m] \in {"PUBLISHED", "FAILED"},
         sends'[m] = sends[m], Owing(m)' = Owing(m), Holding(m)' \subseteq Holding(m),
         faults' \in {faults, faults + 1}
  PROVE  SendsInv(m)'
  <1>1. /\ sends[m] \in Nat /\ faults \in Nat /\ faults' \in Nat /\ faults =< faults'
        /\ status[m] \in {"PENDING", "PUBLISHED", "FAILED"}
    BY OutboxAssumption DEF TypeOK
  <1>2. /\ Cardinality(Owing(m)) \in Nat /\ Cardinality(Handing(m)) \in Nat
        /\ Cardinality(Holding(m)) \in Nat /\ Cardinality(Publishers) \in Nat
        /\ Cardinality(Handing(m)) + Cardinality(Holding(m)) =< Cardinality(Publishers)
    BY Counts
  <1>3. sends[m] + Cardinality(Owing(m)) + Cardinality(Holding(m))
          =< 1 + Cardinality(Publishers) + faults
    <2>1. \/ sends[m] + Cardinality(Owing(m)) =< 1 + Cardinality(Handing(m)) + faults
          \/ sends[m] + Cardinality(Owing(m)) + Cardinality(Holding(m))
               =< 1 + Cardinality(Publishers) + faults
      BY <1>1 DEF SendsInv
    <2> QED BY <1>1, <1>2, <2>1
  <1>4. Cardinality(Holding(m)') \in Nat /\ Cardinality(Holding(m)') =< Cardinality(Holding(m))
    BY Counts, Smaller
  <1>5. sends'[m] + Cardinality(Owing(m)') + Cardinality(Holding(m)')
          =< 1 + Cardinality(Publishers) + faults'
    BY <1>1, <1>2, <1>3, <1>4
  <1> QED BY <1>5 DEF SendsInv

(* A processor changes no place but its own. *)
LEMMA OtherPlaces ==
  ASSUME NEW p \in Publishers, NEW n \in Messages,
         \A q \in Publishers \ {p} : step'[q] = step[q] /\ batch'[q] = batch[q]
  PROVE  \A q \in Publishers \ {p} : /\ q \in Handing(n)' <=> q \in Handing(n)
                                     /\ q \in Holding(n)' <=> q \in Holding(n)
  BY DEF Handing, Holding, AtMessage

(* The request's own publish is the one that everybody may do. *)
LEMMA CommitSends ==
  ASSUME Inv, TypeOK', \A n \in Messages : SendsInv(n),
         NEW p \in Publishers, NEW m \in Messages, Commit(p, m), NEW n \in Messages
  PROVE  SendsInv(n)'
  <1>1. /\ status[m] = "absent" /\ status' = [status EXCEPT ![m] = "PENDING"]
        /\ replying' = replying \cup {<<p, m>>} /\ UNCHANGED <<sends, step, batch, faults>>
    BY DEF Commit
  <1>2. Handing(n)' = Handing(n) /\ Holding(n)' = Holding(n)
    BY <1>1 DEF Handing, Holding, AtMessage
  <1>3. status'[m] = "PENDING" /\ \A x \in Messages \ {m} : status'[x] = status[x]
    BY <1>1 DEF Inv, TypeOK
  <1>4. CASE n = m
    <2>1. ~(sends[m] > 0) BY <1>1 DEF Inv, HandedHaveRows
    <2>2. sends[m] = 0 BY <2>1 DEF Inv, TypeOK
    <2>3. Owing(m)' = {p} BY <1>1 DEF Owing, Inv, RowsBeforeWork
    <2>4. Cardinality(Owing(m)') = 1 BY <2>3, FS_Singleton
    <2>5. Cardinality(Handing(m)) \in Nat /\ faults \in Nat
      BY Counts, OutboxAssumption DEF Inv, TypeOK
    <2>6. sends'[m] + Cardinality(Owing(m)') =< 1 + Cardinality(Handing(m)') + faults'
      BY <1>1, <1>2, <1>4, <2>2, <2>4, <2>5
    <2> QED BY <1>3, <1>4, <2>6 DEF SendsInv
  <1>5. CASE n # m
    <2>1. Owing(n)' \subseteq Owing(n) BY <1>1, <1>5 DEF Owing
    <2>2. sends'[n] = sends[n] /\ status'[n] = status[n] BY <1>1, <1>3, <1>5
    <2>3. TypeOK BY DEF Inv
    <2> QED BY <1>1, <1>2, <2>1, <2>2, <2>3, NotSent
  <1> QED BY <1>4, <1>5

(* A request that has published owes no more. *)
LEMMA ImmediateSends ==
  ASSUME Inv, TypeOK', \A n \in Messages : SendsInv(n),
         NEW p \in Publishers, NEW m \in Messages, ImmediatePublish(p, m), NEW n \in Messages
  PROVE  SendsInv(n)'
  <1>1. /\ <<p, m>> \in replying /\ replying' = replying \ {<<p, m>>}
        /\ UNCHANGED <<status, step, batch, faults>> /\ sends' = [sends EXCEPT ![m] = @ + 1]
    BY DEF ImmediatePublish, Send
  <1>2. Handing(n)' = Handing(n) /\ Holding(n)' = Holding(n)
    BY <1>1 DEF Handing, Holding, AtMessage
  <1>3. sends'[m] = sends[m] + 1 /\ \A x \in Messages \ {m} : sends'[x] = sends[x]
    BY <1>1 DEF Inv, TypeOK
  <1>4. CASE n = m
    <2>1. p \in Owing(m) /\ Owing(m)' = Owing(m) \ {p} BY <1>1 DEF Owing
    <2>2. /\ Cardinality(Owing(m)') = Cardinality(Owing(m)) - 1
          /\ Cardinality(Owing(m)) \in Nat /\ Cardinality(Owing(m)') \in Nat
      BY <2>1, Counts, Smaller
    <2>3. /\ sends[m] \in Nat /\ faults \in Nat /\ Cardinality(Handing(m)) \in Nat
          /\ Cardinality(Holding(m)) \in Nat /\ Cardinality(Publishers) \in Nat
      BY Counts, OutboxAssumption DEF Inv, TypeOK
    <2>4. sends'[m] + Cardinality(Owing(m)') = sends[m] + Cardinality(Owing(m))
      BY <1>3, <2>2, <2>3
    <2> QED BY <1>1, <1>2, <1>4, <2>4 DEF SendsInv
  <1>5. CASE n # m
    <2>1. Owing(n)' \subseteq Owing(n) BY <1>1 DEF Owing
    <2>2. sends'[n] = sends[n] /\ status'[n] = status[n] BY <1>1, <1>3, <1>5
    <2>3. TypeOK BY DEF Inv
    <2> QED BY <1>1, <1>2, <2>1, <2>2, <2>3, NotSent
  <1> QED BY <1>4, <1>5

(* A poll takes copies of PENDING messages only. *)
LEMMA PollSends ==
  ASSUME Inv, TypeOK', NEW n \in Messages, SendsInv(n), NEW p \in Publishers, Poll(p)
  PROVE  SendsInv(n)'
  <1>1. /\ step[p] = "poll" /\ UNCHANGED <<status, replying, sends, faults>>
        /\ batch' = [batch EXCEPT ![p] = OldestPending]
        /\ step' = [step EXCEPT ![p] = "publish first"]
    BY DEF Poll
  <1>2. TypeOK BY DEF Inv
  <1>3. /\ step'[p] = "publish first" /\ batch'[p] = OldestPending
        /\ \A q \in Publishers \ {p} : step'[q] = step[q] /\ batch'[q] = batch[q]
    BY <1>1, <1>2 DEF TypeOK
  <1>4. p \notin Handing(n) /\ p \notin Handing(n)' BY <1>1, <1>3 DEF Handing, Marking
  <1>5. Handing(n)' = Handing(n)
    <2>1. Handing(n) \subseteq Publishers /\ Handing(n)' \subseteq Publishers BY DEF Handing
    <2>2. \A q \in Publishers \ {p} : q \in Handing(n)' <=> q \in Handing(n)
      BY <1>3, OtherPlaces
    <2> QED BY <1>4, <2>1, <2>2
  <1>6. ASSUME status[n] # "PENDING" PROVE Holding(n)' \subseteq Holding(n)
    <2>1. p \notin Holding(n)' BY <1>3, <1>6 DEF Holding, OldestPending, Pending
    <2>2. Holding(n)' \subseteq Publishers BY DEF Holding
    <2> QED BY <1>3, <2>1, <2>2, OtherPlaces
  <1>7. Owing(n)' \subseteq Owing(n) BY <1>1 DEF Owing
  <1>8. sends'[n] = sends[n] /\ status'[n] = status[n] BY <1>1
  <1> QED BY <1>1, <1>2, <1>5, <1>6, <1>7, <1>8, NotSent

(* A processor that publishes m goes from those that hold it to those that mark it. *)
LEMMA PublishSends ==
  ASSUME Inv, TypeOK', \A n \in Messages : SendsInv(n),
         NEW p \in Publishers, NEW m \in Messages, PublishMessage(p, m), NEW n \in Messages
  PROVE  SendsInv(n)'
  <1>1. /\ step[p] \in {"publish first", "publish"} /\ AtMessage(p, m)
        /\ UNCHANGED <<status, replying, batch, faults>> /\ sends' = [sends EXCEPT ![m] = @ + 1]
        /\ step' = [step EXCEPT ![p] = IF @ = "publish" THEN "mark" ELSE "mark first"]
    BY DEF PublishMessage, Send
  <1>2. TypeOK BY DEF Inv
  <1>3. /\ step'[p] \in Marking /\ batch'[p] = batch[p]
        /\ \A q \in Publishers \ {p} : step'[q] = step[q] /\ batch'[q] = batch[q]
    BY <1>1, <1>2 DEF TypeOK, Marking
  <1>4. sends'[m] = sends[m] + 1 /\ \A x \in Messages \ {m} : sends'[x] = sends[x]
    BY <1>1, <1>2 DEF TypeOK
  <1>5. /\ Handing(n) \subseteq Publishers /\ Handing(n)' \subseteq Publishers
        /\ Holding(n) \subseteq Publishers /\ Holding(n)' \subseteq Publishers
    BY DEF Handing, Holding
  <1>6. p \notin Handing(n) BY <1>1 DEF Handing, Marking
  <1>7. Owing(n)' = Owing(n) BY <1>1 DEF Owing
  <1>8. CASE n = m
    <2>1. p \in Handing(m)' BY <1>1, <1>3 DEF Handing, AtMessage
    <2>2. p \in Holding(m) /\ p \notin Holding(m)'
      BY <1>1, <1>6, <1>8, <2>1 DEF Holding, AtMessage
    <2>3. Handing(m)' = Handing(m) \cup {p} /\ Holding(m)' = Holding(m) \ {p}
      BY <1>3, <1>5, <1>8, <2>1, <2>2, OtherPlaces
    <2>4. /\ sends[m] \in Nat /\ faults \in Nat /\ Cardinality(Handing(m)) \in Nat
          /\ Cardinality(Holding(m)) \in Nat /\ Cardinality(Publishers) \in Nat
          /\ IsFiniteSet(Handing(m)) /\ IsFiniteSet(Holding(m))
          /\ Cardinality(Owing(m)) \in Nat
      BY <1>2, Counts, OutboxAssumption DEF TypeOK
    <2>5. Cardinality(Handing(m)') = Cardinality(Handing(m)) + 1
      BY <1>6, <1>8, <2>3, <2>4, FS_AddElement
    <2>6. Cardinality(Holding(m)') = Cardinality(Holding(m)) - 1
      BY <2>2, <2>3, <2>4, FS_RemoveElement
    <2>7. ASSUME status'[m] = "PENDING"
          PROVE  sends'[m] + Cardinality(Owing(m)') =< 1 + Cardinality(Handing(m)') + faults'
      <3>1. sends[m] + Cardinality(Owing(m)) =< 1 + Cardinality(Handing(m)) + faults
        BY <1>1, <2>7 DEF SendsInv
      <3>2. sends'[m] = sends[m] + 1 /\ Owing(m)' = Owing(m) /\ faults' = faults
        BY <1>1, <1>4, <1>7, <1>8
      <3>3. Cardinality(Owing(m)') = Cardinality(Owing(m)) BY <3>2
      <3> QED BY <2>4, <2>5, <3>1, <3>2, <3>3
    <2>8. ASSUME status'[m] \in {"PUBLISHED", "FAILED"}
          PROVE  sends'[m] + Cardinality(Owing(m)') + Cardinality(Holding(m)')
                   =< 1 + Cardinality(Publishers) + faults'
      <3>1. sends[m] + Cardinality(Owing(m)) + Cardinality(Holding(m))
              =< 1 + Cardinality(Publishers) + faults
        BY <1>1, <2>8 DEF SendsInv
      <3>2. sends'[m] = sends[m] + 1 /\ Owing(m)' = Owing(m) /\ faults' = faults
        BY <1>1, <1>4, <1>7, <1>8
      <3>3. Cardinality(Owing(m)') = Cardinality(Owing(m)) BY <3>2
      <3> QED BY <2>4, <2>6, <3>1, <3>2, <3>3
    <2> QED BY <1>8, <2>7, <2>8 DEF SendsInv
  <1>9. CASE n # m
    <2>1. ~(AtMessage(p, n)') BY <1>1, <1>9, OneOldest DEF AtMessage
    <2>2. p \notin Handing(n)' BY <2>1 DEF Handing
    <2>3. Handing(n)' = Handing(n)
      <3>1. \A q \in Publishers : q \in Handing(n)' <=> q \in Handing(n)
        BY <1>3, <1>6, <2>2, OtherPlaces
      <3> QED BY <1>5, <3>1
    <2>4. p \in Holding(n)' => p \in Holding(n) BY <1>3, <1>6 DEF Holding
    <2>5. Holding(n)' \subseteq Holding(n) BY <1>3, <1>5, <2>4, OtherPlaces
    <2>6. sends'[n] = sends[n] /\ status'[n] = status[n] BY <1>1, <1>4, <1>9
    <2> QED BY <1>1, <1>2, <1>7, <2>3, <2>5, <2>6, NotSent
  <1> QED BY <1>8, <1>9

(* Nobody takes up m by working off a batch: for n, p leaves those that hold it or is
   where it was. *)
LEMMA BatchGoesOn ==
  ASSUME Inv, NEW p \in Publishers, NEW m \in Messages, AtMessage(p, m),
         step[p] \in Marking \cup {"mark failed"}, step'[p] \in {"poll", "publish"},
         batch'[p] \subseteq batch[p] \ {m},
         \A q \in Publishers \ {p} : step'[q] = step[q] /\ batch'[q] = batch[q],
         NEW n \in Messages
  PROVE  /\ Holding(n)' \subseteq Holding(n)
         /\ Handing(n) \subseteq Handing(n)' \cup {p}
         /\ n # m => Handing(n) \subseteq Handing(n)' /\ Handing(n)' \subseteq Handing(n)
  <1>1. /\ Handing(n) \subseteq Publishers /\ Handing(n)' \subseteq Publishers
        /\ Holding(n) \subseteq Publishers /\ Holding(n)' \subseteq Publishers
    BY DEF Handing, Holding
  <1>2. \A q \in Publishers \ {p} : /\ q \in Handing(n)' <=> q \in Handing(n)
                                    /\ q \in Holding(n)' <=> q \in Holding(n)
    BY OtherPlaces
  <1>3. p \notin Handing(n)' BY DEF Handing, Marking
  <1>4. n # m => p \notin Handing(n) BY OneOldest DEF Handing, AtMessage
  <1>5. p \in Holding(n)' => p \in Holding(n)
    <2>1. p \in Holding(n)' => n \in batch[p] /\ n # m BY DEF Holding
    <2> QED BY <1>4, <2>1 DEF Holding
  <1>6. Holding(n)' \subseteq Holding(n) BY <1>1, <1>2, <1>5
  <1>7. Handing(n) \subseteq Handing(n)' \cup {p} BY <1>1, <1>2
  <1>8. ASSUME n # m PROVE Handing(n)' = Handing(n)
    <2>1. \A q \in Publishers : q \in Handing(n)' <=> q \in Handing(n)
      BY <1>2, <1>3, <1>4, <1>8
    <2> QED BY <1>1, <2>1
  <1> QED BY <1>6, <1>7, <1>8

(* Once m is marked, p has no more part in it. *)
LEMMA MarkSends ==
  ASSUME Inv, TypeOK', \A n \in Messages : SendsInv(n),
         NEW p \in Publishers, NEW m \in Messages, NEW value \in {"PUBLISHED", "FAILED"},
         step[p] \in Marking \cup {"mark failed"}, Mark(p, m, value), faults' = faults,
         NEW n \in Messages
  PROVE  SendsInv(n)'
  <1>1. /\ AtMessage(p, m) /\ UNCHANGED <<replying, sends>>
        /\ status' = [status EXCEPT ![m] = value] /\ batch' = [batch EXCEPT ![p] = @ \ {m}]
        /\ step' = [step EXCEPT ![p] = IF batch[p] = {m} THEN "poll" ELSE "publish"]
    BY DEF Mark
  <1>2. TypeOK BY DEF Inv
  <1>3. /\ step'[p] \in {"poll", "publish"} /\ batch'[p] \subseteq batch[p] \ {m}
        /\ \A q \in Publishers \ {p} : step'[q] = step[q] /\ batch'[q] = batch[q]
    <2>1. batch' \in [Publishers -> SUBSET Messages] /\ step' \in [Publishers -> Steps]
      BY <1>2 DEF TypeOK
    <2>2. /\ batch'[p] = batch[p] \ {m}
          /\ \A q \in Publishers \ {p} : batch'[q] = batch[q]
      BY <1>1, <2>1
    <2>3. /\ step'[p] = IF batch[p] = {m} THEN "poll" ELSE "publish"
          /\ \A q \in Publishers \ {p} : step'[q] = step[q]
      BY <1>1, <2>1
    <2> QED BY <2>2, <2>3
  <1>4. /\ Holding(n)' \subseteq Holding(n)
        /\ n # m => Handing(n)' = Handing(n)
    <2>1. /\ AtMessage(p, m) /\ step[p] \in Marking \cup {"mark failed"}
          /\ step'[p] \in {"poll", "publish"}
          /\ batch'[p] \subseteq batch[p] \ {m}
          /\ \A q \in Publishers \ {p} : step'[q] = step[q] /\ batch'[q] = batch[q]
      BY <1>1, <1>3
    <2>2. Holding(n)' \subseteq Holding(n) BY <2>1, BatchGoesOn
    <2>3. ASSUME n # m PROVE Handing(n)' = Handing(n)
      <3>1. Handing(n) \subseteq Handing(n)' /\ Handing(n)' \subseteq Handing(n)
        BY <2>1, <2>3, BatchGoesOn
      <3> QED BY <3>1
    <2> QED BY <2>2, <2>3
  <1>5. status'[m] = value /\ \A x \in Messages \ {m} : status'[x] = status[x]
    BY <1>1, <1>2 DEF TypeOK
  <1>6. Owing(n)' = Owing(n) /\ sends'[n] = sends[n] BY <1>1 DEF Owing
  <1>7. CASE n = m
    <2>1. status[m] # "absent" BY <1>1 DEF AtMessage, Inv, RowsBeforeWork
    <2>2. status'[n] \in {"PUBLISHED", "FAILED"} BY <1>5, <1>7
    <2> QED BY <1>2, <1>4, <1>6, <1>7, <2>1, <2>2, Settled
  <1>8. CASE n # m
    <2>1. status'[n] = status[n] /\ Handing(n)' = Handing(n) BY <1>4, <1>5, <1>8
    <2> QED BY <1>2, <1>4, <1>6, <2>1, NotSent
  <1> QED BY <1>7, <1>8

(* A batch that is dropped forgets one send at most, and that counts as a fault. *)
LEMMA AbortSends ==
  ASSUME Inv, TypeOK', \A n \in Messages : SendsInv(n),
         NEW p \in Publishers, NEW m \in Messages, AbortBatch(p, m), NEW n \in Messages
  PROVE  SendsInv(n)'
  <1>1. /\ step[p] \in Marking \cup {"mark failed"} /\ AtMessage(p, m) /\ faults' = faults + 1
        /\ \/ UNCHANGED status
           \/ status' = [status EXCEPT ![m] =
                           IF step[p] = "mark failed" THEN "FAILED" ELSE "PUBLISHED"]
        /\ batch' = [batch EXCEPT ![p] = {}] /\ step' = [step EXCEPT ![p] = "poll"]
        /\ UNCHANGED <<replying, sends>>
    BY DEF AbortBatch, Fault
  <1>2. TypeOK BY DEF Inv
  <1>3. /\ step'[p] \in {"poll", "publish"} /\ batch'[p] \subseteq batch[p] \ {m}
        /\ \A q \in Publishers \ {p} : step'[q] = step[q] /\ batch'[q] = batch[q]
    BY <1>1, <1>2 DEF TypeOK
  <1>4. Holding(n)' \subseteq Holding(n) /\ Handing(n) \subseteq Handing(n)' \cup {p}
    BY <1>1, <1>3, BatchGoesOn
  <1>5. /\ \A x \in Messages \ {m} : status'[x] = status[x]
        /\ status'[m] = status[m] \/ status'[m] \in {"PUBLISHED", "FAILED"}
    BY <1>1, <1>2 DEF TypeOK
  <1>6. Owing(n)' = Owing(n) /\ sends'[n] = sends[n] BY <1>1 DEF Owing
  <1>7. CASE status'[n] = status[n] BY <1>1, <1>2, <1>4, <1>6, <1>7, NotSent
  <1>8. CASE status'[n] # status[n]
    <2>1. n = m /\ status'[n] \in {"PUBLISHED", "FAILED"} BY <1>5, <1>8
    <2>2. status[n] # "absent" BY <1>1, <2>1 DEF AtMessage, Inv, RowsBeforeWork
    <2> QED BY <1>1, <1>2, <1>4, <1>6, <2>1, <2>2, Settled
  <1> QED BY <1>7, <1>8

(* A crash forgets one send of a message at most. *)
LEMMA CrashSends ==
  ASSUME Inv, TypeOK', NEW n \in Messages, SendsInv(n), NEW p \in Publishers, Crash(p)
  PROVE  SendsInv(n)'
  <1>1. /\ replying' \subseteq replying /\ faults' = faults + 1 /\ UNCHANGED <<status, sends>>
        /\ batch' = [batch EXCEPT ![p] = {}] /\ step' = [step EXCEPT ![p] = "down"]
    BY DEF Crash, Fault
  <1>2. TypeOK BY DEF Inv
  <1>3. /\ step'[p] = "down" /\ batch'[p] = {}
        /\ \A q \in Publishers \ {p} : step'[q] = step[q] /\ batch'[q] = batch[q]
    BY <1>1, <1>2 DEF TypeOK
  <1>4. \A q \in Publishers \ {p} : /\ q \in Handing(n)' <=> q \in Handing(n)
                                    /\ q \in Holding(n)' <=> q \in Holding(n)
    BY <1>3, OtherPlaces
  <1>5. p \notin Holding(n)' BY <1>3 DEF Holding
  <1>6. Handing(n) \subseteq Publishers /\ Holding(n)' \subseteq Publishers
    BY DEF Handing, Holding
  <1>7. Holding(n)' \subseteq Holding(n) /\ Handing(n) \subseteq Handing(n)' \cup {p}
    BY <1>4, <1>5, <1>6
  <1>8. Owing(n)' \subseteq Owing(n) /\ sends'[n] = sends[n] /\ status'[n] = status[n]
    BY <1>1 DEF Owing
  <1> QED BY <1>1, <1>2, <1>7, <1>8, NotSent

(* A mark that raises leaves p where it was, and so does a restart. *)
LEMMA QuietSends ==
  ASSUME Inv, TypeOK', NEW n \in Messages, SendsInv(n),
         \/ \E p \in Publishers : MarkRaises(p) \/ Restart(p)
         \/ UNCHANGED outboxVars
  PROVE  SendsInv(n)'
  <1>1. TypeOK BY DEF Inv
  <1>2. ASSUME NEW p \in Publishers, MarkRaises(p) PROVE SendsInv(n)'
    <2>1. /\ step[p] = "mark" /\ faults' = faults + 1
          /\ UNCHANGED <<status, replying, sends, batch>>
          /\ step' = [step EXCEPT ![p] = "mark failed"]
      BY <1>2 DEF MarkRaises, Fault
    <2>2. step'[p] = "mark failed" /\ \A q \in Publishers \ {p} : step'[q] = step[q]
      BY <1>1, <2>1 DEF TypeOK
    <2>3. \A q \in Publishers :
            step'[q] \in Marking \cup {"mark failed"} <=> step[q] \in Marking \cup {"mark failed"}
      BY <2>1, <2>2 DEF Marking
    <2>4. Handing(n)' = Handing(n) /\ Owing(n)' = Owing(n)
      BY <2>1, <2>3 DEF Handing, AtMessage, Owing
    <2>5. Holding(n)' = Holding(n) BY <2>1, <2>4 DEF Holding
    <2>6. sends'[n] = sends[n] /\ status'[n] = status[n] BY <2>1
    <2> QED BY <1>1, <2>1, <2>4, <2>5, <2>6, NotSent
  <1>3. ASSUME NEW p \in Publishers, Restart(p) PROVE SendsInv(n)'
    <2>1. /\ step[p] = "down" /\ UNCHANGED <<status, replying, sends, batch, faults>>
          /\ step' = [step EXCEPT ![p] = "poll"]
      BY <1>3 DEF Restart
    <2>2. step'[p] = "poll" /\ \A q \in Publishers \ {p} : step'[q] = step[q]
      BY <1>1, <2>1 DEF TypeOK
    <2>3. \A q \in Publishers :
            step'[q] \in Marking \cup {"mark failed"} <=> step[q] \in Marking \cup {"mark failed"}
      BY <2>1, <2>2 DEF Marking
    <2>4. Handing(n)' = Handing(n) /\ Owing(n)' = Owing(n)
      BY <2>1, <2>3 DEF Handing, AtMessage, Owing
    <2>5. Holding(n)' = Holding(n) BY <2>1, <2>4 DEF Holding
    <2>6. sends'[n] = sends[n] /\ status'[n] = status[n] BY <2>1
    <2> QED BY <1>1, <2>1, <2>4, <2>5, <2>6, NotSent
  <1>4. CASE UNCHANGED outboxVars
    <2>1. UNCHANGED <<status, replying, sends, step, batch, faults>> BY <1>4 DEF outboxVars
    <2>2. Handing(n)' = Handing(n) /\ Owing(n)' = Owing(n)
      BY <2>1 DEF Handing, AtMessage, Owing
    <2>3. Holding(n)' = Holding(n) BY <2>1, <2>2 DEF Holding
    <2>4. sends'[n] = sends[n] /\ status'[n] = status[n] BY <2>1
    <2> QED BY <1>1, <2>1, <2>2, <2>3, <2>4, NotSent
  <1> QED BY <1>2, <1>3, <1>4

AllSendsInv == \A n \in Messages : SendsInv(n)

(* Every step keeps the count. *)
LEMMA StepSends == Inv /\ TypeOK' /\ AllSendsInv /\ [Next]_vars => AllSendsInv'
  <1> SUFFICES ASSUME Inv, TypeOK', \A n \in Messages : SendsInv(n), [Next]_vars,
                      NEW n \in Messages
               PROVE  SendsInv(n)'
    BY DEF AllSendsInv
  <1>1. ASSUME NEW p \in Publishers, NEW m \in Messages,
               Commit(p, m) \/ ImmediatePublish(p, m) \/ AbortBatch(p, m)
        PROVE  SendsInv(n)'
    BY <1>1, CommitSends, ImmediateSends, AbortSends
  <1>2. ASSUME NEW p \in Publishers, NEW m \in Messages,
               PublishMessage(p, m) \/ MarkPublished(p, m) \/ MarkFailed(p, m)
        PROVE  SendsInv(n)'
    <2>1. CASE PublishMessage(p, m) BY <2>1, PublishSends
    <2>2. CASE MarkPublished(p, m)
      <3>1. /\ step[p] \in Marking \cup {"mark failed"} /\ Mark(p, m, "PUBLISHED")
            /\ faults' = faults
        BY <2>2 DEF MarkPublished
      <3> QED BY <3>1, MarkSends
    <2>3. CASE MarkFailed(p, m)
      <3>1. /\ step[p] \in Marking \cup {"mark failed"} /\ Mark(p, m, "FAILED")
            /\ faults' = faults
        BY <2>3 DEF MarkFailed
      <3> QED BY <3>1, MarkSends
    <2> QED BY <1>2, <2>1, <2>2, <2>3
  <1>3. ASSUME NEW p \in Publishers, Poll(p) \/ Crash(p) \/ MarkRaises(p) \/ Restart(p)
        PROVE  SendsInv(n)'
    BY <1>3, PollSends, CrashSends, QuietSends
  <1>4. CASE UNCHANGED outboxVars BY <1>4, QuietSends
  <1>5. CASE UNCHANGED vars
    <2>1. UNCHANGED outboxVars BY <1>5 DEF vars
    <2> QED BY <2>1, <1>4
  <1> QED BY <1>1, <1>2, <1>3, <1>4, <1>5 DEF Next, Process

(* Duplicates are bounded by the request's own publish, one for each replica and one for
   each crash or failed commit, for any number of replicas, messages and faults. *)
THEOREM BoundedDuplicates == Spec => []DuplicatesBounded
  <1>1. Init => AllSendsInv
    BY DEF Init, AllSendsInv, SendsInv
  <1>2. Inv /\ AllSendsInv => DuplicatesBounded
    <2> SUFFICES ASSUME Inv, \A n \in Messages : SendsInv(n), NEW m \in Messages
                 PROVE  sends[m] =< 1 + Cardinality(Publishers) + faults
      BY DEF DuplicatesBounded, AllSendsInv
    <2>1. /\ sends[m] \in Nat /\ faults \in Nat
          /\ status[m] \in {"absent", "PENDING", "PUBLISHED", "FAILED"}
      BY OutboxAssumption DEF Inv, TypeOK
    <2>2. /\ Cardinality(Owing(m)) \in Nat /\ Cardinality(Handing(m)) \in Nat
          /\ Cardinality(Holding(m)) \in Nat /\ Cardinality(Publishers) \in Nat
          /\ Cardinality(Handing(m)) + Cardinality(Holding(m)) =< Cardinality(Publishers)
      BY Counts
    <2>3. CASE status[m] = "absent"
      <3>1. ~(sends[m] > 0) BY <2>3 DEF Inv, HandedHaveRows
      <3> QED BY <2>1, <2>2, <3>1
    <2>4. CASE status[m] = "PENDING"
      <3>1. sends[m] + Cardinality(Owing(m)) =< 1 + Cardinality(Handing(m)) + faults
        BY <2>4 DEF SendsInv
      <3> QED BY <2>1, <2>2, <3>1
    <2>5. CASE status[m] \in {"PUBLISHED", "FAILED"}
      <3>1. sends[m] + Cardinality(Owing(m)) + Cardinality(Holding(m))
              =< 1 + Cardinality(Publishers) + faults
        BY <2>5 DEF SendsInv
      <3> QED BY <2>1, <2>2, <3>1
    <2> QED BY <2>1, <2>3, <2>4, <2>5
  <1>3. Inv => TypeOK BY DEF Inv
  <1> QED BY <1>1, <1>2, <1>3, StepSends, InvHolds, PTL DEF Spec

-----------------------------------------------------------------------------
(* The refinement, step by step *)

(* No message is committed or handed over at first. *)
LEMMA InitRelay == Init => Relay!RelayInit
  BY DEF Init, Relay!RelayInit

(* A call of EventBus.publish hands over a committed message, or repeats it. *)
LEMMA SendIsHandOver ==
  ASSUME Inv, NEW p \in Publishers, NEW m \in Messages, Send(p, m),
         status[m] # "absent", UNCHANGED status
  PROVE  Relay!HandOver(m) \/ UNCHANGED Relay!relayVars
  <1>1. CASE sends[m] > 0
    <2>1. \A n \in Messages : sends'[n] > 0 <=> sends[n] > 0
      BY <1>1, SendCounts
    <2> QED BY <2>1 DEF Relay!relayVars
  <1>2. CASE ~(sends[m] > 0)
    <2>1. {n \in Messages : sends'[n] > 0} = {n \in Messages : sends[n] > 0} \cup {m}
      BY SendCounts
    <2> QED BY <1>2, <2>1 DEF Relay!HandOver
  <1> QED BY <1>1, <1>2

(* Marking a message does not change which messages have a row. *)
LEMMA RowsKeptStutter ==
  ASSUME UNCHANGED sends,
         \A n \in Messages : status'[n] = "absent" <=> status[n] = "absent"
  PROVE  UNCHANGED Relay!relayVars
  BY DEF Relay!relayVars

(* Every step is one of the relay, or changes nothing there. *)
LEMMA StepRelay == Inv /\ [Next]_vars => [Relay!RelayNext]_(Relay!relayVars)
  <1> SUFFICES ASSUME Inv, [Next]_vars
               PROVE  Relay!RelayNext \/ UNCHANGED Relay!relayVars
    OBVIOUS
  <1> USE DEF Inv
  <1>1. ASSUME NEW p \in Publishers, NEW m \in Messages, Commit(p, m)
        PROVE  Relay!CommitMessage(m)
    BY <1>1 DEF Commit, TypeOK, Relay!CommitMessage
  <1>2. ASSUME NEW p \in Publishers, NEW m \in Messages,
               ImmediatePublish(p, m) \/ PublishMessage(p, m)
        PROVE  Relay!HandOver(m) \/ UNCHANGED Relay!relayVars
    <2>1. status[m] # "absent" /\ Send(p, m) /\ UNCHANGED status
      BY <1>2 DEF ImmediatePublish, PublishMessage, AtMessage, RowsBeforeWork
    <2> QED BY <2>1, SendIsHandOver
  <1>3. ASSUME NEW p \in Publishers, NEW m \in Messages,
               MarkPublished(p, m) \/ MarkFailed(p, m) \/ AbortBatch(p, m)
        PROVE  UNCHANGED Relay!relayVars
    <2>1. UNCHANGED sends /\ status[m] # "absent"
      BY <1>3 DEF MarkPublished, MarkFailed, AbortBatch, Mark, AtMessage, RowsBeforeWork
    <2>2. \A n \in Messages : status'[n] = "absent" <=> status[n] = "absent"
      BY <1>3, <2>1 DEF MarkPublished, MarkFailed, AbortBatch, Mark, TypeOK
    <2> QED BY <2>1, <2>2, RowsKeptStutter
  <1>4. ASSUME NEW p \in Publishers, Poll(p) \/ MarkRaises(p) \/ Crash(p) \/ Restart(p)
        PROVE  UNCHANGED Relay!relayVars
    BY <1>4, RowsKeptStutter DEF Poll, MarkRaises, Crash, Restart
  <1>5. CASE UNCHANGED outboxVars
    BY <1>5, RowsKeptStutter DEF outboxVars
  <1>6. CASE UNCHANGED vars
    BY <1>6, RowsKeptStutter DEF vars, outboxVars
  <1> QED
    BY <1>1, <1>2, <1>3, <1>4, <1>5, <1>6 DEF Next, Process, Relay!RelayNext

(* The outbox table and its processors implement the relay's steps: only messages
   of committed transactions are ever handed to the event bus, and a row never
   disappears.  (That every message is handed over needs fairness and is checked
   by TLC as RelaysEveryMessage.) *)
THEOREM OutboxImplementsRelay ==
  Spec => Relay!RelayInit /\ [][Relay!RelayNext]_(Relay!relayVars)
  BY InitRelay, StepRelay, InvHolds, PTL DEF Spec
=============================================================================
