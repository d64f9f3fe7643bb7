-------------------------- MODULE RateLimiterProofs --------------------------
(***************************************************************************)
(* Theorems about RateLimiter, for any number of requests and replicas,    *)
(* any limit, window, delay and concurrency.                               *)
(***************************************************************************)
EXTENDS RateLimiter, FiniteSetTheorems, TLAPS

Started == {r \in Requests : pc[r] # "idle"}

(* A request reads the clock when it starts, and leaves within Delay. *)
ClocksInv ==
  /\ \A r \in Started : now[r] =< clock
  /\ \A r \in InMiddleware : clock =< now[r] + Delay

(* What was noted down is removed only when no request to come may count it. *)
KeptInv ==
  /\ \A r \in Requests :
       pc[r] = "admitted" /\ r \notin recorded => clock >= now[r] + Window
  /\ \A r \in Requests :
       pc[r] = "admitted locally" /\ r \notin history[replica[r]] => clock >= now[r] + Window

(* The requests of a shortened window that a count has let through. *)
Passed(t) ==
  {r \in Requests : /\ pc[r] \in {"record", "admitted"}
                    /\ now[r] > t - (Window - Delay) /\ now[r] =< t}

PassedInv ==
  \A t \in 0..Horizon : Cardinality(Passed(t)) =< MaxRequests + Concurrency - 1

SizesInv ==
  /\ IsFiniteSet(Started)
  /\ Cardinality(InMiddleware) =< Concurrency

(* What RejectedAtLimit counts. *)
Others(r, verdicts) ==
  {q \in Requests \ {r} : pc[q] \in verdicts /\ now[q] > now[r] - Window}

RejectedRightly(r) ==
  /\ pc[r] = "rejected" => Full(Others(r, Verdicts \ {"rejected"}))
  /\ pc[r] = "rejected locally" => Full(Others(r, {"admitted locally"}))

LocalAt(t, g) ==
  {r \in AdmittedIn("admitted locally", t, Window - Delay) : replica[r] = g}

Inv ==
  /\ TypeOK /\ history \in [Replicas -> SUBSET Requests]
  /\ SizesInv /\ ClocksInv /\ KeptInv /\ PassedInv
  /\ \A t \in 0..Horizon, g \in Replicas : Cardinality(LocalAt(t, g)) =< MaxRequests
  /\ \A r \in Requests : RejectedRightly(r)

(* The constants are numbers. *)
LEMMA Numbers ==
  /\ MaxRequests \in Nat \ {0} /\ Window \in Nat \ {0} /\ Concurrency \in Nat \ {0}
  /\ Horizon \in Nat /\ Delay \in Nat /\ Delay =< Window
  BY RateLimiterAssumption

(* A part of a finite set is finite and no larger. *)
LEMMA Part ==
  ASSUME NEW S, NEW T, IsFiniteSet(T), S \subseteq T
  PROVE  /\ IsFiniteSet(S) /\ Cardinality(S) \in Nat /\ Cardinality(T) \in Nat
         /\ Cardinality(S) =< Cardinality(T)
  <1>1. IsFiniteSet(S) /\ Cardinality(S) =< Cardinality(T) BY FS_Subset
  <1> QED BY <1>1, FS_CardinalityType

(* One element more. *)
LEMMA OneMore ==
  ASSUME NEW S, NEW T, NEW x, IsFiniteSet(S), T \subseteq S \cup {x}
  PROVE  /\ IsFiniteSet(T) /\ Cardinality(T) \in Nat /\ Cardinality(S) \in Nat
         /\ Cardinality(T) =< Cardinality(S) + 1
  <1>1. /\ IsFiniteSet(S \cup {x}) /\ Cardinality(S) \in Nat
        /\ \/ Cardinality(S \cup {x}) = Cardinality(S)
           \/ Cardinality(S \cup {x}) = Cardinality(S) + 1
    BY FS_AddElement, FS_CardinalityType
  <1>2. /\ IsFiniteSet(T) /\ Cardinality(T) \in Nat
        /\ Cardinality(T) =< Cardinality(S \cup {x})
    BY <1>1, Part
  <1> QED BY <1>1, <1>2

(* What covers a set bounds it. *)
LEMMA Cover ==
  ASSUME NEW S, NEW A, NEW B, IsFiniteSet(A), IsFiniteSet(B), S \subseteq A \cup B
  PROVE  Cardinality(S) =< Cardinality(A) + Cardinality(B)
  <1>1. /\ IsFiniteSet(A \cup B)
        /\ Cardinality(A \cup B) = Cardinality(A) + Cardinality(B) - Cardinality(A \cap B)
    BY FS_Union
  <1>2. /\ Cardinality(A) \in Nat /\ Cardinality(B) \in Nat
        /\ Cardinality(A \cap B) \in Nat
    BY Part, FS_CardinalityType
  <1>3. Cardinality(S) \in Nat /\ Cardinality(S) =< Cardinality(A \cup B) BY <1>1, Part
  <1> QED BY <1>1, <1>2, <1>3

(* Before the first request nothing is counted. *)
LEMMA InitInv == Init => Inv
  <1> SUFFICES ASSUME Init PROVE Inv
    OBVIOUS
  <1> USE Numbers DEF Init
  <1>1. TypeOK /\ history \in [Replicas -> SUBSET Requests] BY DEF TypeOK
  <1>2. Started = {} /\ InMiddleware = {} BY DEF Started, InMiddleware
  <1>3. SizesInv BY <1>2, FS_EmptySet DEF SizesInv
  <1>4. ClocksInv /\ KeptInv BY <1>2 DEF ClocksInv, KeptInv
  <1>5. ASSUME NEW t \in 0..Horizon PROVE Cardinality(Passed(t)) =< MaxRequests + Concurrency - 1
    <2>1. Passed(t) = {} BY DEF Passed
    <2> QED BY <2>1, FS_EmptySet
  <1>6. ASSUME NEW t \in 0..Horizon, NEW g \in Replicas
        PROVE  Cardinality(LocalAt(t, g)) =< MaxRequests
    <2>1. LocalAt(t, g) = {} BY DEF LocalAt, AdmittedIn
    <2> QED BY <2>1, FS_EmptySet
  <1>7. \A r \in Requests : RejectedRightly(r) BY DEF RejectedRightly
  <1> QED BY <1>1, <1>3, <1>4, <1>5, <1>6, <1>7 DEF Inv, PassedInv

-----------------------------------------------------------------------------
(* What was rejected rightly stays so, since verdicts are final. *)
LEMMA VerdictsFinal ==
  ASSUME TypeOK, IsFiniteSet(Started'), NEW r \in Requests, pc[r] \in Verdicts,
         \A q \in Requests : pc[q] \in Verdicts => pc'[q] = pc[q] /\ now'[q] = now[q],
         RejectedRightly(r)
  PROVE  RejectedRightly(r)'
  <1>1. ASSUME NEW V \in SUBSET Verdicts, Full(Others(r, V)) PROVE Full(Others(r, V)')
    <2>1. Others(r, V) \subseteq Others(r, V)' BY DEF Others
    <2>2. Others(r, V)' \subseteq Started' BY DEF Others, Started, Verdicts
    <2>3. IsFiniteSet(Others(r, V)') BY <2>2, Part
    <2>4. /\ Cardinality(Others(r, V)) \in Nat /\ Cardinality(Others(r, V)') \in Nat
          /\ Cardinality(Others(r, V)) =< Cardinality(Others(r, V)')
      BY <2>1, <2>3, Part
    <2> QED BY <1>1, <2>4, Numbers DEF Full
  <1>2. Verdicts \ {"rejected"} \in SUBSET Verdicts /\ {"admitted locally"} \in SUBSET Verdicts
    BY DEF Verdicts
  <1>3. pc'[r] = pc[r] OBVIOUS
  <1>4. Full(Others(r, Verdicts \ {"rejected"})) => Full(Others(r, Verdicts \ {"rejected"})')
    BY <1>1, <1>2
  <1>5. Full(Others(r, {"admitted locally"})) => Full(Others(r, {"admitted locally"})')
    BY <1>1, <1>2
  <1> QED BY <1>3, <1>4, <1>5 DEF RejectedRightly, Full, Others, Verdicts

(* Time passes only while nobody has stayed for the whole Delay. *)
LEMMA TickInv == Inv /\ Tick => Inv'
  <1> SUFFICES ASSUME Inv, Tick PROVE Inv'
    OBVIOUS
  <1> USE Numbers
  <1>1. /\ clock \in 0..Horizon /\ clock < Horizon /\ clock' = clock + 1
        /\ now \in [Requests -> 0..Horizon]
        /\ UNCHANGED <<pc, now, replica, recorded, history>>
        /\ \A r \in InMiddleware : clock < now[r] + Delay
    BY DEF Tick, Inv, TypeOK
  <1>2. TypeOK' /\ (history \in [Replicas -> SUBSET Requests])'
    <2>1. TypeOK /\ history \in [Replicas -> SUBSET Requests] BY DEF Inv
    <2>2. clock' \in 0..Horizon BY <1>1
    <2> QED BY <1>1, <2>1, <2>2 DEF TypeOK
  <1>3. SizesInv' BY <1>1 DEF Inv, SizesInv, Started, InMiddleware
  <1>4. ClocksInv' BY <1>1 DEF Inv, ClocksInv, Started, InMiddleware
  <1>5. KeptInv'
    <2>1. KeptInv BY DEF Inv
    <2>2. \A r \in Requests : clock >= now[r] + Window => clock' >= now'[r] + Window BY <1>1
    <2> QED BY <1>1, <2>1, <2>2 DEF KeptInv
  <1>6. PassedInv' BY <1>1 DEF Inv, PassedInv, Passed
  <1>7. \A t \in 0..Horizon, g \in Replicas : (Cardinality(LocalAt(t, g)) =< MaxRequests)'
    BY <1>1 DEF Inv, LocalAt, AdmittedIn
  <1>8. \A r \in Requests : RejectedRightly(r)'
    BY <1>1 DEF Inv, RejectedRightly, Others
  <1> QED BY <1>2, <1>3, <1>4, <1>5, <1>6, <1>7, <1>8 DEF Inv

(* A request that starts has passed no count yet. *)
LEMMA DispatchInv == ASSUME Inv, NEW r \in Requests, Dispatch(r) PROVE Inv'
  <1> USE Numbers
  <1>1. /\ pc[r] = "idle" /\ pc'[r] = "count" /\ now'[r] = clock /\ clock \in 0..Horizon
        /\ \A q \in Requests \ {r} : pc'[q] = pc[q] /\ now'[q] = now[q]
        /\ UNCHANGED <<clock, replica, recorded, history>>
        /\ Cardinality(InMiddleware) < Concurrency
        /\ now \in [Requests -> 0..Horizon]
    BY DEF Dispatch, Goto, Inv, TypeOK
  <1>2. TypeOK' /\ (history \in [Replicas -> SUBSET Requests])'
    <2>1. /\ pc' \in [Requests -> {"idle", "count", "record"} \cup Verdicts]
          /\ now' \in [Requests -> 0..Horizon]
      BY DEF Dispatch, Goto, Inv, TypeOK
    <2>2. TypeOK /\ history \in [Replicas -> SUBSET Requests] BY DEF Inv
    <2>3. recorded' \subseteq
            {q \in Requests : pc'[q] \in {"admitted", "admitted locally", "rejected locally"}}
      BY <1>1, <2>2 DEF TypeOK
    <2>4. ASSUME NEW g \in Replicas, NEW q \in history'[g]
          PROVE  q \in Requests /\ pc'[q] = "admitted locally" /\ replica'[q] = g
      <3>1. q \in history[g] BY <1>1
      <3>2. q \in Requests /\ pc[q] = "admitted locally" /\ replica[q] = g
        BY <2>2, <3>1 DEF TypeOK
      <3> QED BY <1>1, <3>2
    <2> QED BY <1>1, <2>1, <2>2, <2>3, <2>4 DEF TypeOK
  <1>3. SizesInv'
    <2>1. Started' \subseteq Started \cup {r} BY <1>1 DEF Started
    <2>2. InMiddleware' \subseteq InMiddleware \cup {r} BY <1>1 DEF InMiddleware
    <2>3. InMiddleware \subseteq Started BY DEF InMiddleware, Started
    <2>4. IsFiniteSet(Started) BY DEF Inv, SizesInv
    <2>5. IsFiniteSet(InMiddleware) BY <2>3, <2>4, Part
    <2>6. IsFiniteSet(Started') BY <2>1, <2>4, OneMore
    <2>7. /\ Cardinality(InMiddleware') \in Nat /\ Cardinality(InMiddleware) \in Nat
          /\ Cardinality(InMiddleware') =< Cardinality(InMiddleware) + 1
      BY <2>2, <2>5, OneMore
    <2> QED BY <1>1, <2>6, <2>7 DEF SizesInv
  <1>4. ClocksInv' BY <1>1 DEF Inv, ClocksInv, Started, InMiddleware
  <1>5. KeptInv' BY <1>1 DEF Inv, KeptInv
  <1>6. ASSUME NEW t \in 0..Horizon PROVE Passed(t)' = Passed(t) BY <1>1 DEF Passed
  <1>7. ASSUME NEW t \in 0..Horizon, NEW g \in Replicas PROVE LocalAt(t, g)' = LocalAt(t, g)
    BY <1>1 DEF LocalAt, AdmittedIn
  <1>8. ASSUME NEW q \in Requests PROVE RejectedRightly(q)'
    <2>1. CASE pc[q] \in Verdicts
      <3>1. IsFiniteSet(Started') BY <1>3 DEF SizesInv
      <3>2. \A p \in Requests : pc[p] \in Verdicts => pc'[p] = pc[p] /\ now'[p] = now[p]
        BY <1>1 DEF Verdicts
      <3>3. TypeOK /\ RejectedRightly(q) BY DEF Inv
      <3> QED BY <2>1, <3>1, <3>2, <3>3, VerdictsFinal
    <2>2. CASE pc[q] \notin Verdicts
      <3>1. pc'[q] \notin {"rejected", "rejected locally"} BY <1>1, <2>2 DEF Verdicts
      <3> QED BY <3>1 DEF RejectedRightly
    <2> QED BY <2>1, <2>2
  <1>9. PassedInv' BY <1>6 DEF Inv, PassedInv
  <1>10. \A t \in 0..Horizon, g \in Replicas : (Cardinality(LocalAt(t, g)) =< MaxRequests)'
    BY <1>7 DEF Inv
  <1> QED BY <1>2, <1>3, <1>4, <1>5, <1>8, <1>9, <1>10 DEF Inv

(* A request moves on, or out, in no time: what Count, Record and FallBack share. *)
Moves(r) ==
  /\ pc[r] \in {"count", "record"} /\ pc'[r] \in {"record"} \cup Verdicts
  /\ \A q \in Requests \ {r} : pc'[q] = pc[q]
  /\ pc' \in [Requests -> {"idle", "count", "record"} \cup Verdicts]
  /\ UNCHANGED <<clock, now, replica>>

(* Nobody enters the middleware by it, and the other requests keep their verdicts. *)
LEMMA Moved ==
  ASSUME Inv, NEW r \in Requests, Moves(r)
  PROVE  /\ SizesInv' /\ ClocksInv'
         /\ \A q \in Requests \ {r} : RejectedRightly(q)'
  <1> USE Numbers
  <1>1. Started' = Started /\ InMiddleware' \subseteq InMiddleware
    BY DEF Moves, Started, InMiddleware, Verdicts
  <1>2. SizesInv'
    <2>1. InMiddleware \subseteq Started BY DEF InMiddleware, Started
    <2>2. IsFiniteSet(Started) /\ Cardinality(InMiddleware) =< Concurrency BY DEF Inv, SizesInv
    <2>3. IsFiniteSet(InMiddleware) BY <2>1, <2>2, Part
    <2>4. /\ Cardinality(InMiddleware') \in Nat /\ Cardinality(InMiddleware) \in Nat
          /\ Cardinality(InMiddleware') =< Cardinality(InMiddleware)
      BY <1>1, <2>3, Part
    <2> QED BY <1>1, <2>2, <2>4 DEF SizesInv
  <1>3. ClocksInv' BY <1>1 DEF Inv, ClocksInv, Moves
  <1>4. ASSUME NEW q \in Requests, q # r PROVE RejectedRightly(q)'
    <2>1. CASE pc[q] \in Verdicts
      <3>1. IsFiniteSet(Started') BY <1>2 DEF SizesInv
      <3>2. \A p \in Requests : pc[p] \in Verdicts => pc'[p] = pc[p] /\ now'[p] = now[p]
        BY DEF Verdicts, Moves
      <3>3. TypeOK /\ RejectedRightly(q) BY DEF Inv
      <3> QED BY <2>1, <3>1, <3>2, <3>3, VerdictsFinal
    <2>2. CASE pc[q] \notin Verdicts
      <3>1. pc'[q] \notin {"rejected", "rejected locally"} BY <1>4, <2>2 DEF Verdicts, Moves
      <3> QED BY <3>1 DEF RejectedRightly
    <2> QED BY <2>1, <2>2
  <1> QED BY <1>2, <1>3, <1>4

(* Recent removes only what no request to come may count. *)
LEMMA RemovedIsOver ==
  ASSUME Inv, NEW r \in InMiddleware, NEW S \in SUBSET Requests, NEW q \in S, q \notin Recent(S, r)
  PROVE  clock >= now[q] + Window
  <1> USE Numbers
  <1>1. r \in Requests /\ r \in Started BY DEF InMiddleware, Started
  <1>2. now[r] =< clock BY <1>1 DEF Inv, ClocksInv
  <1>3. clock \in 0..Horizon /\ now \in [Requests -> 0..Horizon] BY DEF Inv, TypeOK
  <1>4. clock \in Nat /\ now[q] \in Nat /\ now[r] \in Nat BY <1>1, <1>3
  <1>5. ~(now[q] > now[r] - Window) BY DEF Recent
  <1> QED BY <1>2, <1>4, <1>5

(* A shortened window that holds r holds only requests that r's own window covers, and
   that are not over yet. *)
LEMMA WindowOpen ==
  ASSUME Inv, NEW r \in InMiddleware, NEW q \in Requests, NEW t \in 0..Horizon,
         now[r] =< t, now[q] > t - (Window - Delay)
  PROVE  now[q] > now[r] - Window /\ ~(clock >= now[q] + Window)
  <1> USE Numbers
  <1>1. r \in Requests BY DEF InMiddleware
  <1>2. clock =< now[r] + Delay BY DEF Inv, ClocksInv
  <1>3. clock \in 0..Horizon /\ now \in [Requests -> 0..Horizon] BY DEF Inv, TypeOK
  <1>4. clock \in Nat /\ now[q] \in Nat /\ now[r] \in Nat BY <1>1, <1>3
  <1> QED BY <1>2, <1>4

(* The sorted set holds verdicts, none of which is r's or a rejection through Redis. *)
LEMMA RecordedAreOthers ==
  ASSUME Inv, NEW r \in InMiddleware
  PROVE  /\ r \notin recorded /\ recorded \subseteq Requests
         /\ Recent(recorded, r) \subseteq Others(r, Verdicts \ {"rejected"})
         /\ IsFiniteSet(recorded)
  <1>1. recorded \subseteq
          {q \in Requests : pc[q] \in {"admitted", "admitted locally", "rejected locally"}}
    BY DEF Inv, TypeOK
  <1>2. r \notin recorded BY <1>1 DEF InMiddleware
  <1>3. Recent(recorded, r) \subseteq Others(r, Verdicts \ {"rejected"})
    BY <1>1, <1>2 DEF Recent, Others, Verdicts
  <1>4. recorded \subseteq Started BY <1>1 DEF Started
  <1>5. IsFiniteSet(recorded) BY <1>4, Part DEF Inv, SizesInv
  <1> QED BY <1>1, <1>2, <1>3, <1>5

(* A request changes the sets by itself and by removing what is over. *)
LEMMA NotedDown ==
  ASSUME Inv, NEW r \in Requests, Moves(r),
         recorded' \subseteq recorded \cup {r},
         r \in recorded' => pc'[r] \in {"admitted", "admitted locally", "rejected locally"},
         pc'[r] = "admitted" => r \in recorded',
         \A q \in recorded \ recorded' : clock >= now[q] + Window,
         history' \in [Replicas -> SUBSET Requests],
         \A g \in Replicas : history'[g] \subseteq history[g] \cup {r},
         \A g \in Replicas : r \in history'[g] => pc'[r] = "admitted locally" /\ replica[r] = g,
         pc'[r] = "admitted locally" => r \in history'[replica[r]],
         \A g \in Replicas : \A q \in history[g] \ history'[g] : clock >= now[q] + Window
  PROVE  TypeOK' /\ KeptInv'
  <1>1. TypeOK /\ KeptInv BY DEF Inv
  <1>2. /\ \A q \in Requests \ {r} : pc'[q] = pc[q]
        /\ pc[r] \in {"count", "record"}
        /\ pc' \in [Requests -> {"idle", "count", "record"} \cup Verdicts]
        /\ UNCHANGED <<clock, now, replica>>
    BY DEF Moves
  <1>3. TypeOK'
    <2>1. ASSUME NEW q \in recorded'
          PROVE  q \in Requests /\ pc'[q] \in {"admitted", "admitted locally", "rejected locally"}
      <3>1. CASE q = r BY <3>1
      <3>2. CASE q # r
        <4>1. q \in Requests /\ pc[q] \in {"admitted", "admitted locally", "rejected locally"}
          BY <1>1, <3>2 DEF TypeOK
        <4> QED BY <1>2, <3>2, <4>1
      <3> QED BY <3>1, <3>2
    <2>2. ASSUME NEW g \in Replicas, NEW q \in history'[g]
          PROVE  q \in Requests /\ pc'[q] = "admitted locally" /\ replica[q] = g
      <3>1. CASE q = r BY <3>1
      <3>2. CASE q # r
        <4>0. q \in history[g] BY <3>2
        <4>1. q \in Requests /\ pc[q] = "admitted locally" /\ replica[q] = g
          BY <1>1, <4>0 DEF TypeOK
        <4> QED BY <1>2, <3>2, <4>1
      <3> QED BY <3>1, <3>2
    <2>3. /\ clock' \in 0..Horizon /\ now' \in [Requests -> 0..Horizon]
          /\ replica' \in [Requests -> Replicas]
      BY <1>1, <1>2 DEF TypeOK
    <2> QED BY <1>2, <2>1, <2>2, <2>3 DEF TypeOK
  <1>4. ASSUME NEW q \in Requests, pc'[q] = "admitted", q \notin recorded'
        PROVE  clock >= now[q] + Window
    <2>1. q # r /\ pc[q] = "admitted" BY <1>2, <1>4
    <2>2. CASE q \in recorded BY <1>4, <2>2
    <2>3. CASE q \notin recorded BY <1>1, <2>1, <2>3 DEF KeptInv
    <2> QED BY <2>2, <2>3
  <1>5. ASSUME NEW q \in Requests, pc'[q] = "admitted locally", q \notin history'[replica[q]]
        PROVE  clock >= now[q] + Window
    <2>1. q # r /\ pc[q] = "admitted locally" BY <1>2, <1>5
    <2>2. replica[q] \in Replicas BY <1>1 DEF TypeOK
    <2>3. CASE q \in history[replica[q]] BY <1>5, <2>2, <2>3
    <2>4. CASE q \notin history[replica[q]] BY <1>1, <2>1, <2>4 DEF KeptInv
    <2> QED BY <2>3, <2>4
  <1> QED BY <1>2, <1>3, <1>4, <1>5 DEF KeptInv

(* The count and its verdict are one step. *)
LEMMA CountInv == ASSUME Inv, NEW r \in Requests, Count(r) PROVE Inv'
  <1> USE Numbers
  <1> DEFINE step == IF Full(Recent(recorded, r)) THEN "rejected" ELSE "record"
  <1>1. /\ pc[r] = "count" /\ recorded' = Recent(recorded, r)
        /\ UNCHANGED <<clock, now, replica, history>>
        /\ pc' = [pc EXCEPT ![r] = step]
    BY DEF Count, Goto
  <1>2. step \in {"rejected", "record"} /\ (step = "rejected" <=> Full(Recent(recorded, r)))
    OBVIOUS
  <1> HIDE DEF step
  <1>3. TypeOK /\ history \in [Replicas -> SUBSET Requests] BY DEF Inv
  <1>4. Moves(r) /\ pc'[r] = step BY <1>1, <1>2, <1>3 DEF Moves, TypeOK, Verdicts
  <1>5. r \in InMiddleware BY <1>1 DEF InMiddleware
  <1>6. SizesInv' /\ ClocksInv' /\ \A q \in Requests \ {r} : RejectedRightly(q)' BY <1>4, Moved
  <1>7. TypeOK' /\ KeptInv'
    <2>1. /\ recorded' \subseteq recorded /\ recorded \subseteq Requests /\ r \notin recorded
          /\ \A q \in recorded \ recorded' : clock >= now[q] + Window
      BY <1>1, <1>5, RecordedAreOthers, RemovedIsOver DEF Recent
    <2>2. \A g \in Replicas : r \notin history[g] BY <1>1, <1>3 DEF TypeOK
    <2>3. pc'[r] \notin {"admitted", "admitted locally"} BY <1>2, <1>4
    <2> QED BY <1>1, <1>3, <1>4, <2>1, <2>2, <2>3, NotedDown
  <1>8. ASSUME NEW t \in 0..Horizon PROVE Cardinality(Passed(t)') =< MaxRequests + Concurrency - 1
    <2>1. Cardinality(Passed(t)) =< MaxRequests + Concurrency - 1 BY DEF Inv, PassedInv
    <2>2. \A q \in Requests \ {r} : pc'[q] = pc[q] BY <1>4 DEF Moves
    <2>3. CASE r \notin Passed(t)'
      <3>1. r \notin Passed(t) BY <1>1 DEF Passed
      <3>2. Passed(t)' = Passed(t) BY <1>1, <2>2, <2>3, <3>1 DEF Passed
      <3> QED BY <2>1, <3>2
    <2>4. CASE r \in Passed(t)'
      <3> DEFINE rest == InMiddleware \ {r}
                 seen == Recent(recorded, r)
      <3>1. now[r] =< t /\ pc'[r] \in {"record", "admitted"} BY <1>1, <2>4 DEF Passed
      <3>2. ~Full(seen) BY <1>2, <1>4, <3>1
      <3>3. Passed(t)' \subseteq (rest \cup seen) \cup {r}
        <4>1. ASSUME NEW q \in Passed(t)', q # r PROVE q \in rest \cup seen
          <5>1. q \in Requests /\ pc[q] \in {"record", "admitted"} /\ now[q] > t - (Window - Delay)
            BY <1>1, <2>2, <4>1 DEF Passed
          <5>2. CASE pc[q] = "record" BY <4>1, <5>1, <5>2 DEF InMiddleware
          <5>3. CASE pc[q] = "admitted"
            <6>1. now[q] > now[r] - Window /\ ~(clock >= now[q] + Window)
              BY <1>5, <3>1, <5>1, WindowOpen
            <6>2. q \in recorded BY <5>1, <5>3, <6>1 DEF Inv, KeptInv
            <6> QED BY <6>1, <6>2 DEF Recent
          <5> QED BY <5>1, <5>2, <5>3
        <4> QED BY <4>1
      <3>4. /\ IsFiniteSet(rest) /\ Cardinality(rest) \in Nat /\ Cardinality(rest) =< Concurrency - 1
        <4>1. InMiddleware \subseteq Started BY DEF InMiddleware, Started
        <4>2. IsFiniteSet(Started) /\ Cardinality(InMiddleware) =< Concurrency BY DEF Inv, SizesInv
        <4>3. IsFiniteSet(InMiddleware) /\ Cardinality(InMiddleware) \in Nat BY <4>1, <4>2, Part
        <4>4. IsFiniteSet(rest) /\ Cardinality(rest) = Cardinality(InMiddleware) - 1
          BY <1>5, <4>3, FS_RemoveElement
        <4>5. Cardinality(rest) \in Nat BY <4>4, FS_CardinalityType
        <4> QED BY <4>2, <4>3, <4>4, <4>5
      <3>5. IsFiniteSet(seen) /\ Cardinality(seen) \in Nat
        <4>1. IsFiniteSet(recorded) /\ seen \subseteq recorded BY <1>5, RecordedAreOthers DEF Recent
        <4> QED BY <4>1, Part
      <3>6. Cardinality(seen) =< MaxRequests - 1 BY <3>2, <3>5 DEF Full
      <3> HIDE DEF rest, seen
      <3>7. IsFiniteSet(rest \cup seen) /\ Cardinality(rest \cup seen) \in Nat
            /\ Cardinality(rest \cup seen) =< Cardinality(rest) + Cardinality(seen)
        BY <3>4, <3>5, FS_Union, FS_CardinalityType, Cover
      <3>8. /\ Cardinality(Passed(t)') \in Nat
            /\ Cardinality(Passed(t)') =< Cardinality(rest \cup seen) + 1
        BY <3>3, <3>7, OneMore
      <3> QED BY <3>4, <3>5, <3>6, <3>7, <3>8
    <2> QED BY <2>3, <2>4
  <1>9. ASSUME NEW t \in 0..Horizon, NEW g \in Replicas
         PROVE  Cardinality(LocalAt(t, g)') =< MaxRequests
    <2>1. LocalAt(t, g)' = LocalAt(t, g)
      BY <1>1, <1>2, <1>4 DEF Moves, LocalAt, AdmittedIn
    <2> QED BY <2>1 DEF Inv
  <1>10. RejectedRightly(r)'
    <2>1. CASE step = "record" BY <1>4, <2>1 DEF RejectedRightly
    <2>2. CASE step = "rejected"
      <3> DEFINE seen == Recent(recorded, r)
                 others == Others(r, Verdicts \ {"rejected"})'
      <3>1. seen \subseteq Others(r, Verdicts \ {"rejected"}) BY <1>5, RecordedAreOthers
      <3>2. Others(r, Verdicts \ {"rejected"}) \subseteq others
        BY <1>1, <1>4 DEF Others, Moves
      <3>3. others \subseteq Started' BY DEF Others, Started, Verdicts
      <3>4. IsFiniteSet(others) BY <1>6, <3>3, Part DEF SizesInv
      <3>5. /\ Cardinality(seen) \in Nat /\ Cardinality(others) \in Nat
            /\ Cardinality(seen) =< Cardinality(others)
        BY <3>1, <3>2, <3>4, Part
      <3>6. Full(others) BY <1>2, <2>2, <3>5 DEF Full
      <3>7. Full(Others(r, Verdicts \ {"rejected"}))' BY <3>6 DEF Full
      <3> QED BY <1>4, <2>2, <3>7 DEF RejectedRightly
    <2> QED BY <1>2, <2>1, <2>2
  <1>11. (history \in [Replicas -> SUBSET Requests])' BY <1>1, <1>3
  <1>12. PassedInv' BY <1>8 DEF PassedInv
  <1> QED BY <1>6, <1>7, <1>9, <1>10, <1>11, <1>12 DEF Inv

(* The count let the request through; its record changes no count of others. *)
LEMMA RecordInv == ASSUME Inv, NEW r \in Requests, Record(r) PROVE Inv'
  <1> USE Numbers
  <1>1. /\ pc[r] = "record" /\ recorded' = recorded \cup {r} /\ pc' = [pc EXCEPT ![r] = "admitted"]
        /\ UNCHANGED <<clock, now, replica, history>>
    BY DEF Record, Goto
  <1>2. TypeOK /\ history \in [Replicas -> SUBSET Requests] BY DEF Inv
  <1>3. Moves(r) /\ pc'[r] = "admitted" BY <1>1, <1>2 DEF Moves, TypeOK, Verdicts
  <1>4. SizesInv' /\ ClocksInv' /\ \A q \in Requests \ {r} : RejectedRightly(q)' BY <1>3, Moved
  <1>5. TypeOK' /\ KeptInv'
    <2>1. \A g \in Replicas : r \notin history[g] BY <1>1, <1>2 DEF TypeOK
    <2> QED BY <1>1, <1>2, <1>3, <2>1, NotedDown
  <1>6. \A q \in Requests \ {r} : pc'[q] = pc[q] BY <1>3 DEF Moves
  <1>7. \A t \in 0..Horizon : Passed(t)' = Passed(t) BY <1>1, <1>3, <1>6 DEF Passed
  <1>8. \A t \in 0..Horizon, g \in Replicas : LocalAt(t, g)' = LocalAt(t, g)
    BY <1>1, <1>3, <1>6 DEF LocalAt, AdmittedIn
  <1>9. PassedInv' BY <1>7 DEF Inv, PassedInv
  <1>10. \A t \in 0..Horizon, g \in Replicas : (Cardinality(LocalAt(t, g)) =< MaxRequests)'
    BY <1>8 DEF Inv
  <1>11. RejectedRightly(r)' BY <1>3 DEF RejectedRightly
  <1>12. (history \in [Replicas -> SUBSET Requests])' BY <1>1, <1>2
  <1> QED BY <1>4, <1>5, <1>9, <1>10, <1>11, <1>12 DEF Inv

(* The fallback counts and notes down at once, in the memory of one replica. *)
LEMMA FallBackInv == ASSUME Inv, NEW r \in Requests, FallBack(r) PROVE Inv'
  <1> USE Numbers
  <1> DEFINE g0 == replica[r]
             kept == Recent(history[g0], r)
  <1>1. /\ pc[r] \in {"count", "record"} /\ UNCHANGED <<clock, now, replica>>
        /\ \/ UNCHANGED recorded
           \/ recorded' = Recent(recorded, r)
           \/ recorded' = recorded \cup {r}
        /\ \/ /\ Full(kept)
              /\ pc' = [pc EXCEPT ![r] = "rejected locally"]
              /\ history' = [history EXCEPT ![g0] = kept]
           \/ /\ ~Full(kept)
              /\ pc' = [pc EXCEPT ![r] = "admitted locally"]
              /\ history' = [history EXCEPT ![g0] = kept \cup {r}]
    BY DEF FallBack, CheckMemory, Goto
  <1>2. TypeOK /\ history \in [Replicas -> SUBSET Requests] BY DEF Inv
  <1>3. /\ g0 \in Replicas /\ kept \subseteq history[g0] /\ history[g0] \subseteq Requests
        /\ \A g \in Replicas : r \notin history[g]
    BY <1>1, <1>2 DEF TypeOK, Recent
  <1>4. r \in InMiddleware BY <1>1 DEF InMiddleware
  <1>5. \A q \in history[g0] \ kept : clock >= now[q] + Window BY <1>3, <1>4, RemovedIsOver
  <1>6. /\ kept \subseteq {q \in Requests \ {r} : pc[q] = "admitted locally" /\ replica[q] = g0}
        /\ IsFiniteSet(kept) /\ Cardinality(kept) \in Nat
    <2>1. ASSUME NEW q \in history[g0] PROVE pc[q] = "admitted locally" /\ replica[q] = g0
      BY <1>2, <1>3 DEF TypeOK
    <2>2. kept \subseteq Started BY <1>3, <2>1 DEF Started
    <2>3. IsFiniteSet(Started) BY DEF Inv, SizesInv
    <2> QED BY <1>3, <2>1, <2>2, <2>3, Part
  <1>7. \A q \in kept : now[q] > now[r] - Window BY DEF Recent
  <1> DEFINE verdict == pc'[r]
  <1>8. /\ Moves(r)
        /\ \/ /\ Full(kept) /\ verdict = "rejected locally"
              /\ history' = [history EXCEPT ![g0] = kept]
           \/ /\ ~Full(kept) /\ verdict = "admitted locally"
              /\ history' = [history EXCEPT ![g0] = kept \cup {r}]
    <2>1. pc \in [Requests -> {"idle", "count", "record"} \cup Verdicts] BY <1>2 DEF TypeOK
    <2>2. /\ verdict \in {"rejected locally", "admitted locally"}
          /\ \A q \in Requests \ {r} : pc'[q] = pc[q]
          /\ pc' \in [Requests -> {"idle", "count", "record"} \cup Verdicts]
      BY <1>1, <2>1 DEF Verdicts
    <2>3. Moves(r) BY <1>1, <2>2 DEF Moves, Verdicts
    <2>4. \A v : pc' = [pc EXCEPT ![r] = v] => verdict = v BY <2>1
    <2> HIDE DEF kept, g0, verdict
    <2> QED BY <1>1, <2>3, <2>4
  <1>9. SizesInv' /\ ClocksInv' /\ \A q \in Requests \ {r} : RejectedRightly(q)' BY <1>8, Moved
  <1>10. /\ verdict = "admitted locally" => ~(Cardinality(kept) >= MaxRequests)
         /\ verdict = "rejected locally" => Cardinality(kept) >= MaxRequests
    BY <1>8 DEF Full
  <1>11. IsFiniteSet(kept) /\ Cardinality(kept) \in Nat BY <1>6
  <1> HIDE DEF kept, g0
  <1>12. /\ history' \in [Replicas -> SUBSET Requests]
         /\ \A g \in Replicas \ {g0} : history'[g] = history[g]
         /\ kept \subseteq history'[g0]
         /\ history'[g0] \subseteq kept \cup {r}
         /\ r \in history'[g0] <=> verdict = "admitted locally"
    BY <1>2, <1>3, <1>8
  <1>13. TypeOK' /\ KeptInv'
    <2>1. recorded' \subseteq recorded \cup {r} BY <1>1 DEF Recent
    <2>2. verdict \in {"admitted locally", "rejected locally"} BY <1>8
    <2>3. ASSUME NEW q \in recorded \ recorded' PROVE clock >= now[q] + Window
      <3>1. recorded \in SUBSET Requests BY <1>4, RecordedAreOthers
      <3>2. q \in recorded /\ q \notin Recent(recorded, r) BY <1>1, <2>3
      <3> QED BY <1>4, <3>1, <3>2, RemovedIsOver
    <2>4. \A g \in Replicas : history'[g] \subseteq history[g] \cup {r}
      <3>1. ASSUME NEW g \in Replicas PROVE history'[g] \subseteq history[g] \cup {r}
        <4>1. CASE g = g0 BY <1>3, <1>12, <4>1
        <4>2. CASE g # g0 BY <1>12, <4>2
        <4> QED BY <4>1, <4>2
      <3> QED BY <3>1
    <2>5. \A g \in Replicas : r \in history'[g] => verdict = "admitted locally" /\ replica[r] = g
      BY <1>3, <1>12 DEF g0
    <2>6. verdict = "admitted locally" => r \in history'[replica[r]] BY <1>12 DEF g0
    <2>7. \A g \in Replicas : \A q \in history[g] \ history'[g] : clock >= now[q] + Window
      <3>1. ASSUME NEW g \in Replicas, NEW q \in history[g] \ history'[g]
            PROVE  clock >= now[q] + Window
        <4>1. g = g0 /\ q \in history[g0] \ kept BY <1>12, <3>1
        <4> QED BY <1>5, <4>1
      <3> QED BY <3>1
    <2> QED BY <1>8, <1>12, <2>1, <2>2, <2>3, <2>4, <2>5, <2>6, <2>7, NotedDown
  <1>14. \A q \in Requests \ {r} : pc'[q] = pc[q] BY <1>8 DEF Moves
  <1>15. ASSUME NEW t \in 0..Horizon
         PROVE  Cardinality(Passed(t))' =< MaxRequests + Concurrency - 1
    <2>1. Passed(t)' \subseteq Passed(t) BY <1>1, <1>8, <1>14 DEF Passed
    <2>2. Passed(t) \subseteq Started BY DEF Passed, Started
    <2>3. IsFiniteSet(Passed(t)) BY <2>2, Part DEF Inv, SizesInv
    <2>4. /\ Cardinality(Passed(t)') \in Nat /\ Cardinality(Passed(t)) \in Nat
          /\ Cardinality(Passed(t)') =< Cardinality(Passed(t))
      BY <2>1, <2>3, Part
    <2>5. Cardinality(Passed(t)) =< MaxRequests + Concurrency - 1 BY DEF Inv, PassedInv
    <2> QED BY <2>4, <2>5
  <1>16. ASSUME NEW t \in 0..Horizon, NEW g \in Replicas
         PROVE  Cardinality(LocalAt(t, g))' =< MaxRequests
    <2>1. Cardinality(LocalAt(t, g)) =< MaxRequests BY DEF Inv
    <2>2. CASE r \notin LocalAt(t, g)'
      <3>1. r \notin LocalAt(t, g) BY <1>1 DEF LocalAt, AdmittedIn
      <3>2. LocalAt(t, g)' = LocalAt(t, g) BY <1>1, <1>14, <2>2, <3>1 DEF LocalAt, AdmittedIn
      <3> QED BY <2>1, <3>2
    <2>3. CASE r \in LocalAt(t, g)'
      <3>1. g = g0 /\ verdict = "admitted locally" /\ now[r] =< t
        BY <1>1, <2>3 DEF LocalAt, AdmittedIn, g0
      <3>2. Cardinality(kept) =< MaxRequests - 1
        <4>1. ~(Cardinality(kept) >= MaxRequests) BY <1>10, <3>1
        <4> QED BY <1>11, <4>1
      <3>3. LocalAt(t, g)' \subseteq kept \cup {r}
        <4>1. ASSUME NEW q \in LocalAt(t, g)', q # r PROVE q \in kept
          <5>1. /\ q \in Requests /\ pc[q] = "admitted locally" /\ replica[q] = g0
                /\ now[q] > t - (Window - Delay)
            BY <1>1, <1>14, <3>1, <4>1 DEF LocalAt, AdmittedIn
          <5>2. ~(clock >= now[q] + Window) BY <1>4, <3>1, <5>1, WindowOpen
          <5>3. q \in history[g0] BY <5>1, <5>2 DEF Inv, KeptInv
          <5> QED BY <1>5, <5>2, <5>3
        <4> QED BY <4>1
      <3>4. /\ Cardinality(LocalAt(t, g)') \in Nat
            /\ Cardinality(LocalAt(t, g)') =< Cardinality(kept) + 1
        BY <1>6, <3>3, OneMore
      <3> QED BY <1>11, <3>2, <3>4
    <2> QED BY <2>2, <2>3
  <1>17. RejectedRightly(r)'
    <2>1. CASE verdict = "admitted locally" BY <2>1 DEF RejectedRightly
    <2>2. CASE verdict = "rejected locally"
      <3> DEFINE others == Others(r, {"admitted locally"})'
      <3>1. kept \subseteq others BY <1>1, <1>6, <1>7, <1>14 DEF Others
      <3>2. others \subseteq Started' BY DEF Others, Started
      <3>3. IsFiniteSet(others) BY <1>9, <3>2, Part DEF SizesInv
      <3>4. /\ Cardinality(others) \in Nat /\ Cardinality(kept) =< Cardinality(others)
        BY <3>1, <3>3, Part
      <3>5. Full(Others(r, {"admitted locally"}))' 
        <4>1. Cardinality(kept) >= MaxRequests BY <1>10, <2>2
        <4>2. Cardinality(others) >= MaxRequests
          <5> HIDE DEF others
          <5> QED BY <1>11, <3>4, <4>1
        <4> QED BY <4>2 DEF Full
      <3> QED BY <2>2, <3>5 DEF RejectedRightly
    <2> QED BY <1>8, <2>1, <2>2
  <1>18. PassedInv' BY <1>15 DEF PassedInv
  <1> QED BY <1>9, <1>12, <1>13, <1>16, <1>17, <1>18 DEF Inv

(* Every step keeps the invariant. *)
LEMMA NextInv == Inv /\ [Next]_vars => Inv'
  <1> SUFFICES ASSUME Inv, [Next]_vars PROVE Inv'
    OBVIOUS
  <1>1. CASE Tick BY <1>1, TickInv
  <1>2. ASSUME NEW r \in Requests, Dispatch(r) \/ Count(r) \/ Record(r) \/ FallBack(r) PROVE Inv'
    BY <1>2, DispatchInv, CountInv, RecordInv, FallBackInv
  <1>3. CASE UNCHANGED vars
    <2> USE <1>3 DEF vars
    <2>1. TypeOK' /\ (history \in [Replicas -> SUBSET Requests])' BY DEF Inv, TypeOK
    <2>2. SizesInv' /\ ClocksInv'
      BY DEF Inv, SizesInv, ClocksInv, Started, InMiddleware
    <2>3. KeptInv' BY DEF Inv, KeptInv
    <2>4. PassedInv' BY DEF Inv, PassedInv, Passed
    <2>5. \A t \in 0..Horizon, g \in Replicas : (Cardinality(LocalAt(t, g)) =< MaxRequests)'
      BY DEF Inv, LocalAt, AdmittedIn
    <2>6. \A r \in Requests : RejectedRightly(r)' BY DEF Inv, RejectedRightly, Others
    <2> QED BY <2>1, <2>2, <2>3, <2>4, <2>5, <2>6 DEF Inv
  <1> QED BY <1>1, <1>2, <1>3 DEF Next

(* So it holds in every state of every behaviour. *)
LEMMA AlwaysInv == Spec => []Inv
  BY InitInv, NextInv, PTL DEF Spec

-----------------------------------------------------------------------------
(* Types of the middleware; in particular the memory of a replica holds only requests
   that this replica let through without Redis. *)
THEOREM LimiterTypes == Spec => []TypeOK
  <1>1. Inv => TypeOK BY DEF Inv
  <1> QED BY <1>1, AlwaysInv, PTL

(* Two separate round trips to Redis, shared by any number of replicas, let through no
   more than the limit and the requests that are in the middleware at once. *)
THEOREM OverrunIsBounded == Spec => []OverrunBounded
  <1>1. Inv => OverrunBounded
    <2> SUFFICES ASSUME Inv, NEW t \in 0..Horizon
                 PROVE  Cardinality(AdmittedIn("admitted", t, Window - Delay))
                          =< MaxRequests + Concurrency - 1
      BY DEF OverrunBounded
    <2> USE Numbers
    <2>1. AdmittedIn("admitted", t, Window - Delay) \subseteq Passed(t) BY DEF AdmittedIn, Passed
    <2>2. Passed(t) \subseteq Started BY DEF Passed, Started
    <2>3. IsFiniteSet(Passed(t)) BY <2>2, Part DEF Inv, SizesInv
    <2>4. /\ Cardinality(AdmittedIn("admitted", t, Window - Delay)) \in Nat
          /\ Cardinality(Passed(t)) \in Nat
          /\ Cardinality(AdmittedIn("admitted", t, Window - Delay)) =< Cardinality(Passed(t))
      BY <2>1, <2>3, Part
    <2> QED BY <2>4 DEF Inv, PassedInv
  <1> QED BY <1>1, AlwaysInv, PTL

(* A replica that has lost Redis keeps to the limit in every window shortened by the longest
   stay in the middleware. *)
THEOREM LocalLimit == Spec => []LocalLimitHolds
  <1>1. Inv => LocalLimitHolds BY DEF Inv, LocalLimitHolds, LocalAt
  <1> QED BY <1>1, AlwaysInv, PTL

(* Nobody is rejected below the limit, by Redis or by the memory of a replica. *)
THEOREM NoEarlyRejection == Spec => []RejectedAtLimit
  <1>1. Inv => RejectedAtLimit BY DEF Inv, RejectedAtLimit, RejectedRightly, Others
  <1> QED BY <1>1, AlwaysInv, PTL
=============================================================================
