----------------------------- MODULE UsersProofs ----------------------------
(***************************************************************************)
(* Proofs about Users for any number of accounts and requests, any jobs    *)
(* and any durations: types, columns that change only as asked, and authority  *)
(* that expires.                                                           *)
(***************************************************************************)
EXTENDS Users, TLAPS

(* What the types of a request at each of its steps are, and whose it is. *)
KindOf(r) ==
  /\ pc[r] \in {"idle"} \cup Answers <=> job[r] = NoJob
  /\ job[r].op \in {"update", "delete", "guarded"} => bearer[r] \in tokens
  /\ pc[r] = "commit" /\ job[r].op \in {"update", "delete"} => loaded[r] # None
  /\ pc[r] = "issue" => loaded[r] # None

StepOf(r) ==
  /\ pc[r] = "load" => job[r].op \in {"update", "delete"}
  /\ pc[r] = "lookup" => job[r].op \in {"register", "login", "update"}
  /\ pc[r] = "lookup" /\ job[r].op = "update" => loaded[r] # None
  /\ pc[r] = "issue" => job[r].op = "login" /\ bearer[r] \in Token
  /\ pc[r] = "commit" => job[r].op \in {"register", "update", "delete"}
  /\ pc[r] = "refresh" => job[r].op \in {"register", "update"}
  /\ pc[r] = "act" => job[r].op = "guarded"
  /\ job[r].op \in {"update", "delete"} =>
       bearer[r].role = "ADMIN" \/ bearer[r].sub = job[r].target
  /\ job[r].op = "update" => bearer[r].role = "ADMIN" \/ job[r].role = Keep

Control == \A r \in Requests : StepOf(r)

TypeInv == TypeOK /\ Control

USE DEF Roles, Answers

-----------------------------------------------------------------------------
(* Jobs are told apart by their op. *)
LEMMA JobKinds ==
  ASSUME NEW j \in Job \cup {NoJob}
  PROVE  /\ j.op = "register" <=> j \in Registration
         /\ j.op = "login" <=> j \in Login
         /\ j.op = "update" <=> j \in Update
         /\ j.op = "delete" <=> j \in Deletion
         /\ j.op = "guarded" <=> j \in Elsewhere
         /\ j.op = "none" <=> j = NoJob
  BY DEF Job, NoJob, Registration, Login, Update, Deletion, Elsewhere

(* A request that has no job asks for none. *)
LEMMA NoJobIsNoJob == NoJob \notin Job
  BY DEF Job, NoJob, Registration, Login, Update, Deletion, Elsewhere

(* Never is a time before every other. *)
LEMMA NeverIsPast == Never \in Int /\ \A t \in 0..Horizon : Never < t
  BY UsersAssumption DEF Never

(* A token made for a row is a token. *)
LEMMA TokenForType ==
  ASSUME NEW id \in Ids, NEW row \in Row, NEW t \in 0..Horizon
  PROVE  TokenFor(id, row, t) \in Token
  BY DEF TokenFor, Token, Row

(* Whatever a request writes, the table keeps its type. *)
LEMMA AfterType ==
  ASSUME TypeOK, NEW r \in Requests, job[r].op \in {"register", "update", "delete"},
         job[r].op = "update" => loaded[r] # None
  PROVE  After(r) \in [Ids -> Row \cup {None}]
  <1>1. /\ rows \in [Ids -> Row \cup {None}] /\ job[r] \in Job \cup {NoJob}
        /\ loaded[r] \in Row \cup {None} /\ r \in Ids
    BY DEF TypeOK, Ids
  <1>2. CASE job[r].op = "register"
    <2>1. job[r] \in Registration BY <1>1, <1>2, JobKinds
    <2>2. [email |-> job[r].email, role |-> job[r].role, active |-> TRUE] \in Row
      BY <2>1 DEF Registration, Row
    <2> QED BY <1>1, <1>2, <2>2 DEF After, Registered
  <1>3. CASE job[r].op = "update"
    <2>1. job[r] \in Update /\ loaded[r] \in Row BY <1>1, <1>3, JobKinds
    <2> DEFINE t == job[r].target
               now == rows[t]
               row == [email  |-> Flushed(job[r].email, loaded[r].email, now.email),
                       role   |-> Flushed(job[r].role, loaded[r].role, now.role),
                       active |-> Flushed(job[r].active, loaded[r].active, now.active)]
    <2>2. t \in Ids BY <2>1 DEF Update
    <2>3. ASSUME now # None PROVE row \in Row
      <3>1. now \in Row BY <1>1, <2>2, <2>3
      <3>2. Flushed(job[r].email, loaded[r].email, now.email) \in Emails
        BY <3>1, <2>1 DEF Flushed, Row, Update
      <3>3. Flushed(job[r].role, loaded[r].role, now.role) \in Roles
        BY <3>1, <2>1 DEF Flushed, Row, Update
      <3>4. Flushed(job[r].active, loaded[r].active, now.active) \in BOOLEAN
        BY <3>1, <2>1 DEF Flushed, Row, Update
      <3> QED BY <3>2, <3>3, <3>4 DEF Row
    <2>4. After(r) = [rows EXCEPT ![t] = IF now = None THEN None ELSE row]
      BY <1>3, <1>1, <2>2 DEF After, Updated
    <2> QED BY <1>1, <2>2, <2>3, <2>4
  <1>4. CASE job[r].op = "delete"
    <2>1. job[r] \in Deletion BY <1>1, <1>4, JobKinds
    <2> QED BY <1>1, <1>4, <2>1 DEF After, Deleted, Deletion
  <1> QED BY <1>2, <1>3, <1>4

(* The history variable keeps its type. *)
LEMMA HeldType ==
  ASSUME TypeOK, NEW table, NEW t \in 0..Horizon
  PROVE  HeldAt(table, t) \in [Ids -> [Roles -> {Never} \cup 0..Horizon]]
  BY DEF TypeOK, HeldAt

-----------------------------------------------------------------------------
(* A request that a step leaves alone keeps what its step says of it. *)
LEMMA Bystander ==
  ASSUME TypeInv, NEW s \in Requests, tokens \subseteq tokens',
         pc'[s] = pc[s], job'[s] = job[s], bearer'[s] = bearer[s], loaded'[s] = loaded[s]
  PROVE  KindOf(s)' /\ StepOf(s)'
  <1>1. KindOf(s) BY DEF TypeInv, TypeOK, KindOf
  <1>2. KindOf(s)' BY <1>1 DEF KindOf
  <1>3. StepOf(s) BY DEF TypeInv, Control
  <1>4. StepOf(s)' BY <1>3 DEF StepOf
  <1> QED BY <1>2, <1>4

(* Where a request can be. *)
Steps == {"idle", "load", "lookup", "commit", "refresh", "issue", "act"} \cup Answers

(* A step that sets the fields of one request, typed, and keeps the others typed. *)
LEMMA OneMoves ==
  ASSUME TypeInv, NEW r \in Requests, tokens \subseteq tokens', tokens' \subseteq Token,
         clock' \in 0..Horizon, rows' \in [Ids -> Row \cup {None}],
         lastHeld' \in [Ids -> [Roles -> {Never} \cup 0..Horizon]],
         NEW p \in Steps, pc' = [pc EXCEPT ![r] = p],
         NEW j \in Job \cup {NoJob}, job' = [job EXCEPT ![r] = j],
         NEW b \in Token \cup {None}, bearer' = [bearer EXCEPT ![r] = b],
         NEW t \in 0..Horizon, began' = [began EXCEPT ![r] = t],
         NEW w \in Row \cup {None}, loaded' = [loaded EXCEPT ![r] = w],
         KindOf(r)', StepOf(r)'
  PROVE  TypeInv'
  <1>1. /\ pc \in [Requests -> Steps] /\ job \in [Requests -> Job \cup {NoJob}]
        /\ bearer \in [Requests -> Token \cup {None}] /\ began \in [Requests -> 0..Horizon]
        /\ loaded \in [Requests -> Row \cup {None}]
    BY DEF TypeInv, TypeOK, Steps
  <1>2. /\ pc' \in [Requests -> Steps] /\ job' \in [Requests -> Job \cup {NoJob}]
        /\ bearer' \in [Requests -> Token \cup {None}] /\ began' \in [Requests -> 0..Horizon]
        /\ loaded' \in [Requests -> Row \cup {None}]
    BY <1>1
  <1>3. ASSUME NEW s \in Requests PROVE KindOf(s)' /\ StepOf(s)'
    <2>1. CASE s = r BY <2>1
    <2>2. CASE s # r
      <3>1. /\ pc'[s] = pc[s] /\ job'[s] = job[s] /\ bearer'[s] = bearer[s]
            /\ loaded'[s] = loaded[s]
        BY <1>1, <2>2
      <3> QED BY <3>1, Bystander
    <2> QED BY <2>1, <2>2
  <1>4. Control' BY <1>3 DEF Control
  <1>5. TypeOK' BY <1>2, <1>3 DEF TypeOK, KindOf, Steps
  <1> QED BY <1>4, <1>5 DEF TypeInv

(* An answered request holds nothing. *)
LEMMA FinishType ==
  ASSUME TypeInv, NEW r \in Requests, NEW answer \in Answers, Finish(r, answer),
         tokens \subseteq tokens', tokens' \subseteq Token, clock' \in 0..Horizon,
         rows' \in [Ids -> Row \cup {None}],
         lastHeld' \in [Ids -> [Roles -> {Never} \cup 0..Horizon]]
  PROVE  TypeInv'
  <1>1. /\ pc' = [pc EXCEPT ![r] = answer] /\ job' = [job EXCEPT ![r] = NoJob]
        /\ bearer' = [bearer EXCEPT ![r] = None] /\ began' = [began EXCEPT ![r] = 0]
        /\ loaded' = [loaded EXCEPT ![r] = None]
    BY DEF Finish
  <1>2. pc'[r] = answer /\ job'[r] = NoJob
    BY <1>1 DEF TypeInv, TypeOK
  <1>3. KindOf(r)' /\ StepOf(r)' BY <1>2 DEF KindOf, StepOf, NoJob
  <1>4. answer \in Steps /\ 0 \in 0..Horizon BY UsersAssumption DEF Steps
  <1> QED BY <1>1, <1>3, <1>4, OneMoves

(* A request that goes on keeps what it holds. *)
LEMMA GotoType ==
  ASSUME TypeInv, NEW r \in Requests, NEW p \in {"commit", "refresh"}, Goto(r, p),
         job[r] # NoJob, tokens' = tokens, clock' \in 0..Horizon,
         rows' \in [Ids -> Row \cup {None}],
         lastHeld' \in [Ids -> [Roles -> {Never} \cup 0..Horizon]],
         p = "commit" => /\ job[r].op \in {"register", "update", "delete"}
                         /\ job[r].op \in {"update", "delete"} => loaded[r] # None,
         p = "refresh" => job[r].op \in {"register", "update"}
  PROVE  TypeInv'
  <1>1. /\ pc' = [pc EXCEPT ![r] = p] /\ job' = job /\ bearer' = bearer
        /\ began' = began /\ loaded' = loaded
    BY DEF Goto
  <1>2. /\ pc'[r] = p /\ r \in Requests /\ job[r] \in Job \cup {NoJob}
        /\ bearer[r] \in Token \cup {None} /\ began[r] \in 0..Horizon
        /\ loaded[r] \in Row \cup {None} /\ tokens \subseteq Token
    BY <1>1 DEF TypeInv, TypeOK
  <1>3. /\ job' = [job EXCEPT ![r] = job[r]] /\ bearer' = [bearer EXCEPT ![r] = bearer[r]]
        /\ began' = [began EXCEPT ![r] = began[r]]
        /\ loaded' = [loaded EXCEPT ![r] = loaded[r]]
    BY <1>1 DEF TypeInv, TypeOK
  <1>4. KindOf(r) BY DEF TypeInv, TypeOK, KindOf
  <1>5. KindOf(r)' BY <1>1, <1>2, <1>4 DEF KindOf
  <1>6. StepOf(r) BY DEF TypeInv, Control
  <1>7. StepOf(r)' BY <1>1, <1>2, <1>6 DEF StepOf
  <1>8. p \in Steps BY DEF Steps
  <1> QED BY <1>1, <1>2, <1>3, <1>5, <1>7, <1>8, OneMoves

-----------------------------------------------------------------------------
(* The initial states are typed. *)
LEMMA InitType == Init => TypeInv
  <1> SUFFICES ASSUME Init PROVE TypeInv
    OBVIOUS
  <1>1. /\ NoJob \notin Job /\ NoJob.op = "none" /\ 0 \in 0..Horizon
        /\ FirstRow \in [Accounts -> Row]
    BY UsersAssumption, NoJobIsNoJob DEF NoJob
  <1>2. /\ rows \in [Ids -> Row \cup {None}]
        /\ lastHeld \in [Ids -> [Roles -> {Never} \cup 0..Horizon]]
    BY <1>1 DEF Init
  <1>3. tokens \subseteq Token
    <2>1. ASSUME NEW a \in Accounts PROVE TokenFor(a, FirstRow[a], 0) \in Token
      BY <1>1, TokenForType DEF Ids
    <2> QED BY <2>1 DEF Init
  <1>4. TypeOK
    BY <1>1, <1>2, <1>3 DEF Init, TypeOK
  <1>5. Control BY <1>1 DEF Init, Control, StepOf
  <1> QED BY <1>4, <1>5 DEF TypeInv

-----------------------------------------------------------------------------
(* Every step keeps the types. A request arrives without a token, *)
LEMMA ArriveType ==
  ASSUME TypeInv, NEW r \in Requests, Arrive(r)
  PROVE  TypeInv'
  <1>1. PICK j \in Jobs : /\ j.op \in {"register", "login"} /\ job' = [job EXCEPT ![r] = j]
                          /\ began' = [began EXCEPT ![r] = IF j.op = "login" THEN clock ELSE 0]
    BY DEF Arrive
  <1>2. /\ pc' = [pc EXCEPT ![r] = "lookup"] /\ bearer' = bearer /\ loaded' = loaded
        /\ clock' = clock /\ rows' = rows /\ tokens' = tokens /\ lastHeld' = lastHeld
    BY DEF Arrive
  <1>3. /\ clock \in 0..Horizon /\ rows \in [Ids -> Row \cup {None}] /\ tokens \subseteq Token
        /\ lastHeld \in [Ids -> [Roles -> {Never} \cup 0..Horizon]]
        /\ bearer[r] \in Token \cup {None} /\ loaded[r] \in Row \cup {None}
    BY DEF TypeInv, TypeOK
  <1>4. /\ bearer' = [bearer EXCEPT ![r] = bearer[r]]
        /\ loaded' = [loaded EXCEPT ![r] = loaded[r]]
    BY <1>2 DEF TypeInv, TypeOK
  <1>5. /\ j \in Job /\ j # NoJob /\ "lookup" \in Steps
        /\ (IF j.op = "login" THEN clock ELSE 0) \in 0..Horizon
    BY <1>3, JobsAssumption, NoJobIsNoJob, UsersAssumption DEF Steps
  <1>6. pc'[r] = "lookup" /\ job'[r] = j
    BY <1>1, <1>2 DEF TypeInv, TypeOK
  <1>7. KindOf(r)' /\ StepOf(r)' BY <1>1, <1>5, <1>6 DEF KindOf, StepOf
  <1> HIDE DEF Steps
  <1> QED BY <1>1, <1>2, <1>3, <1>4, <1>5, <1>7, OneMoves

(* What a route that lets an update or a deletion in has established. *)
LEMMA AllowedParts ==
  ASSUME NEW token, NEW j, Allowed(token, j)
  PROVE  /\ j.op \in {"update", "delete"} => token.role = "ADMIN" \/ token.sub = j.target
         /\ j.op = "update" => token.role = "ADMIN" \/ j.role = Keep
  <1>1. CASE j.op = "update" BY <1>1 DEF Allowed
  <1>2. CASE j.op = "delete" BY <1>2 DEF Allowed
  <1> QED BY <1>1, <1>2

(* is let in with one, *)
LEMMA AdmitType ==
  ASSUME TypeInv, NEW r \in Requests, NEW j \in Jobs, NEW token \in tokens,
         j.op \in {"update", "delete", "guarded"}, Admit(r, j, token),
         UNCHANGED <<clock, rows, tokens, lastHeld>>
  PROVE  TypeInv'
  <1> DEFINE p == IF j.op = "guarded" THEN "act" ELSE "load"
  <1>1. /\ pc' = [pc EXCEPT ![r] = p] /\ job' = [job EXCEPT ![r] = j]
        /\ bearer' = [bearer EXCEPT ![r] = token] /\ began' = began /\ loaded' = loaded
        /\ Allowed(token, j)
    BY DEF Admit
  <1>2. /\ clock \in 0..Horizon /\ rows \in [Ids -> Row \cup {None}] /\ tokens \subseteq Token
        /\ lastHeld \in [Ids -> [Roles -> {Never} \cup 0..Horizon]]
        /\ began[r] \in 0..Horizon /\ loaded[r] \in Row \cup {None}
    BY DEF TypeInv, TypeOK
  <1>3. /\ began' = [began EXCEPT ![r] = began[r]] /\ loaded' = [loaded EXCEPT ![r] = loaded[r]]
    BY <1>1 DEF TypeInv, TypeOK
  <1>4. j \in Job /\ j # NoJob /\ p \in Steps /\ token \in Token
    BY <1>2, JobsAssumption, NoJobIsNoJob DEF Steps
  <1>5. pc'[r] = p /\ job'[r] = j /\ bearer'[r] = token
    BY <1>1 DEF TypeInv, TypeOK
  <1>6. KindOf(r)' BY <1>4, <1>5 DEF KindOf
  <1>7. /\ j.op \in {"update", "delete"} => token.role = "ADMIN" \/ token.sub = j.target
        /\ j.op = "update" => token.role = "ADMIN" \/ j.role = Keep
    BY <1>1, AllowedParts
  <1>8. StepOf(r)' BY <1>5, <1>7 DEF StepOf
  <1> HIDE DEF p
  <1> QED BY <1>1, <1>2, <1>3, <1>4, <1>6, <1>8, OneMoves

(* or is sent away with it; *)
LEMMA ArriveWithTokenType ==
  ASSUME TypeInv, NEW r \in Requests, ArriveWithToken(r)
  PROVE  TypeInv'
  <1>1. PICK j \in Jobs, token \in tokens :
          /\ j.op \in {"update", "delete", "guarded"}
          /\ Finish(r, "401") \/ Finish(r, "403") \/ Admit(r, j, token)
    BY DEF ArriveWithToken
  <1>2. UNCHANGED <<clock, rows, tokens, lastHeld>> BY DEF ArriveWithToken
  <1>3. /\ clock' \in 0..Horizon /\ rows' \in [Ids -> Row \cup {None}] /\ tokens' \subseteq Token
        /\ lastHeld' \in [Ids -> [Roles -> {Never} \cup 0..Horizon]] /\ tokens \subseteq tokens'
    BY <1>2 DEF TypeInv, TypeOK
  <1>4. CASE Finish(r, "401") \/ Finish(r, "403") BY <1>3, <1>4, FinishType
  <1>5. CASE Admit(r, j, token) BY <1>1, <1>2, <1>5, AdmitType
  <1> QED BY <1>1, <1>4, <1>5

(* it is answered and nothing else changes; *)
LEMMA AnswerType ==
  ASSUME TypeInv, NEW r \in Requests, NEW answer \in Answers, Finish(r, answer),
         UNCHANGED <<clock, rows, tokens, lastHeld>>
  PROVE  TypeInv'
  <1>1. /\ clock' \in 0..Horizon /\ rows' \in [Ids -> Row \cup {None}] /\ tokens' \subseteq Token
        /\ lastHeld' \in [Ids -> [Roles -> {Never} \cup 0..Horizon]] /\ tokens \subseteq tokens'
    BY DEF TypeInv, TypeOK
  <1> QED BY <1>1, FinishType

(* it reads the row of its target, *)
LEMMA LoadType ==
  ASSUME TypeInv, NEW r \in Requests, Load(r)
  PROVE  TypeInv'
  <1> DEFINE row == rows[job[r].target]
             p == IF job[r].op = "update" /\ job[r].email \notin {Keep, row.email}
                    THEN "lookup" ELSE "commit"
  <1>1. UNCHANGED <<clock, rows, tokens, lastHeld>> /\ pc[r] = "load" BY DEF Load
  <1>2. CASE Finish(r, "404") BY <1>1, <1>2, AnswerType
  <1>3. CASE /\ row # None /\ loaded' = [loaded EXCEPT ![r] = row]
             /\ pc' = [pc EXCEPT ![r] = p] /\ UNCHANGED <<job, bearer, began>>
    <2>1. /\ job[r].op \in {"update", "delete"} /\ StepOf(r) /\ KindOf(r)
      BY <1>1 DEF TypeInv, Control, TypeOK, KindOf, StepOf
    <2>2. /\ clock \in 0..Horizon /\ rows \in [Ids -> Row \cup {None}] /\ tokens \subseteq Token
          /\ lastHeld \in [Ids -> [Roles -> {Never} \cup 0..Horizon]]
          /\ job[r] \in Job \cup {NoJob} /\ bearer[r] \in Token \cup {None}
          /\ began[r] \in 0..Horizon
      BY DEF TypeInv, TypeOK
    <2>3. job[r].target \in Ids
      BY <2>1, <2>2, JobKinds DEF Update, Deletion
    <2>4. row \in Row \cup {None} /\ p \in Steps BY <2>2, <2>3 DEF Steps
    <2>5. /\ job' = [job EXCEPT ![r] = job[r]] /\ bearer' = [bearer EXCEPT ![r] = bearer[r]]
          /\ began' = [began EXCEPT ![r] = began[r]]
      BY <1>3 DEF TypeInv, TypeOK
    <2>6. /\ pc'[r] = p /\ loaded'[r] = row /\ job'[r] = job[r] /\ bearer'[r] = bearer[r]
      BY <1>3 DEF TypeInv, TypeOK
    <2>7. p \in {"lookup", "commit"} /\ (p = "lookup" => job[r].op = "update") OBVIOUS
    <2>8. job[r] # NoJob BY <2>1 DEF NoJob
    <2> HIDE DEF p, row
    <2>9. KindOf(r)' BY <1>1, <1>3, <2>1, <2>6, <2>7, <2>8 DEF KindOf
    <2>10. StepOf(r)' BY <1>3, <2>1, <2>6, <2>7 DEF StepOf
    <2> QED BY <1>1, <1>3, <2>2, <2>4, <2>5, <2>9, <2>10, OneMoves
  <1> QED BY <1>2, <1>3 DEF Load

(* looks for the owner of an address, *)
LEMMA LookUpEmailType ==
  ASSUME TypeInv, NEW r \in Requests, LookUpEmail(r)
  PROVE  TypeInv'
  <1>1. /\ UNCHANGED <<clock, rows, tokens, lastHeld>> /\ pc[r] = "lookup"
        /\ job[r].op \in {"register", "update"} /\ (Goto(r, "commit") \/ Finish(r, "409"))
    BY DEF LookUpEmail
  <1>2. CASE Finish(r, "409") BY <1>1, <1>2, AnswerType
  <1>3. CASE Goto(r, "commit")
    <2>1. StepOf(r) BY DEF TypeInv, Control
    <2>2. job[r].op = "update" => loaded[r] # None BY <1>1, <2>1 DEF StepOf
    <2>3. /\ clock' \in 0..Horizon /\ rows' \in [Ids -> Row \cup {None}]
          /\ lastHeld' \in [Ids -> [Roles -> {Never} \cup 0..Horizon]] /\ job[r] # NoJob
      BY <1>1 DEF TypeInv, TypeOK, NoJob
    <2> QED BY <1>1, <1>3, <2>2, <2>3, GotoType
  <1> QED BY <1>1, <1>2, <1>3

(* finds the account of a login, *)
LEMMA LookUpLoginType ==
  ASSUME TypeInv, NEW r \in Requests, LookUpLogin(r)
  PROVE  TypeInv'
  <1>1. /\ UNCHANGED <<clock, rows, tokens, lastHeld>> /\ pc[r] = "lookup"
        /\ job[r].op = "login"
    BY DEF LookUpLogin
  <1>2. CASE Finish(r, "401") \/ Finish(r, "403") BY <1>1, <1>2, AnswerType
  <1>3. ASSUME NEW id \in Owners(rows, job[r].email),
               loaded' = [loaded EXCEPT ![r] = rows[id]],
               bearer' = [bearer EXCEPT ![r] = TokenFor(id, rows[id], began[r])],
               pc' = [pc EXCEPT ![r] = "issue"], UNCHANGED <<job, began>>
        PROVE  TypeInv'
    <2>1. /\ clock \in 0..Horizon /\ rows \in [Ids -> Row \cup {None}] /\ tokens \subseteq Token
          /\ lastHeld \in [Ids -> [Roles -> {Never} \cup 0..Horizon]]
          /\ job[r] \in Job \cup {NoJob} /\ began[r] \in 0..Horizon /\ "issue" \in Steps
      BY DEF TypeInv, TypeOK, Steps
    <2>2. id \in Ids /\ rows[id] \in Row /\ rows[id] # None
      BY <2>1, UsersAssumption DEF Owners
    <2>3. TokenFor(id, rows[id], began[r]) \in Token BY <2>1, <2>2, TokenForType
    <2>4. /\ job' = [job EXCEPT ![r] = job[r]] /\ began' = [began EXCEPT ![r] = began[r]]
      BY <1>3 DEF TypeInv, TypeOK
    <2>5. /\ pc'[r] = "issue" /\ loaded'[r] = rows[id] /\ job'[r] = job[r]
          /\ bearer'[r] = TokenFor(id, rows[id], began[r]) /\ job[r] # NoJob
      BY <1>1, <1>3 DEF TypeInv, TypeOK, NoJob
    <2>6. KindOf(r)' BY <1>1, <2>2, <2>5 DEF KindOf
    <2>7. StepOf(r)' BY <1>1, <2>3, <2>5 DEF StepOf
    <2> HIDE DEF Steps
    <2> QED BY <1>1, <1>3, <2>1, <2>2, <2>3, <2>4, <2>6, <2>7, OneMoves
  <1> QED BY <1>2, <1>3 DEF LookUpLogin

(* makes its token, *)
LEMMA IssueType ==
  ASSUME TypeInv, NEW r \in Requests, Issue(r)
  PROVE  TypeInv'
  <1>1. bearer[r] \in Token /\ clock \in 0..Horizon /\ tokens \subseteq Token
    BY DEF TypeInv, TypeOK, Control, StepOf, Issue
  <1>2. [bearer[r] EXCEPT !.iat = clock] \in Token BY <1>1 DEF Token
  <1>3. tokens \subseteq tokens' /\ tokens' \subseteq Token BY <1>1, <1>2 DEF Issue
  <1>4. /\ clock' \in 0..Horizon /\ rows' \in [Ids -> Row \cup {None}] /\ Finish(r, "200")
        /\ lastHeld' \in [Ids -> [Roles -> {Never} \cup 0..Horizon]]
    BY DEF TypeInv, TypeOK, Issue
  <1> QED BY <1>3, <1>4, FinishType

(* or commits; *)
LEMMA CommitType ==
  ASSUME TypeInv, NEW r \in Requests, Commit(r)
  PROVE  TypeInv'
  <1>1. UNCHANGED <<clock, tokens>> /\ pc[r] = "commit" BY DEF Commit
  <1>2. CASE Finish(r, "500") /\ UNCHANGED <<rows, lastHeld>> BY <1>1, <1>2, AnswerType
  <1>3. CASE /\ rows' = After(r) /\ lastHeld' = HeldAt(After(r), clock)
             /\ IF job[r].op = "delete" THEN Finish(r, "204") ELSE Goto(r, "refresh")
    <2>1. /\ job[r].op \in {"register", "update", "delete"}
          /\ job[r].op = "update" => loaded[r] # None
      BY <1>1 DEF TypeInv, TypeOK, Control, StepOf
    <2>2. /\ rows' \in [Ids -> Row \cup {None}] /\ clock \in 0..Horizon /\ tokens \subseteq Token
      BY <1>3, <2>1, AfterType DEF TypeInv, TypeOK
    <2>3. lastHeld' \in [Ids -> [Roles -> {Never} \cup 0..Horizon]]
      BY <1>3, <2>2, HeldType DEF TypeInv
    <2>4. CASE job[r].op = "delete"
      <3>1. Finish(r, "204") BY <1>3, <2>4
      <3> QED BY <1>1, <2>2, <2>3, <3>1, FinishType
    <2>5. CASE job[r].op # "delete"
      <3>1. Goto(r, "refresh") /\ job[r] # NoJob BY <1>3, <2>1, <2>5 DEF NoJob
      <3> QED BY <1>1, <2>1, <2>2, <2>3, <2>5, <3>1, GotoType
    <2> QED BY <2>4, <2>5
  <1> QED BY <1>2, <1>3 DEF Commit

(* and time passes. *)
LEMMA TickType ==
  ASSUME TypeInv, Tick
  PROVE  TypeInv'
  <1>1. /\ clock' = clock + 1 /\ clock < Horizon /\ lastHeld' = HeldAt(rows, clock + 1)
        /\ UNCHANGED <<rows, tokens, pc, job, bearer, began, loaded>>
    BY DEF Tick
  <1>2. clock + 1 \in 0..Horizon BY <1>1, UsersAssumption DEF TypeInv, TypeOK
  <1>3. lastHeld' \in [Ids -> [Roles -> {Never} \cup 0..Horizon]]
    BY <1>1, <1>2, HeldType DEF TypeInv
  <1>4. Control' BY <1>1 DEF TypeInv, Control, StepOf
  <1>5. TypeOK' BY <1>1, <1>2, <1>3 DEF TypeInv, TypeOK
  <1> QED BY <1>4, <1>5 DEF TypeInv

(* Together: *)
LEMMA NextType == TypeInv /\ [Next]_vars => TypeInv'
  <1> SUFFICES ASSUME TypeInv, [Next]_vars PROVE TypeInv'
    OBVIOUS
  <1>1. CASE UNCHANGED vars
    BY <1>1 DEF vars, TypeInv, TypeOK, Control, StepOf
  <1>2. CASE Tick BY <1>2, TickType
  <1>3. ASSUME NEW r \in Requests, Serve(r) PROVE TypeInv'
    <2>1. CASE Arrive(r) BY <2>1, ArriveType
    <2>2. CASE ArriveWithToken(r) BY <2>2, ArriveWithTokenType
    <2>3. CASE Act(r) BY <2>3, AnswerType DEF Act
    <2>4. CASE Load(r) BY <2>4, LoadType
    <2>5. CASE LookUpEmail(r) BY <2>5, LookUpEmailType
    <2>6. CASE LookUpLogin(r) BY <2>6, LookUpLoginType
    <2>7. CASE Issue(r) BY <2>7, IssueType
    <2>8. CASE Commit(r) BY <2>8, CommitType
    <2>9. CASE Refresh(r) BY <2>9, AnswerType DEF Refresh
    <2>10. CASE Fail(r) BY <2>10, AnswerType DEF Fail
    <2> QED BY <1>3, <2>1, <2>2, <2>3, <2>4, <2>5, <2>6, <2>7, <2>8, <2>9, <2>10 DEF Serve
  <1> QED BY <1>1, <1>2, <1>3 DEF Next

(* The table, the tokens and every suspended request are typed in every state. *)
THEOREM TypeCorrect == Spec => []TypeOK
  <1>1. TypeInv => TypeOK BY DEF TypeInv
  <1> QED BY <1>1, InitType, NextType, PTL DEF Spec

-----------------------------------------------------------------------------
(* Every step but a commit leaves the table alone. *)
LEMMA OnlyCommitWrites ==
  ASSUME [Next]_vars
  PROVE  rows' = rows \/ \E r \in Requests : Commit(r)
  BY DEF Next, vars, Tick, Serve, Arrive, ArriveWithToken, Act, Load, LookUpEmail,
         LookUpLogin, Issue, Refresh, Fail

-----------------------------------------------------------------------------
(* ColumnsAsAsked. A registration writes a row that is not there: its id is new. *)
RegistersNew ==
  \A r \in Requests :
    pc[r] = "idle" \/ (job[r].op = "register" /\ pc[r] \in {"lookup", "commit"})
      => rows[r] = None

(* Accounts registered before have other ids. *)
LEMMA InitRegistersNew == Init => RegistersNew
  BY UsersAssumption DEF Init, RegistersNew, Ids

(* Which rows a commit creates, changes and removes. *)
LEMMA RowsAfter ==
  ASSUME TypeInv, NEW r \in Requests, Commit(r), rows' # rows
  PROVE  /\ rows' = After(r) /\ pc[r] = "commit" /\ pc'[r] # "idle"
         /\ job[r].op \in {"register", "update", "delete"}
         /\ \A id \in Ids : rows[id] = None /\ rows'[id] # None =>
               job[r].op = "register" /\ id = r /\ pc'[r] = "refresh"
         /\ \A id \in Ids : rows[id] # None /\ rows'[id] # None /\ rows'[id] # rows[id] =>
               \/ job[r].op = "register" /\ id = r
               \/ job[r].op = "update" /\ id = job[r].target
  <1>1. /\ rows' = After(r) /\ pc[r] = "commit"
        /\ IF job[r].op = "delete" THEN Finish(r, "204") ELSE Goto(r, "refresh")
    BY DEF Commit
  <1>2. /\ pc \in [Requests -> Steps] /\ rows \in [Ids -> Row \cup {None}]
        /\ job[r] \in Job \cup {NoJob} /\ job[r].op \in {"register", "update", "delete"}
    BY <1>1 DEF TypeInv, TypeOK, Control, StepOf, Steps
  <1>3. /\ pc'[r] # "idle" /\ (job[r].op # "delete" => pc'[r] = "refresh")
    <2>1. CASE job[r].op = "delete" BY <1>1, <1>2, <2>1 DEF Finish
    <2>2. CASE job[r].op # "delete" BY <1>1, <1>2, <2>2 DEF Goto
    <2> QED BY <2>1, <2>2
  <1>4. CASE job[r].op = "register"
    <2>1. \A id \in Ids : id # r => rows'[id] = rows[id]
      BY <1>1, <1>2, <1>4 DEF After, Registered
    <2> QED BY <1>1, <1>3, <1>4, <2>1
  <1>5. CASE job[r].op = "update"
    <2>1. \A id \in Ids : id # job[r].target => rows'[id] = rows[id]
      BY <1>1, <1>2, <1>5 DEF After, Updated
    <2>2. job[r].target \in Ids BY <1>2, <1>5, JobKinds DEF Update
    <2>3. rows[job[r].target] = None => rows'[job[r].target] = None
      BY <1>1, <1>2, <1>5, <2>2 DEF After, Updated
    <2> QED BY <1>1, <1>3, <1>5, <2>1, <2>3
  <1>6. CASE job[r].op = "delete"
    <2>1. \A id \in Ids : rows'[id] = rows[id] \/ rows'[id] = None
      BY <1>1, <1>2, <1>6 DEF After, Deleted
    <2> QED BY <1>1, <1>3, <1>6, <2>1
  <1> QED BY <1>2, <1>4, <1>5, <1>6

(* A step moves at most one request. *)
LEMMA OneRequestMoves ==
  ASSUME TypeInv, NEW r \in Requests, Serve(r), NEW s \in Requests, s # r
  PROVE  pc'[s] = pc[s] /\ job'[s] = job[s] /\ bearer'[s] = bearer[s] /\ began'[s] = began[s]
  <1>1. ASSUME NEW answer, Finish(r, answer)
        PROVE  pc'[s] = pc[s] /\ job'[s] = job[s] /\ bearer'[s] = bearer[s] /\ began'[s] = began[s]
    BY <1>1 DEF Finish, TypeInv, TypeOK
  <1>2. ASSUME NEW step, Goto(r, step)
        PROVE  pc'[s] = pc[s] /\ job'[s] = job[s] /\ bearer'[s] = bearer[s] /\ began'[s] = began[s]
    BY <1>2 DEF Goto, TypeInv, TypeOK
  <1>3. CASE Arrive(r) BY <1>3 DEF Arrive, TypeInv, TypeOK
  <1>4. CASE ArriveWithToken(r)
    BY <1>4, <1>1 DEF ArriveWithToken, Admit, TypeInv, TypeOK
  <1>5. CASE Act(r) \/ Issue(r) \/ Refresh(r) \/ Fail(r)
    BY <1>5, <1>1 DEF Act, Issue, Refresh, Fail
  <1>6. CASE Load(r) BY <1>6, <1>1 DEF Load, TypeInv, TypeOK
  <1>7. CASE LookUpEmail(r) BY <1>7, <1>1, <1>2 DEF LookUpEmail
  <1>8. CASE LookUpLogin(r) BY <1>8, <1>1 DEF LookUpLogin, TypeInv, TypeOK
  <1>9. CASE Commit(r) BY <1>9, <1>1, <1>2 DEF Commit
  <1> QED BY <1>3, <1>4, <1>5, <1>6, <1>7, <1>8, <1>9 DEF Serve

(* A request that is idle or registers was idle or registered before, at a step no
   later, and it is only its own commit that ends this. *)
LEMMA NewBefore ==
  ASSUME TypeInv, [Next]_vars, NEW s \in Requests,
         pc'[s] = "idle" \/ (job'[s].op = "register" /\ pc'[s] \in {"lookup", "commit"})
  PROVE  /\ pc[s] = "idle" \/ (job[s].op = "register" /\ pc[s] \in {"lookup", "commit"})
         /\ ~Commit(s) \/ rows' = rows
  <1>1. CASE UNCHANGED vars \/ Tick BY <1>1 DEF vars, Tick
  <1>2. ASSUME NEW r \in Requests, Serve(r), r # s
        PROVE  pc'[s] = pc[s] /\ job'[s] = job[s]
    BY <1>2, OneRequestMoves
  <1>3. ASSUME Serve(s)
        PROVE  pc[s] = "idle" \/ (job[s].op = "register" /\ pc[s] \in {"lookup", "commit"})
    <2>1. ASSUME NEW answer \in Answers, Finish(s, answer) PROVE FALSE
      BY <2>1 DEF Finish, TypeInv, TypeOK
    <2>2. CASE Arrive(s) \/ ArriveWithToken(s) BY <2>2 DEF Arrive, ArriveWithToken
    <2>3. CASE Act(s) \/ Issue(s) \/ Refresh(s) \/ Fail(s)
      BY <2>1, <2>3 DEF Act, Issue, Refresh, Fail
    <2>4. CASE Load(s)
      <3>1. job'[s] = job[s] /\ pc[s] = "load" /\ pc'[s] \in {"lookup", "commit"}
        BY <2>1, <2>4 DEF Load, TypeInv, TypeOK
      <3> QED BY <3>1 DEF TypeInv, Control, StepOf
    <2>5. CASE LookUpEmail(s) BY <2>1, <2>5 DEF LookUpEmail, Goto, TypeInv, TypeOK
    <2>6. CASE LookUpLogin(s) BY <2>1, <2>6 DEF LookUpLogin, TypeInv, TypeOK
    <2>7. CASE Commit(s)
      <3>1. Finish(s, "500") \/ Finish(s, "204") \/ Goto(s, "refresh") BY <2>7 DEF Commit
      <3>2. CASE Goto(s, "refresh") BY <3>2 DEF Goto, TypeInv, TypeOK
      <3> QED BY <2>1, <3>1, <3>2
    <2> QED BY <1>3, <2>2, <2>3, <2>4, <2>5, <2>6, <2>7 DEF Serve
  <1>4. ASSUME Commit(s), rows' # rows PROVE FALSE
    <2>1. IF job[s].op = "delete" THEN Finish(s, "204") ELSE Goto(s, "refresh")
      BY <1>4 DEF Commit
    <2>2. CASE Finish(s, "204") BY <2>2 DEF Finish, TypeInv, TypeOK
    <2>3. CASE Goto(s, "refresh") BY <2>3 DEF Goto, TypeInv, TypeOK
    <2> QED BY <2>1, <2>2, <2>3
  <1> QED BY <1>1, <1>2, <1>3, <1>4 DEF Next

(* A commit of another request creates no row with this request's id. *)
LEMMA NextRegistersNew == TypeInv /\ RegistersNew /\ [Next]_vars => RegistersNew'
  <1> SUFFICES ASSUME TypeInv, RegistersNew, [Next]_vars, NEW s \in Requests,
                      pc'[s] = "idle" \/ (job'[s].op = "register" /\ pc'[s] \in {"lookup", "commit"})
               PROVE  rows'[s] = None
    BY DEF RegistersNew
  <1>1. rows[s] = None /\ (~Commit(s) \/ rows' = rows) BY NewBefore DEF RegistersNew
  <1>2. ASSUME NEW r \in Requests, Commit(r), rows' # rows PROVE rows'[s] = None
    BY <1>1, <1>2, RowsAfter DEF Ids
  <1> QED BY <1>1, <1>2, OnlyCommitWrites

(* A step that changes a row is the commit of an update of it. *)
LEMMA StepColumns ==
  ASSUME TypeInv, RegistersNew, [Next]_vars,
         NEW id \in Ids, rows[id] # None, rows'[id] # None, rows'[id] # rows[id]
  PROVE  \E r \in Requests :
           /\ pc[r] = "commit" /\ job[r].op = "update" /\ job[r].target = id
           /\ \A f \in DOMAIN rows[id] : rows'[id][f] # rows[id][f] => rows'[id][f] = job[r][f]
           /\ bearer[r].sub = id \/ bearer[r].role = "ADMIN"
           /\ rows'[id].role # rows[id].role => bearer[r].role = "ADMIN"
  <1>1. PICK r \in Requests : Commit(r) BY OnlyCommitWrites
  <1>2. /\ rows' = After(r) /\ pc[r] = "commit"
        /\ \/ job[r].op = "register" /\ id = r
           \/ job[r].op = "update" /\ id = job[r].target
    BY <1>1, RowsAfter
  <1>3. job[r].op = "update" /\ id = job[r].target
    BY <1>2 DEF RegistersNew
  <1>4. StepOf(r) /\ KindOf(r) /\ rows \in [Ids -> Row \cup {None}] /\ job[r] \in Job \cup {NoJob}
    BY DEF TypeInv, Control, TypeOK, KindOf
  <1>5. /\ bearer[r].sub = id \/ bearer[r].role = "ADMIN"
        /\ bearer[r].role = "ADMIN" \/ job[r].role = Keep
    BY <1>3, <1>4 DEF StepOf
  <1> DEFINE now == rows[id]
  <1>6. rows'[id] = [email  |-> Flushed(job[r].email, loaded[r].email, now.email),
                     role   |-> Flushed(job[r].role, loaded[r].role, now.role),
                     active |-> Flushed(job[r].active, loaded[r].active, now.active)]
    BY <1>2, <1>3, <1>4 DEF After, Updated
  <1>7. DOMAIN rows[id] = {"email", "role", "active"}
    BY <1>4 DEF Row
  <1>8. \A f \in DOMAIN rows[id] : rows'[id][f] # rows[id][f] => rows'[id][f] = job[r][f]
    BY <1>6, <1>7 DEF Flushed
  <1>9. job[r].role = Keep => rows'[id].role = rows[id].role
    BY <1>6 DEF Flushed
  <1> QED BY <1>2, <1>3, <1>5, <1>8, <1>9

(* No update undoes another in a column it was not asked to write, and nobody but an
   administrator changes a role. *)
THEOREM Columns == Spec => ColumnsAsAsked
  <1>1. Init => TypeInv /\ RegistersNew BY InitType, InitRegistersNew
  <1>2. TypeInv /\ RegistersNew /\ [Next]_vars => (TypeInv /\ RegistersNew)'
    BY NextType, NextRegistersNew
  <1>3. TypeInv /\ RegistersNew /\ [Next]_vars =>
          [\A id \in Ids :
             rows[id] # None /\ rows'[id] # None /\ rows'[id] # rows[id] =>
               \E r \in Requests :
                 /\ pc[r] = "commit" /\ job[r].op = "update" /\ job[r].target = id
                 /\ \A f \in DOMAIN rows[id] : rows'[id][f] # rows[id][f] => rows'[id][f] = job[r][f]
                 /\ bearer[r].sub = id \/ bearer[r].role = "ADMIN"
                 /\ rows'[id].role # rows[id].role => bearer[r].role = "ADMIN"]_vars
    BY StepColumns
  <1> QED BY <1>1, <1>2, <1>3, PTL DEF Spec, ColumnsAsAsked

-----------------------------------------------------------------------------
(* AuthorityExpires. lastHeld is the clock for what holds now and never runs back; a
   token is no younger than what its account last held and the wait for an answer,
   and neither is a login that will issue one. *)
HeldNow ==
  \A id \in Ids, role \in Roles :
    lastHeld[id][role] =< clock /\ (Holds(rows[id], role) => lastHeld[id][role] = clock)

TokensRecent == \A t \in tokens : t.iat =< lastHeld[t.sub][t.role] + Patience

LoginsRecent ==
  \A r \in Requests :
    /\ began[r] =< clock
    /\ pc[r] = "issue" => began[r] =< lastHeld[bearer[r].sub][bearer[r].role]

HeldInv == TypeInv /\ HeldNow /\ TokensRecent /\ LoginsRecent

(* The first tokens are those of the accounts active at the start. *)
LEMMA InitHeld == Init => HeldInv
  <1> SUFFICES ASSUME Init PROVE HeldInv
    OBVIOUS
  <1>1. TypeInv BY InitType
  <1>2. Horizon \in Nat /\ Patience \in Nat /\ FirstRow \in [Accounts -> Row] /\ None \notin Row
    BY UsersAssumption
  <1>3. HeldNow BY <1>2, NeverIsPast DEF Init, HeldNow
  <1>4. ASSUME NEW a \in Accounts, FirstRow[a].active
        PROVE  lastHeld[a][FirstRow[a].role] = 0
    <2>1. a \in Ids /\ FirstRow[a] \in Row /\ FirstRow[a] # None BY <1>2 DEF Ids
    <2>2. rows[a] = FirstRow[a] BY <2>1, <1>4 DEF Init
    <2>3. FirstRow[a].role \in Roles BY <2>1 DEF Row
    <2>4. Holds(rows[a], FirstRow[a].role) BY <1>4, <2>1, <2>2 DEF Holds
    <2>5. lastHeld[a][FirstRow[a].role] =
            IF Holds(rows[a], FirstRow[a].role) THEN 0 ELSE Never
      BY <2>1, <2>3 DEF Init
    <2> QED BY <2>4, <2>5
  <1>5. ASSUME NEW t \in tokens PROVE t.iat =< lastHeld[t.sub][t.role] + Patience
    <2>1. PICK a \in {b \in Accounts : FirstRow[b].active} : t = TokenFor(a, FirstRow[a], 0)
      BY DEF Init
    <2>2. t.iat = 0 /\ t.sub = a /\ t.role = FirstRow[a].role BY <2>1 DEF TokenFor
    <2>3. lastHeld[a][FirstRow[a].role] = 0 BY <1>4
    <2> QED BY <1>2, <2>2, <2>3
  <1>6. ASSUME NEW r \in Requests PROVE began[r] =< clock /\ pc[r] # "issue"
    <2>1. clock = 0 /\ began[r] = 0 /\ pc[r] = "idle" BY DEF Init
    <2> QED BY <2>1
  <1>7. LoginsRecent BY <1>6 DEF LoginsRecent
  <1> QED BY <1>1, <1>3, <1>5, <1>7 DEF HeldInv, TokensRecent

(* What HeldAt writes for a table and a time that is not past. *)
LEMMA HeldAtNow ==
  ASSUME TypeInv, HeldNow, NEW table, NEW t \in 0..Horizon, clock =< t,
         NEW id \in Ids, NEW role \in Roles
  PROVE  /\ lastHeld[id][role] =< HeldAt(table, t)[id][role]
         /\ HeldAt(table, t)[id][role] =< t
         /\ Holds(table[id], role) => HeldAt(table, t)[id][role] = t
  <1>1. /\ HeldAt(table, t)[id][role] = IF Holds(table[id], role) THEN t ELSE lastHeld[id][role]
        /\ lastHeld[id][role] \in {Never} \cup 0..Horizon /\ clock \in 0..Horizon
    BY DEF HeldAt, TypeInv, TypeOK
  <1>2. lastHeld[id][role] =< clock BY DEF HeldNow
  <1>3. Never \in Int BY NeverIsPast
  <1> QED BY <1>1, <1>2, <1>3

(* lastHeld follows the clock, and no step takes a time in it back. *)
LEMMA HeldGrows ==
  ASSUME TypeInv, HeldNow, [Next]_vars
  PROVE  /\ HeldNow' /\ clock =< clock' /\ clock \in Int /\ clock' \in Int
         /\ \A id \in Ids, role \in Roles : lastHeld[id][role] =< lastHeld'[id][role]
  <1>1. clock \in 0..Horizon /\ Horizon \in Nat
        /\ \A id \in Ids, role \in Roles : lastHeld[id][role] \in Int
    BY UsersAssumption, NeverIsPast DEF TypeInv, TypeOK
  <1>2. CASE UNCHANGED <<clock, rows, lastHeld>>
    BY <1>1, <1>2 DEF HeldNow, Holds
  <1>3. CASE Tick
    <2>1. /\ clock' = clock + 1 /\ lastHeld' = HeldAt(rows, clock + 1) /\ rows' = rows
          /\ clock + 1 \in 0..Horizon /\ clock =< clock + 1
      BY <1>1, <1>3 DEF Tick
    <2>2. HeldNow' BY <2>1, HeldAtNow DEF HeldNow, Holds
    <2> QED BY <1>1, <2>1, <2>2, HeldAtNow
  <1>4. ASSUME NEW r \in Requests, Commit(r), rows' = After(r),
               lastHeld' = HeldAt(After(r), clock), clock' = clock
        PROVE  /\ HeldNow' /\ clock =< clock'
               /\ \A id \in Ids, role \in Roles : lastHeld[id][role] =< lastHeld'[id][role]
    <2>1. HeldNow' BY <1>1, <1>4, HeldAtNow DEF HeldNow, Holds
    <2> QED BY <1>1, <1>4, <2>1, HeldAtNow
  <1>5. \/ UNCHANGED <<clock, rows, lastHeld>> \/ Tick
        \/ \E r \in Requests : /\ Commit(r) /\ rows' = After(r) /\ clock' = clock
                               /\ lastHeld' = HeldAt(After(r), clock)
    BY DEF Next, vars, Serve, Arrive, ArriveWithToken, Act, Load, LookUpEmail,
           LookUpLogin, Issue, Refresh, Fail, Commit
  <1>6. clock' \in Int BY <1>1, <1>2, <1>3, <1>4, <1>5 DEF Tick
  <1> QED BY <1>1, <1>2, <1>3, <1>4, <1>5, <1>6

(* A new token is that of a login that waited no longer than Patience. *)
LEMMA NextTokens == HeldInv /\ [Next]_vars => TokensRecent'
  <1> SUFFICES ASSUME HeldInv, [Next]_vars, NEW t \in tokens'
               PROVE  t.iat =< lastHeld'[t.sub][t.role] + Patience
    BY DEF TokensRecent
  <1>1. /\ TypeInv' /\ TypeInv /\ HeldNow /\ Patience \in Nat
        /\ \A id \in Ids, role \in Roles : lastHeld[id][role] =< lastHeld'[id][role]
    BY NextType, HeldGrows, UsersAssumption DEF HeldInv
  <1>2. /\ t \in Token /\ t.sub \in Ids /\ t.role \in Roles /\ t.iat \in Int
    BY <1>1 DEF TypeInv, TypeOK, Token
  <1>3. lastHeld[t.sub][t.role] \in Int /\ lastHeld'[t.sub][t.role] \in Int
    BY <1>1, <1>2, NeverIsPast DEF TypeInv, TypeOK
  <1>4. CASE t \in tokens BY <1>1, <1>2, <1>3, <1>4 DEF HeldInv, TokensRecent
  <1>5. ASSUME t \notin tokens
        PROVE  \E r \in Requests : /\ Issue(r) /\ clock =< began[r] + Patience
                                   /\ t = [bearer[r] EXCEPT !.iat = clock]
    BY <1>5 DEF Next, vars, Tick, Serve, Arrive, ArriveWithToken, Act, Load, LookUpEmail,
                LookUpLogin, Issue, Refresh, Fail, Commit
  <1>6. CASE t \notin tokens
    <2>1. PICK r \in Requests : /\ Issue(r) /\ clock =< began[r] + Patience
                               /\ t = [bearer[r] EXCEPT !.iat = clock]
      BY <1>5, <1>6
    <2>2. pc[r] = "issue" /\ bearer[r] \in Token /\ clock \in Int /\ began[r] \in Int
      BY <1>1, <2>1 DEF Issue, TypeInv, TypeOK, Control, StepOf
    <2>3. t.iat = clock /\ t.sub = bearer[r].sub /\ t.role = bearer[r].role
      BY <2>1, <2>2 DEF Token
    <2>4. began[r] =< lastHeld[t.sub][t.role]
      BY <2>2, <2>3 DEF HeldInv, LoginsRecent
    <2> QED BY <1>1, <1>2, <1>3, <2>1, <2>2, <2>3, <2>4
  <1> QED BY <1>4, <1>6

(* How a request comes to be at "issue", and when it was sent. *)
LEMMA IssuedBy ==
  ASSUME TypeInv, [Next]_vars, NEW s \in Requests
  PROVE  /\ began'[s] \in {began[s], clock, 0}
         /\ pc'[s] = "issue" =>
              \/ pc[s] = "issue" /\ bearer'[s] = bearer[s] /\ began'[s] = began[s]
              \/ /\ LookUpLogin(s) /\ began'[s] = began[s]
                 /\ \E id \in Ids : Holds(rows[id], bearer'[s].role) /\ bearer'[s].sub = id
  <1>1. CASE UNCHANGED vars \/ Tick BY <1>1 DEF vars, Tick
  <1>2. ASSUME NEW r \in Requests, Serve(r), r # s
        PROVE  pc'[s] = pc[s] /\ bearer'[s] = bearer[s] /\ began'[s] = began[s]
    BY <1>2, OneRequestMoves
  <1>3. CASE Serve(s)
    <2>1. ASSUME NEW answer \in Answers, Finish(s, answer)
          PROVE  began'[s] = 0 /\ pc'[s] # "issue"
      BY <2>1 DEF Finish, TypeInv, TypeOK
    <2>2. ASSUME NEW step \in {"commit", "refresh"}, Goto(s, step)
          PROVE  began'[s] = began[s] /\ pc'[s] # "issue"
      BY <2>2 DEF Goto, TypeInv, TypeOK
    <2>3. CASE Arrive(s)
      <3>1. began'[s] \in {clock, 0} /\ pc'[s] = "lookup" BY <2>3 DEF Arrive, TypeInv, TypeOK
      <3> QED BY <3>1
    <2>4. CASE ArriveWithToken(s)
      <3>1. ASSUME NEW j, NEW token, Admit(s, j, token)
            PROVE  began'[s] = began[s] /\ pc'[s] # "issue"
        BY <3>1 DEF Admit, TypeInv, TypeOK
      <3> QED BY <2>1, <2>4, <3>1 DEF ArriveWithToken
    <2>5. CASE Act(s) \/ Issue(s) \/ Refresh(s) \/ Fail(s)
      BY <2>1, <2>5 DEF Act, Issue, Refresh, Fail
    <2>6. CASE Load(s) BY <2>1, <2>6 DEF Load, TypeInv, TypeOK
    <2>7. CASE LookUpEmail(s) BY <2>1, <2>2, <2>7 DEF LookUpEmail
    <2>8. CASE LookUpLogin(s)
      <3>1. CASE Finish(s, "401") \/ Finish(s, "403") BY <2>1, <3>1
      <3>2. ASSUME NEW id \in Owners(rows, job[s].email), rows[id].active,
                   bearer' = [bearer EXCEPT ![s] = TokenFor(id, rows[id], began[s])],
                   began' = began
            PROVE  /\ began'[s] = began[s] /\ id \in Ids /\ bearer'[s].sub = id
                   /\ Holds(rows[id], bearer'[s].role)
        BY <3>2 DEF Owners, TokenFor, Holds, TypeInv, TypeOK
      <3> QED BY <2>8, <3>1, <3>2 DEF LookUpLogin
    <2>9. CASE Commit(s) BY <2>1, <2>2, <2>9 DEF Commit
    <2> QED BY <1>3, <2>3, <2>4, <2>5, <2>6, <2>7, <2>8, <2>9 DEF Serve
  <1> QED BY <1>1, <1>2, <1>3 DEF Next

(* A login that will issue a token read the row after it was sent. *)
LEMMA NextLogins == HeldInv /\ [Next]_vars => LoginsRecent'
  <1> SUFFICES ASSUME HeldInv, [Next]_vars, NEW s \in Requests
               PROVE  /\ began'[s] =< clock'
                      /\ pc'[s] = "issue" => began'[s] =< lastHeld'[bearer'[s].sub][bearer'[s].role]
    BY DEF LoginsRecent
  <1>1. /\ TypeInv' /\ TypeInv /\ HeldNow
        /\ \A id \in Ids, role \in Roles : lastHeld[id][role] =< lastHeld'[id][role]
        /\ clock =< clock' /\ clock \in 0..Horizon /\ clock' \in 0..Horizon
        /\ began[s] \in 0..Horizon
    BY NextType, HeldGrows DEF HeldInv, TypeInv, TypeOK
  <1>2. began[s] =< clock /\ (pc[s] = "issue" => began[s] =< lastHeld[bearer[s].sub][bearer[s].role])
    BY DEF HeldInv, LoginsRecent
  <1>3. began'[s] \in {began[s], clock, 0} BY <1>1, IssuedBy
  <1>4. began'[s] =< clock' BY <1>1, <1>2, <1>3
  <1>5. ASSUME pc'[s] = "issue"
        PROVE  began'[s] =< lastHeld'[bearer'[s].sub][bearer'[s].role]
    <2> DEFINE id == bearer'[s].sub
               role == bearer'[s].role
    <2>1. bearer'[s] \in Token BY <1>1, <1>5 DEF TypeInv, Control, StepOf
    <2>2. id \in Ids /\ role \in Roles BY <2>1 DEF Token
    <2>3. lastHeld[id][role] \in Int /\ lastHeld'[id][role] \in Int
      BY <1>1, <2>2, NeverIsPast DEF TypeInv, TypeOK
    <2>4. CASE pc[s] = "issue" /\ bearer'[s] = bearer[s] /\ began'[s] = began[s]
      <3>1. began[s] =< lastHeld[id][role] BY <1>2, <2>4
      <3>2. lastHeld[id][role] =< lastHeld'[id][role] BY <1>1, <2>2
      <3> QED BY <1>1, <2>3, <2>4, <3>1, <3>2
    <2>5. CASE began'[s] = began[s] /\ Holds(rows[id], role)
      <3>1. lastHeld[id][role] = clock BY <2>2, <2>5 DEF HeldInv, HeldNow
      <3>2. lastHeld[id][role] =< lastHeld'[id][role] BY <1>1, <2>2
      <3> QED BY <1>1, <1>2, <2>3, <2>5, <3>1, <3>2
    <2> QED BY <1>1, <1>5, <2>4, <2>5, IssuedBy
  <1> QED BY <1>4, <1>5

(* Together: *)
LEMMA NextHeld == HeldInv /\ [Next]_vars => HeldInv'
  <1> SUFFICES ASSUME HeldInv, [Next]_vars PROVE HeldInv'
    OBVIOUS
  <1>1. TypeInv' /\ HeldNow' BY NextType, HeldGrows DEF HeldInv
  <1> QED BY <1>1, NextTokens, NextLogins DEF HeldInv

(* Who is let in, and with what. *)
LEMMA LetIn ==
  ASSUME TypeInv, [Next]_vars, NEW r \in Requests, Admitted(r)
  PROVE  \E j \in Jobs, token \in tokens :
           Decodes(token) /\ Allowed(token, j) /\ job'[r] = j /\ bearer'[r] = token
  <1>1. pc[r] = "idle" /\ pc'[r] \in {"load", "act"} BY DEF Admitted
  <1>2. Serve(r)
    <2>1. ASSUME NEW s \in Requests, Serve(s), s # r PROVE pc'[r] = pc[r]
      BY <2>1, OneRequestMoves
    <2> QED BY <1>1, <2>1 DEF Next, vars, Tick
  <1>3. ~Arrive(r) BY <1>1 DEF Arrive, TypeInv, TypeOK
  <1>4. ArriveWithToken(r)
    BY <1>1, <1>2, <1>3 DEF Serve, Act, Load, LookUpEmail, LookUpLogin, Issue, Commit,
                            Refresh, Fail
  <1>5. ~Finish(r, "401") /\ ~Finish(r, "403") BY <1>1 DEF Finish, TypeInv, TypeOK
  <1>6. PICK j \in Jobs, token \in tokens : Admit(r, j, token)
    BY <1>4, <1>5 DEF ArriveWithToken
  <1> QED BY <1>6 DEF Admit, TypeInv, TypeOK

(* A request that is let in shows a recent token, and a refund a fresher one. *)
LEMMA StepAuthority ==
  ASSUME HeldInv, [Next]_vars, NEW r \in Requests, Admitted(r)
  PROVE  LET last == lastHeld[bearer'[r].sub][bearer'[r].role]
         IN /\ clock < last + Lifetime + Patience
            /\ job'[r].op = "guarded" /\ job'[r].permission = "payments:refund"
                 /\ ~job'[r].secondFactor =>
               bearer'[r].role = "ADMIN" /\ clock =< last + Window + Patience
  <1>1. TypeInv BY DEF HeldInv
  <1>2. PICK j \in Jobs, token \in tokens :
          Decodes(token) /\ Allowed(token, j) /\ job'[r] = j /\ bearer'[r] = token
    BY <1>1, LetIn
  <1> DEFINE last == lastHeld[token.sub][token.role]
  <1>3. /\ token.sub \in Ids /\ token.role \in Roles /\ token.iat \in Int /\ clock \in Int
    BY <1>1 DEF TypeInv, TypeOK, Token
  <1>4. last \in Int /\ Lifetime \in Int /\ Patience \in Int /\ Window \in Int
    BY <1>1, <1>3, NeverIsPast, UsersAssumption DEF TypeInv, TypeOK
  <1>5. token.iat =< last + Patience BY DEF HeldInv, TokensRecent
  <1>6. clock < token.iat + Lifetime BY <1>2 DEF Decodes
  <1>7. clock < last + Lifetime + Patience BY <1>3, <1>4, <1>5, <1>6
  <1>8. ASSUME j.op = "guarded", j.permission = "payments:refund", ~j.secondFactor
        PROVE  token.role = "ADMIN" /\ clock =< last + Window + Patience
    <2>1. HasPermission(token, "payments:refund") /\ RecentlyAuthenticated(token, j.secondFactor)
      BY <1>2, <1>8 DEF Allowed
    <2>2. token.role = "ADMIN" BY <1>3, <2>1 DEF HasPermission, Holders
    <2>3. clock =< token.iat + Window BY <1>8, <2>1 DEF RecentlyAuthenticated
    <2> QED BY <1>3, <1>4, <1>5, <2>2, <2>3
  <1> QED BY <1>2, <1>7, <1>8

(* A lost role, a deactivation or a deletion takes effect within the life of a token
   and the wait for one, a refund needs more; for any table and any durations. *)
THEOREM Expiry == Spec => AuthorityExpires
  <1>1. HeldInv /\ [Next]_vars =>
          [\A r \in Requests : Admitted(r) =>
             LET last == lastHeld[bearer'[r].sub][bearer'[r].role]
             IN /\ clock < last + Lifetime + Patience
                /\ job'[r].op = "guarded" /\ job'[r].permission = "payments:refund"
                     /\ ~job'[r].secondFactor =>
                   bearer'[r].role = "ADMIN" /\ clock =< last + Window + Patience]_vars
    BY StepAuthority
  <1> QED BY <1>1, InitHeld, NextHeld, PTL DEF Spec, AuthorityExpires
=============================================================================
