------------------------------- MODULE Users --------------------------------
(***************************************************************************)
(* The user-service and shared/authentication: accounts in one table with  *)
(* a unique email, requests that read a row, decide and commit without     *)
(* locks, and tokens that carry the role of their account until they       *)
(* expire, whatever happens to the account.                                *)
(***************************************************************************)
EXTENDS Integers

CONSTANTS
  Requests,   \* HTTP requests; the account a registration creates has its id
  Accounts,   \* accounts registered before
  FirstRow,   \* account -> its row at the start
  Emails,     \* addresses, in lower case
  Jobs,       \* what clients may ask for
  Lifetime,   \* ACCESS_TOKEN_EXPIRE_MINUTES
  Window,     \* max_age_minutes of require_mfa_or_reauth
  Patience,   \* how long the gateway waits for an answer
  Horizon,    \* bound on the clock
  None, Keep  \* no account or no token; a field that a request leaves out

Roles == {"USER", "ADMIN"}
Row == [email: Emails, role: Roles, active: BOOLEAN]

ASSUME UsersAssumption ==
  /\ Accounts \cap Requests = {} /\ None \notin Row
  /\ FirstRow \in [Accounts -> Row]
  /\ \A a, b \in Accounts : FirstRow[a].email = FirstRow[b].email => a = b
  /\ Keep \notin Emails /\ Keep \notin Roles /\ Keep \notin BOOLEAN
  /\ {Lifetime, Window, Patience, Horizon} \subseteq Nat

VARIABLES
  clock,     \* minutes
  rows,      \* table users
  tokens,    \* access tokens that reached a client
  pc,        \* request -> the await it is suspended at, or its answer
  job,       \* request -> what it asks for
  bearer,    \* request -> the token it was admitted with
  began,     \* login -> clock when it was sent
  loaded,    \* request -> the row get_by_id or get_by_email returned
  lastHeld   \* account -> role -> when it last was active in that role

vars == <<clock, rows, tokens, pc, job, bearer, began, loaded, lastHeld>>

Ids == Accounts \cup Requests
Token == [sub: Ids, role: Roles, iat: 0..Horizon]
Never == -(Lifetime + Patience + Window + 1)
Answers == {"200", "201", "204", "401", "403", "404", "409", "500"}

Registration == [op: {"register"}, email: Emails, role: Roles]
Login == [op: {"login"}, email: Emails, right: BOOLEAN]
Update == [op: {"update"}, target: Ids, email: Emails \cup {Keep},
           role: Roles \cup {Keep}, active: BOOLEAN \cup {Keep}]
Deletion == [op: {"delete"}, target: Ids]
(* A call of another service whose route requires the permission. *)
Elsewhere == [op: {"guarded"}, permission: {"payments:create", "payments:refund"},
              secondFactor: BOOLEAN]
Job == Registration \cup Login \cup Update \cup Deletion \cup Elsewhere
NoJob == [op |-> "none"]
ASSUME JobsAssumption == Jobs \subseteq Job

TypeOK ==
  /\ clock \in 0..Horizon
  /\ rows \in [Ids -> Row \cup {None}]
  /\ tokens \subseteq Token
  /\ pc \in [Requests -> {"idle", "load", "lookup", "commit", "refresh", "issue", "act"} \cup Answers]
  /\ job \in [Requests -> Job \cup {NoJob}]
  /\ bearer \in [Requests -> Token \cup {None}]
  /\ loaded \in [Requests -> Row \cup {None}]
  /\ \A r \in Requests :
       /\ pc[r] \in {"idle"} \cup Answers <=> job[r] = NoJob
       /\ job[r].op \in {"update", "delete", "guarded"} => bearer[r] \in tokens
       /\ pc[r] = "commit" /\ job[r].op \in {"update", "delete"} => loaded[r] # None
       /\ pc[r] = "issue" => loaded[r] # None
  /\ began \in [Requests -> 0..Horizon]
  /\ lastHeld \in [Ids -> [Roles -> {Never} \cup 0..Horizon]]

-----------------------------------------------------------------------------
(* Tokens *)

TokenFor(id, row, t) == [sub |-> id, role |-> row.role, iat |-> t]

(* decode_token verifies the expiry and asks nobody about the account. *)
Decodes(token) == clock < token.iat + Lifetime

(* permission -> the roles that have it; OWNER has every one. *)
Holders == [p \in {"payments:create", "payments:refund"} |->
              IF p = "payments:refund" THEN {"FINANCE", "ADMIN"}
                                       ELSE {"CUSTOMER", "USER", "ADMIN"}]

HasPermission(token, p) == token.role = "OWNER" \/ token.role \in Holders[p]

(* Fault: the age of the token is not looked at. *)
AnyLogin(token, secondFactor) == TRUE

(* require_mfa_or_reauth; tokens of this service have auth_time = iat and no "mfa". *)
RecentlyAuthenticated(token, secondFactor) ==
  secondFactor \/ clock =< token.iat + Window

(* Whether a route lets the bearer of the token do the job. *)
Allowed(token, j) ==
  CASE j.op = "guarded" ->
         /\ HasPermission(token, j.permission)
         /\ j.permission = "payments:refund" => RecentlyAuthenticated(token, j.secondFactor)
    [] j.op = "update" ->
         /\ token.role = "ADMIN" \/ token.sub = j.target
         /\ token.role = "ADMIN" \/ j.role = Keep
    [] j.op = "delete" -> token.role = "ADMIN" \/ token.sub = j.target

-----------------------------------------------------------------------------
(* Requests *)

Holds(row, role) == row # None /\ row.active /\ row.role = role

(* lastHeld, brought up to date with the table and the clock. *)
HeldAt(table, t) ==
  [id \in Ids |-> [role \in Roles |-> IF Holds(table[id], role) THEN t ELSE lastHeld[id][role]]]

Init ==
  /\ clock = 0
  /\ rows = [id \in Ids |-> IF id \in Accounts THEN FirstRow[id] ELSE None]
  /\ tokens = {TokenFor(a, FirstRow[a], 0) : a \in {b \in Accounts : FirstRow[b].active}}
  /\ pc = [r \in Requests |-> "idle"]
  /\ job = [r \in Requests |-> NoJob]
  /\ bearer = [r \in Requests |-> None]
  /\ began = [r \in Requests |-> 0]
  /\ loaded = [r \in Requests |-> None]
  /\ lastHeld = [id \in Ids |-> [role \in Roles |-> IF Holds(rows[id], role) THEN 0 ELSE Never]]

Goto(r, step) ==
  /\ pc' = [pc EXCEPT ![r] = step]
  /\ UNCHANGED <<job, bearer, began, loaded>>

(* The request is answered, and what it held is gone. *)
Finish(r, answer) ==
  /\ pc' = [pc EXCEPT ![r] = answer]
  /\ job' = [job EXCEPT ![r] = NoJob]
  /\ bearer' = [bearer EXCEPT ![r] = None]
  /\ began' = [began EXCEPT ![r] = 0]
  /\ loaded' = [loaded EXCEPT ![r] = None]

(* POST /auth/register and /auth/login need no token. *)
Arrive(r) ==
  /\ pc[r] = "idle"
  /\ \E j \in Jobs :
       /\ j.op \in {"register", "login"}
       /\ job' = [job EXCEPT ![r] = j]
       /\ began' = [began EXCEPT ![r] = IF j.op = "login" THEN clock ELSE 0]
  /\ pc' = [pc EXCEPT ![r] = "lookup"]
  /\ UNCHANGED <<clock, rows, tokens, bearer, loaded, lastHeld>>

(* The dependencies of every other route: the token, then what its role may do. *)
Admit(r, j, token) ==
  /\ Decodes(token) /\ Allowed(token, j)
  /\ job' = [job EXCEPT ![r] = j]
  /\ bearer' = [bearer EXCEPT ![r] = token]
  /\ pc' = [pc EXCEPT ![r] = IF j.op = "guarded" THEN "act" ELSE "load"]
  /\ UNCHANGED <<began, loaded>>

ArriveWithToken(r) ==
  /\ pc[r] = "idle"
  /\ \E j \in Jobs, token \in tokens :
       /\ j.op \in {"update", "delete", "guarded"}
       /\ \/ ~Decodes(token) /\ Finish(r, "401")
          \/ Decodes(token) /\ ~Allowed(token, j) /\ Finish(r, "403")
          \/ Admit(r, j, token)
  /\ UNCHANGED <<clock, rows, tokens, lastHeld>>

(* What the other service does then is not about accounts. *)
Act(r) ==
  /\ pc[r] = "act"
  /\ Finish(r, "200")
  /\ UNCHANGED <<clock, rows, tokens, lastHeld>>

(* Fault: a missing account is not answered with 404. *)
LoadUnchecked(r) ==
  /\ pc[r] = "load"
  /\ loaded' = [loaded EXCEPT ![r] = rows[job[r].target]]
  /\ pc' = [pc EXCEPT ![r] = "commit"]
  /\ UNCHANGED <<clock, rows, tokens, job, bearer, began, lastHeld>>

(* get_by_id *)
Load(r) ==
  LET row == rows[job[r].target]
      newEmail == job[r].op = "update" /\ job[r].email \notin {Keep, row.email}
  IN /\ pc[r] = "load"
     /\ \/ row = None /\ Finish(r, "404")
        \/ /\ row # None
           /\ loaded' = [loaded EXCEPT ![r] = row]
           /\ pc' = [pc EXCEPT ![r] = IF newEmail THEN "lookup" ELSE "commit"]
           /\ UNCHANGED <<job, bearer, began>>
     /\ UNCHANGED <<clock, rows, tokens, lastHeld>>

(* get_by_email *)
Owners(table, email) == {id \in Ids : table[id] # None /\ table[id].email = email}

(* register and update refuse an address that somebody else has. *)
LookUpEmail(r) ==
  LET self == IF job[r].op = "update" THEN {job[r].target} ELSE {}
      others == Owners(rows, job[r].email) \ self
  IN /\ pc[r] = "lookup" /\ job[r].op \in {"register", "update"}
     /\ \/ others = {} /\ Goto(r, "commit")
        \/ others # {} /\ Finish(r, "409")
     /\ UNCHANGED <<clock, rows, tokens, lastHeld>>

(* authenticate: the row, the password, the flag. *)
LookUpLogin(r) ==
  LET found == Owners(rows, job[r].email)
  IN /\ pc[r] = "lookup" /\ job[r].op = "login"
     /\ \/ (found = {} \/ ~job[r].right) /\ Finish(r, "401")
        \/ /\ job[r].right
           /\ \E id \in found :
                \/ ~rows[id].active /\ Finish(r, "403")
                \/ /\ rows[id].active
                   /\ loaded' = [loaded EXCEPT ![r] = rows[id]]
                   /\ bearer' = [bearer EXCEPT ![r] = TokenFor(id, rows[id], began[r])]
                   /\ pc' = [pc EXCEPT ![r] = "issue"]
                   /\ UNCHANGED <<job, began>>
     /\ UNCHANGED <<clock, rows, tokens, lastHeld>>

(* The token is stamped when it is made and tells the role that was read. A client
   gets it unless the gateway has given up. *)
Issue(r) ==
  /\ pc[r] = "issue"
  /\ tokens' = IF clock =< began[r] + Patience
                 THEN tokens \cup {[bearer[r] EXCEPT !.iat = clock]} ELSE tokens
  /\ Finish(r, "200")
  /\ UNCHANGED <<clock, rows, lastHeld>>

(* The unique index on the address. *)
ViolatesUnique(table) ==
  \E a, b \in Ids :
    a # b /\ table[a] # None /\ table[b] # None /\ table[a].email = table[b].email

(* Fault: the whole row is written as it was read. *)
WholeRow(asked, read, now) == IF asked = Keep THEN read ELSE asked

(* The session writes a column that differs from what it read, and no other. *)
Flushed(asked, read, now) == IF asked \in {Keep, read} THEN now ELSE asked

(* The table once a request of each kind has committed. *)
Registered(r) ==
  [rows EXCEPT ![r] = [email |-> job[r].email, role |-> job[r].role, active |-> TRUE]]
Updated(r) ==
  LET asked == job[r]
      read == loaded[r]
  IN [rows EXCEPT ![asked.target] =
        IF @ = None THEN None
        ELSE [email  |-> Flushed(asked.email, read.email, @.email),
              role   |-> Flushed(asked.role, read.role, @.role),
              active |-> Flushed(asked.active, read.active, @.active)]]
Deleted(r) == [rows EXCEPT ![job[r].target] = None]

After(r) ==
  CASE job[r].op = "register" -> Registered(r)
    [] job[r].op = "update"   -> Updated(r)
    [] job[r].op = "delete"   -> Deleted(r)

(* An IntegrityError, or the error of an UPDATE that finds no row, is caught by
   nothing but the generic handler; a DELETE that finds none only warns. *)
Commit(r) ==
  LET vanished == job[r].op = "update" /\ rows[job[r].target] = None
  IN /\ pc[r] = "commit"
     /\ \/ /\ ViolatesUnique(After(r)) \/ vanished
           /\ Finish(r, "500")
           /\ UNCHANGED <<rows, lastHeld>>
        \/ /\ ~ViolatesUnique(After(r)) /\ ~vanished
           /\ rows' = After(r)
           /\ lastHeld' = HeldAt(After(r), clock)
           /\ IF job[r].op = "delete" THEN Finish(r, "204") ELSE Goto(r, "refresh")
     /\ UNCHANGED <<clock, tokens>>

(* register and update read the row again to answer with it. *)
Refresh(r) ==
  LET id == IF job[r].op = "register" THEN r ELSE job[r].target
  IN /\ pc[r] = "refresh"
     /\ Finish(r, IF rows[id] = None THEN "500" ELSE IF id = r THEN "201" ELSE "200")
     /\ UNCHANGED <<clock, rows, tokens, lastHeld>>

(* The database fails at an await, or the process dies there. *)
Fail(r) ==
  /\ pc[r] \notin {"idle"} \cup Answers
  /\ Finish(r, "500")
  /\ UNCHANGED <<clock, rows, tokens, lastHeld>>

Tick ==
  /\ clock < Horizon
  /\ clock' = clock + 1
  /\ lastHeld' = HeldAt(rows, clock + 1)
  /\ UNCHANGED <<rows, tokens, pc, job, bearer, began, loaded>>

Serve(r) ==
  \/ Arrive(r) \/ ArriveWithToken(r) \/ Act(r) \/ Load(r) \/ LookUpEmail(r)
  \/ LookUpLogin(r) \/ Issue(r) \/ Commit(r) \/ Refresh(r) \/ Fail(r)

Next == Tick \/ \E r \in Requests : Serve(r)

Spec == Init /\ [][Next]_vars

-----------------------------------------------------------------------------
(* Properties *)

(* A column changes only to what an update asks for in so many words, sent by the
   owner or an administrator, and the role only by an administrator: an update of
   the profile that read the row before a deactivation does not undo it. *)
ColumnsAsAsked ==
  [][\A id \in Ids :
       rows[id] # None /\ rows'[id] # None /\ rows'[id] # rows[id] =>
         \E r \in Requests :
           /\ pc[r] = "commit" /\ job[r].op = "update" /\ job[r].target = id
           /\ \A f \in DOMAIN rows[id] : rows'[id][f] # rows[id][f] => rows'[id][f] = job[r][f]
           /\ bearer[r].sub = id \/ bearer[r].role = "ADMIN"
           /\ rows'[id].role # rows[id].role => bearer[r].role = "ADMIN"]_vars

(* r is let in with its token in this step. *)
Admitted(r) == pc[r] = "idle" /\ pc'[r] \in {"load", "act"}

(* Nobody asks the table about the bearer of a token. What a request is let in with
   is nevertheless an authority that its account, active and in that role, had no
   longer ago than the life of a token and the wait for one, even if a login read the
   row before a demotion, a deactivation or a deletion. (Until then the bearer may undo
   a deactivation: update writes is_active for the owner of the account.) A refund without
   a second factor needs more: its bearer was an active administrator within the window
   of require_mfa_or_reauth. *)
AuthorityExpires ==
  [][\A r \in Requests : Admitted(r) =>
       LET last == lastHeld[bearer'[r].sub][bearer'[r].role]
       IN /\ clock < last + Lifetime + Patience
          /\ job'[r].op = "guarded" /\ job'[r].permission = "payments:refund"
               /\ ~job'[r].secondFactor =>
             bearer'[r].role = "ADMIN" /\ clock =< last + Window + Patience]_vars
=============================================================================
