---------------------------- MODULE RateLimiter -----------------------------
(***************************************************************************)
(* The api-gateway's RateLimitMiddleware for one client address: a sliding *)
(* window over a Redis sorted set, counted in one round trip and extended  *)
(* in another, and a list in the replica's memory when Redis fails.        *)
(***************************************************************************)
EXTENDS Integers, FiniteSets

CONSTANTS
  Requests,     \* requests of the client
  Replicas,     \* gateway processes
  MaxRequests,  \* max_requests_per_minute: 120 in the code
  Window,       \* window_seconds: 60 in the code
  Concurrency,  \* requests of the client that are in the middleware at once
  Delay,        \* the longest stay in the middleware, cut by socket_timeout
  Horizon       \* bound on the clock

ASSUME RateLimiterAssumption ==
  /\ MaxRequests \in Nat \ {0} /\ Window \in Nat \ {0}
  /\ Concurrency \in Nat \ {0} /\ Horizon \in Nat
  /\ Delay \in 0..Window

VARIABLES
  clock,     \* time.time(), the same for all replicas
  pc,        \* request -> where dispatch is suspended, or its verdict
  now,       \* request -> clock when its dispatch began
  replica,   \* request -> the process that serves it
  recorded,  \* the sorted set: members are requests, with score now
  history    \* replica -> requests in its _history list

vars == <<clock, pc, now, replica, recorded, history>>

Verdicts == {"admitted", "admitted locally", "rejected", "rejected locally"}

TypeOK ==
  /\ clock \in 0..Horizon
  /\ pc \in [Requests -> {"idle", "count", "record"} \cup Verdicts]
  /\ now \in [Requests -> 0..Horizon]
  /\ replica \in [Requests -> Replicas]
  /\ recorded \subseteq {r \in Requests : pc[r] \in {"admitted", "admitted locally", "rejected locally"}}
  /\ \A g \in Replicas :
       history[g] \subseteq {r \in Requests : pc[r] = "admitted locally" /\ replica[r] = g}

Init ==
  /\ clock = 0
  /\ pc = [r \in Requests |-> "idle"]
  /\ now = [r \in Requests |-> 0]
  /\ replica \in [Requests -> Replicas]
  /\ recorded = {}
  /\ history = [g \in Replicas |-> {}]

InMiddleware == {r \in Requests : pc[r] \in {"count", "record"}}
Goto(r, step) == pc' = [pc EXCEPT ![r] = step]

Dispatch(r) ==
  /\ pc[r] = "idle"
  /\ Cardinality(InMiddleware) < Concurrency
  /\ now' = [now EXCEPT ![r] = clock]
  /\ Goto(r, "count")
  /\ UNCHANGED <<clock, replica, recorded, history>>

(* Fault: old members are never removed. *)
RecentForever(S, r) == S

(* The members of S that r's window still covers. *)
Recent(S, r) == {q \in S : now[q] > now[r] - Window}

(* Fault: the comparison is strict. *)
FullOffByOne(S) == Cardinality(S) > MaxRequests

Full(S) == Cardinality(S) >= MaxRequests

(* First pipeline: ZREMRANGEBYSCORE and ZCARD, one transaction. *)
Count(r) ==
  /\ pc[r] = "count"
  /\ recorded' = Recent(recorded, r)
  /\ Goto(r, IF Full(Recent(recorded, r)) THEN "rejected" ELSE "record")
  /\ UNCHANGED <<clock, now, replica, history>>

(* Second pipeline: ZADD. *)
Record(r) ==
  /\ pc[r] = "record"
  /\ recorded' = recorded \cup {r}
  /\ Goto(r, "admitted")
  /\ UNCHANGED <<clock, now, replica, history>>

(* Fault: the fallback admits without noting it down. *)
CheckMemoryOnly(r) ==
  /\ Goto(r, IF Full(Recent(history[replica[r]], r)) THEN "rejected locally"
                                                     ELSE "admitted locally")
  /\ history' = [history EXCEPT ![replica[r]] = Recent(@, r)]

(* Fault: a rejected request is noted down too. *)
CheckMemoryAppends(r) ==
  /\ Goto(r, IF Full(Recent(history[replica[r]], r)) THEN "rejected locally"
                                                     ELSE "admitted locally")
  /\ history' = [history EXCEPT ![replica[r]] = Recent(@, r) \cup {r}]

(* _check_rate_limit_memory, which nothing interrupts. *)
CheckMemory(r) ==
  LET kept == Recent(history[replica[r]], r)
  IN \/ /\ Full(kept)
        /\ Goto(r, "rejected locally")
        /\ history' = [history EXCEPT ![replica[r]] = kept]
     \/ /\ ~Full(kept)
        /\ Goto(r, "admitted locally")
        /\ history' = [history EXCEPT ![replica[r]] = kept \cup {r}]

(* A pipeline raises, having taken effect or not. *)
FallBack(r) ==
  /\ \/ pc[r] \in {"count", "record"} /\ UNCHANGED recorded
     \/ pc[r] = "count" /\ recorded' = Recent(recorded, r)
     \/ pc[r] = "record" /\ recorded' = recorded \cup {r}
  /\ CheckMemory(r)
  /\ UNCHANGED <<clock, now, replica>>

(* Both pipelines give up at their timeout, so that no request stays longer
   than Delay. *)
Tick ==
  /\ clock < Horizon
  /\ \A r \in InMiddleware : clock < now[r] + Delay
  /\ clock' = clock + 1
  /\ UNCHANGED <<pc, now, replica, recorded, history>>

Next == Tick \/ \E r \in Requests : Dispatch(r) \/ Count(r) \/ Record(r) \/ FallBack(r)

Spec == Init /\ [][Next]_vars

-----------------------------------------------------------------------------
(* Properties *)

(* now is read before the round trips, so that a request may be counted after a
   later one has removed what it should have counted. Windows shorter by the
   longest stay in the middleware are not touched by such an overtaking. *)
AdmittedIn(verdict, t, length) ==
  {r \in Requests : pc[r] = verdict /\ now[r] > t - length /\ now[r] =< t}

(* No such window holds more requests admitted through Redis than the limit and
   the requests that slip in between a count and its record, although the two
   are separate transactions and replicas share only the sorted set. *)
OverrunBounded ==
  \A t \in 0..Horizon :
    Cardinality(AdmittedIn("admitted", t, Window - Delay)) =< MaxRequests + Concurrency - 1

(* A replica that has lost Redis adds no such overrun, since nothing comes between its
   count and its record: it keeps to the limit in the same, shortened windows. (Over a
   full window an overtaken request may still make one more.) *)
LocalLimitHolds ==
  \A t \in 0..Horizon, g \in Replicas :
    Cardinality({r \in AdmittedIn("admitted locally", t, Window - Delay) : replica[r] = g})
      =< MaxRequests

(* Nobody is rejected below the limit: the window of a rejected request holds a
   limit's worth of other requests that were let through or noted down. *)
RejectedAtLimit ==
  \A r \in Requests :
    LET others(verdicts) ==
          {q \in Requests \ {r} : pc[q] \in verdicts /\ now[q] > now[r] - Window}
    IN /\ pc[r] = "rejected" => Full(others(Verdicts \ {"rejected"}))
       /\ pc[r] = "rejected locally" => Full(others({"admitted locally"}))
=============================================================================
