------------------------------ MODULE EventBus ------------------------------
(***************************************************************************)
(* shared/events/redis_client.py: one EventBus object per process, all     *)
(* talking to one Redis.  Redis pub/sub keeps nothing: a message goes to   *)
(* the subscribers listening when it is published.                         *)
(***************************************************************************)
EXTENDS Naturals, FiniteSets

CONSTANTS
  Publishers,     \* processes that publish
  Subscribers,    \* processes that listen
  Messages,       \* events
  RedisReliable   \* no publish call to Redis ever fails

ASSUME BusAssumption == RedisReliable \in BOOLEAN

VARIABLES
  redisUp,    \* the Redis server answers
  connected,  \* process -> self.redis is not None
  listening,  \* subscriber -> its listener task runs
  reached,    \* messages Redis has accepted
  inbox       \* subscriber -> message -> handler tasks created and not yet run

busVars == <<redisUp, connected, listening, reached, inbox>>

Processes == Publishers \cup Subscribers

BusTypeOK ==
  /\ redisUp \in BOOLEAN
  /\ connected \in [Processes -> BOOLEAN]
  /\ listening \in [Subscribers -> BOOLEAN]
  /\ reached \subseteq Messages
  /\ inbox \in [Subscribers -> [Messages -> Nat]]

(* connect() pings Redis once, when the process starts; if that fails the process
   publishes to memory until it is restarted, and start_listening does nothing. *)
BusInit ==
  /\ redisUp \in BOOLEAN
  /\ RedisReliable => redisUp
  /\ connected = [p \in Processes |-> redisUp]
  /\ listening = [s \in Subscribers |-> redisUp]
  /\ reached = {}
  /\ inbox = [s \in Subscribers |-> [m \in Messages |-> 0]]

Connect(p) ==
  /\ connected' = [connected EXCEPT ![p] = redisUp]
  /\ listening' = [s \in Subscribers |-> IF s = p THEN redisUp ELSE listening[s]]
  /\ UNCHANGED <<redisUp, reached, inbox>>

(* Redis hands m to every listener, which starts a handler task of its own. *)
Accept(m) ==
  /\ reached' = reached \cup {m}
  /\ inbox' = [s \in Subscribers |->
                 IF listening[s] THEN [inbox[s] EXCEPT ![m] = @ + 1] ELSE inbox[s]]
  /\ UNCHANGED <<redisUp, connected, listening>>

(* publish() never raises: an error of the Redis client is logged and dropped,
   and so is the message, unless Redis took it before the answer was lost. *)
Publish(p, m) ==
  \/ connected[p] /\ redisUp /\ Accept(m)
  \/ connected[p] /\ ~RedisReliable /\ UNCHANGED busVars
  \/ ~connected[p] /\ UNCHANGED busVars   \* appended to _memory_queue, which nobody reads

RedisStops ==
  /\ ~RedisReliable /\ redisUp
  /\ redisUp' = FALSE
  /\ UNCHANGED <<connected, listening, reached, inbox>>

(* The client reconnects by itself: processes that once connected publish and
   listen again. *)
RedisStarts ==
  /\ ~redisUp
  /\ redisUp' = TRUE
  /\ UNCHANGED <<connected, listening, reached, inbox>>
=============================================================================
