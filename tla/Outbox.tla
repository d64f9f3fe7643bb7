------------------------------- MODULE Outbox -------------------------------
(***************************************************************************)
(* The payment_outbox table and the OutboxProcessor that runs in every     *)
(* payment-service replica (a publisher of the event bus): poll the        *)
(* pending messages, publish each, mark it.  A message is the number of    *)
(* its created_at, which says nothing of when its transaction commits.     *)
(***************************************************************************)
EXTENDS EventBus

CONSTANTS
  BatchSize,   \* limit of get_pending_outbox_messages: 50 in the code
  MaxFaults    \* bound on crashes and failed database commits

ASSUME OutboxAssumption ==
  /\ Messages \subseteq Nat
  /\ IsFiniteSet(Publishers)
  /\ BatchSize \in Nat \ {0}
  /\ MaxFaults \in Nat

VARIABLES
  status,   \* message -> "absent", or the status column of its row
  replying, \* <<p, m>>: a request at p committed m and has yet to publish it
  sends,    \* message -> calls of EventBus.publish for it
  step,     \* processor -> where its loop is suspended
  batch,    \* processor -> messages of its snapshot still to be handled
  faults    \* crashes and failed commits so far

outboxVars == <<status, replying, sends, step, batch, faults>>
vars == <<busVars, outboxVars>>

(* The first message of a batch is marked in the transaction of the poll. *)
Marking == {"mark first", "mark"}
Steps == Marking \cup {"poll", "publish first", "publish", "mark failed", "down"}

TypeOK ==
  /\ BusTypeOK
  /\ status \in [Messages -> {"absent", "PENDING", "PUBLISHED", "FAILED"}]
  /\ replying \subseteq Publishers \X Messages
  /\ sends \in [Messages -> Nat]
  /\ step \in [Publishers -> Steps]
  /\ batch \in [Publishers -> SUBSET Messages]
  /\ \A p \in Publishers : batch[p] = {} <=> step[p] \in {"poll", "down"}
  /\ faults \in 0..MaxFaults

Init ==
  /\ BusInit
  /\ status = [m \in Messages |-> "absent"]
  /\ replying = {}
  /\ sends = [m \in Messages |-> 0]
  /\ step = [p \in Publishers |-> "poll"]
  /\ batch = [p \in Publishers |-> {}]
  /\ faults = 0

-----------------------------------------------------------------------------
(* The requests *)

(* save_payment_with_outbox or update_payment_with_outbox commits at replica p. *)
Commit(p, m) ==
  /\ step[p] # "down"
  /\ status[m] = "absent"
  /\ status' = [status EXCEPT ![m] = "PENDING"]
  /\ replying' = replying \cup {<<p, m>>}
  /\ UNCHANGED <<busVars, sends, step, batch, faults>>

Send(p, m) ==
  /\ Publish(p, m)
  /\ sends' = [sends EXCEPT ![m] = @ + 1]

(* The immediate dispatch by the request; it leaves the row PENDING. *)
ImmediatePublish(p, m) ==
  /\ <<p, m>> \in replying
  /\ Send(p, m)
  /\ replying' = replying \ {<<p, m>>}
  /\ UNCHANGED <<status, step, batch, faults>>

-----------------------------------------------------------------------------
(* OutboxProcessor.start and process_batch *)

(* Fault: the poll goes on from the newest settled row instead of by status. *)
PendingAfterCursor ==
  {m \in Messages : /\ status[m] = "PENDING"
                    /\ \A n \in Messages : status[n] \in {"PUBLISHED", "FAILED"} => n < m}

Pending == {m \in Messages : status[m] = "PENDING"}

(* ORDER BY created_at LIMIT BatchSize *)
OldestPending ==
  {m \in Pending : Cardinality({n \in Pending : n < m}) < BatchSize}

(* Fault: the poll marks what it takes before publishing it. *)
PollClaims(p) ==
  /\ step[p] = "poll"
  /\ Pending # {}
  /\ batch' = [batch EXCEPT ![p] = OldestPending]
  /\ status' = [m \in Messages |-> IF m \in OldestPending THEN "PUBLISHED" ELSE status[m]]
  /\ step' = [step EXCEPT ![p] = "publish first"]
  /\ UNCHANGED <<busVars, replying, sends, faults>>

Poll(p) ==
  /\ step[p] = "poll"
  /\ OldestPending # {}
  /\ batch' = [batch EXCEPT ![p] = OldestPending]
  /\ step' = [step EXCEPT ![p] = "publish first"]
  /\ UNCHANGED <<busVars, status, replying, sends, faults>>

(* The loop over the snapshot has come to m. *)
AtMessage(p, m) == m \in batch[p] /\ \A n \in batch[p] : m =< n

PublishMessage(p, m) ==
  /\ step[p] \in {"publish first", "publish"}
  /\ AtMessage(p, m)
  /\ Send(p, m)
  /\ step' = [step EXCEPT ![p] = IF @ = "publish" THEN "mark" ELSE "mark first"]
  /\ UNCHANGED <<status, replying, batch, faults>>

(* Fault: off by one at the end of the batch. *)
MarkPastEnd(p, m, value) ==
  /\ AtMessage(p, m)
  /\ status' = [status EXCEPT ![m] = value]
  /\ batch' = [batch EXCEPT ![p] = @ \ {m}]
  /\ step' = [step EXCEPT ![p] = IF batch[p] = {} THEN "poll" ELSE "publish"]
  /\ UNCHANGED <<busVars, replying, sends>>

(* Fault: mark_outbox_published does not commit. *)
MarkUncommitted(p, m, value) ==
  /\ AtMessage(p, m)
  /\ batch' = [batch EXCEPT ![p] = @ \ {m}]
  /\ step' = [step EXCEPT ![p] = IF batch[p] = {m} THEN "poll" ELSE "publish"]
  /\ UNCHANGED <<busVars, status, replying, sends>>

(* UPDATE payment_outbox SET status by id, and on to the next message. *)
Mark(p, m, value) ==
  /\ AtMessage(p, m)
  /\ status' = [status EXCEPT ![m] = value]
  /\ batch' = [batch EXCEPT ![p] = @ \ {m}]
  /\ step' = [step EXCEPT ![p] = IF batch[p] = {m} THEN "poll" ELSE "publish"]
  /\ UNCHANGED <<busVars, replying, sends>>

MarkPublished(p, m) ==
  /\ step[p] \in Marking
  /\ Mark(p, m, "PUBLISHED")
  /\ UNCHANGED faults

Fault == faults < MaxFaults /\ faults' = faults + 1

(* mark_outbox_published gets no connection (after the first message the session
   gave its own back with the commit): the handler marks the message FAILED, and
   no poll selects it again. *)
MarkRaises(p) ==
  /\ step[p] = "mark"
  /\ Fault
  /\ step' = [step EXCEPT ![p] = "mark failed"]
  /\ UNCHANGED <<busVars, status, replying, sends, batch>>

MarkFailed(p, m) ==
  /\ step[p] = "mark failed"
  /\ Mark(p, m, "FAILED")
  /\ UNCHANGED faults

(* The commit of a mark raises, having taken effect or not, and the session is of
   no more use: start() logs it and the rest of the batch is dropped. *)
AbortBatch(p, m) ==
  /\ step[p] \in Marking \cup {"mark failed"}
  /\ AtMessage(p, m)
  /\ Fault
  /\ \/ UNCHANGED status
     \/ status' = [status EXCEPT ![m] =
                     IF step[p] = "mark failed" THEN "FAILED" ELSE "PUBLISHED"]
  /\ batch' = [batch EXCEPT ![p] = {}]
  /\ step' = [step EXCEPT ![p] = "poll"]
  /\ UNCHANGED <<busVars, replying, sends>>

(* The replica dies, its requests and its processor with it. *)
Crash(p) ==
  /\ step[p] # "down"
  /\ Fault
  /\ replying' = {w \in replying : w[1] # p}
  /\ batch' = [batch EXCEPT ![p] = {}]
  /\ step' = [step EXCEPT ![p] = "down"]
  /\ UNCHANGED <<busVars, status, sends>>

(* lifespan: connect to Redis, start the processor. *)
Restart(p) ==
  /\ step[p] = "down"
  /\ Connect(p)
  /\ step' = [step EXCEPT ![p] = "poll"]
  /\ UNCHANGED <<status, replying, sends, batch, faults>>

-----------------------------------------------------------------------------
Process(p) ==
  \/ Poll(p)
  \/ \E m \in Messages : PublishMessage(p, m) \/ MarkPublished(p, m) \/ MarkFailed(p, m)
  \/ Restart(p)

Next ==
  \/ \E p \in Publishers, m \in Messages :
       Commit(p, m) \/ ImmediatePublish(p, m) \/ AbortBatch(p, m)
  \/ \E p \in Publishers : Process(p) \/ MarkRaises(p) \/ Crash(p)
  \/ (RedisStops \/ RedisStarts) /\ UNCHANGED outboxVars

(* The poll loop runs as long as its process does, and a dead pod is restarted. *)
Spec == Init /\ [][Next]_vars /\ \A p \in Publishers : WF_vars(Process(p))

-----------------------------------------------------------------------------
(* Properties *)

(* The outbox implements the relay: only committed messages are handed to the bus
   and every committed message is handed over, through crashes, failed commits,
   concurrent processors and Redis outages. *)
Relay == INSTANCE EventRelay WITH
  committed <- {m \in Messages : status[m] # "absent"},
  handed <- {m \in Messages : sends[m] > 0}

RelaysEveryMessage == Relay!RelaySpec

(* A row leaves PENDING only after its message was handed to the bus: a crash
   between the two steps repeats a message and never drops one. *)
MarkedAfterHanded ==
  \A m \in Messages : status[m] \in {"PUBLISHED", "FAILED"} => sends[m] > 0

(* Duplicates are bounded: one immediate publish, one per processor whose snapshot
   holds the message, and one per crash or failed commit. *)
DuplicatesBounded ==
  \A m \in Messages : sends[m] =< 1 + Cardinality(Publishers) + faults

(* No message stays PENDING, in whatever order the transactions commit. It may settle as
   FAILED, though: nobody looks at such a row again. *)
EveryMessageSettles ==
  \A m \in Messages : status[m] = "PENDING" ~> status[m] \in {"PUBLISHED", "FAILED"}

(* Guaranteed delivery: a message marked PUBLISHED has reached Redis. *)
PublishedReachedRedis ==
  \A m \in Messages : status[m] = "PUBLISHED" => m \in reached
=============================================================================
