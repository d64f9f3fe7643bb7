----------------------------- MODULE EventRelay -----------------------------
(***************************************************************************)
(* What the transactional outbox promises, abstractly: exactly the events  *)
(* of committed transactions are handed to the event bus, and each of them *)
(* is, at least once, whatever crashes in between.                         *)
(***************************************************************************)
CONSTANT Messages

VARIABLES
  committed,  \* messages whose transaction has committed
  handed      \* messages handed to the event bus at least once

relayVars == <<committed, handed>>

RelayInit == committed = {} /\ handed = {}

CommitMessage(m) ==
  /\ m \in Messages \ committed
  /\ committed' = committed \cup {m}
  /\ UNCHANGED handed

HandOver(m) ==
  /\ m \in committed \ handed
  /\ handed' = handed \cup {m}
  /\ UNCHANGED committed

RelayNext == \E m \in Messages : CommitMessage(m) \/ HandOver(m)

(* Committing is up to the clients; handing over is not optional. *)
RelaySpec ==
  /\ RelayInit
  /\ [][RelayNext]_relayVars
  /\ \A m \in Messages : WF_relayVars(HandOver(m))
=============================================================================
