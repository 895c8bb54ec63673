--------------------------- MODULE ClientHeartbeat ---------------------------
(***************************************************************************)
(* Heartbeats (client/src/client.c) beside the game, over the same sockets *)
(* and a network that may lose and reorder them.  A timer sends one again  *)
(* and again, and the peer sends the message back as an acknowledgement.   *)
(* The time that a heartbeat carries is its number here.                   *)
(***************************************************************************)
EXTENDS ClientDelivery

CONSTANT MaxHeartbeats   \* bound on the heartbeats of both clients

ASSUME HeartbeatAssumption == MaxHeartbeats \in Nat

VARIABLES
  last_send_heartbeat,           \* 0 before the first
  last_received_heartbeat_time,  \* the last heartbeat sent before an acknowledgement came
  heartbeats,                    \* messages of both types under way to a client
  lost                           \* history: whether one was lost

heartbeatVars == <<last_send_heartbeat, last_received_heartbeat_time, heartbeats, lost>>
allVars == <<vars, heartbeatVars>>

HInit ==
  /\ Init
  /\ last_send_heartbeat = [p \in Peers |-> 0]
  /\ last_received_heartbeat_time = [p \in Peers |-> 0]
  /\ heartbeats = [p \in Peers |-> {}]
  /\ lost = FALSE

\* send_heartbeat, the callback of heartbeat_timer, which starts the timer again.
SendHeartbeat(p) ==
  /\ Running(p)
  /\ last_send_heartbeat[A] + last_send_heartbeat[B] < MaxHeartbeats
  /\ last_send_heartbeat' = [last_send_heartbeat EXCEPT ![p] = @ + 1]
  /\ heartbeats' = [heartbeats EXCEPT
       ![Other(p)] = @ \cup {[type |-> "heartbeat", timestamp |-> last_send_heartbeat[p] + 1]}]
  /\ UNCHANGED <<last_received_heartbeat_time, lost>>

\* Mutant: the message goes back under its own type.
Answer_SameType(msg) == msg

Answer(msg) == [msg EXCEPT !.type = "heartbeat_ack"]

OnHeartbeatMessage(p, msg) ==
  /\ Running(p) /\ msg.type = "heartbeat"
  /\ heartbeats' = [heartbeats EXCEPT ![p] = @ \ {msg}, ![Other(p)] = @ \cup {Answer(msg)}]
  /\ UNCHANGED <<last_send_heartbeat, last_received_heartbeat_time, lost>>

OnHeartbeatAckMessage(p, msg) ==
  /\ Running(p) /\ msg.type = "heartbeat_ack"
  /\ last_received_heartbeat_time' =
       [last_received_heartbeat_time EXCEPT ![p] = last_send_heartbeat[p]]
  /\ heartbeats' = [heartbeats EXCEPT ![p] = @ \ {msg}]
  /\ UNCHANGED <<last_send_heartbeat, lost>>

LoseHeartbeat(p, msg) ==
  /\ Lossy
  /\ heartbeats' = [heartbeats EXCEPT ![p] = @ \ {msg}]
  /\ lost' = TRUE
  /\ UNCHANGED <<last_send_heartbeat, last_received_heartbeat_time>>

HandleHeartbeat(p) ==
  \E msg \in heartbeats[p] : OnHeartbeatMessage(p, msg) \/ OnHeartbeatAckMessage(p, msg)

HeartbeatStep(p) == \/ SendHeartbeat(p)
                    \/ HandleHeartbeat(p)
                    \/ \E msg \in heartbeats[p] : LoseHeartbeat(p, msg)

HNext == \/ Next /\ UNCHANGED heartbeatVars
         \/ (\E p \in Peers : HeartbeatStep(p)) /\ UNCHANGED vars

HSpec == HInit /\ [][HNext]_allVars

HFairSpec == HSpec /\ \A p \in Peers : WF_allVars(HandleHeartbeat(p) /\ UNCHANGED vars)

-----------------------------------------------------------------------------
(* Heartbeats come from timers and acknowledgements from heartbeats only: a
   message that is sent back is answered no more, so the two never go to and fro. *)
HeartbeatsArePaired ==
  \A p \in Peers : \A msg \in heartbeats[p] :
    \/ msg.type = "heartbeat" /\ msg.timestamp <= last_send_heartbeat[Other(p)]
    \/ msg.type = "heartbeat_ack" /\ msg.timestamp <= last_send_heartbeat[p]

(* A heartbeat is acknowledged unless one is lost or a game is over: silence
   means that the peer is gone or cannot be reached. *)
HeartbeatsAnswered ==
  \A p \in Peers, k \in 1 .. MaxHeartbeats :
    last_send_heartbeat[p] = k ~>
      \/ last_received_heartbeat_time[p] >= k
      \/ lost
      \/ \E q \in Peers : ~Running(q)
=============================================================================
