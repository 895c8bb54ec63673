--------------------------- MODULE SelectServing ---------------------------
(* What holds of the discard and the daytime server.                         *)
EXTENDS SelectServer

(* One thread serves everybody, so it must not wait for anybody: a call of
   Recv or Accept that follows select() always finds something to do, also
   after other slots of the round were closed or filled. *)
NeverBlocks ==
  /\ pc = "accept" /\ listening => backlog # <<>>
  /\ Current # NONE => Readable(Current)

(* A connection is turned away at the door only while MAX_FDS others are
   connected: over any number of connects and closes no place is lost. *)
RefusedOnlyWhenFull == [][Refuse => Cardinality(Held) = MAX_FDS]_vars

(* The descriptor of a client that has closed is closed in the end. *)
ClosedIsReleased ==
  \A c \in Clients : client[c] = "closed" /\ c \in Held ~> (c \notin Held \/ pc = "exited")

(* A daytime client that waits for the text is told the time, unless it was
   turned away: an answer never ends without it. *)
WaitingIsTold ==
  \A c \in Clients :
    daytime /\ client[c] \in {"open", "finished"} /\ c \in Held
      ~> (told[c] \/ client[c] = "closed" \/ pc = "exited")
=============================================================================
