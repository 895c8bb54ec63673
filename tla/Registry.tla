------------------------------ MODULE Registry ------------------------------
(* What the descriptor table of cblib.c promises: a map from descriptors to  *)
(* callbacks with room for Capacity of them.  Registering again replaces the *)
(* callback, and a registration for which there is no room has no effect.    *)
EXTENDS Integers, FiniteSets

CONSTANTS Fds, Callbacks, NoCallback, Capacity

VARIABLES registry,
          call      \* the last call of the interface

vars == <<registry, call>>

InUse == {fd \in Fds : registry[fd] # NoCallback}

Init == registry = [fd \in Fds |-> NoCallback] /\ call = <<>>

Set(fd, callback) ==
  /\ call' = <<"register", fd, callback>>
  /\ fd \in InUse \/ Cardinality(InUse) < Capacity
  /\ registry' = [registry EXCEPT ![fd] = callback]

NoRoom(fd, callback) ==
  /\ call' = <<"register", fd, callback>>
  /\ fd \notin InUse /\ Cardinality(InUse) >= Capacity
  /\ UNCHANGED registry

Unset(fd) ==
  /\ call' = <<"deregister", fd>>
  /\ registry' = [registry EXCEPT ![fd] = NoCallback]

Next == \E fd \in Fds : \/ \E callback \in Callbacks : Set(fd, callback) \/ NoRoom(fd, callback)
                        \/ Unset(fd)

Spec == Init /\ [][Next]_vars
=============================================================================
