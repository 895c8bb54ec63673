------------------------------ MODULE FdCalls ------------------------------
(* The descriptor table of cblib.c under any calls of its interface.         *)
EXTENDS FdTable, FiniteSets

CONSTANTS Fds,       \* descriptors, 0 being standard input
          Callbacks  \* callback and argument of a registration

ASSUME FdsAssumption == Fds \subseteq Nat /\ 0 \in Fds

ASSUME DummyAssumption == Dummy \notin Callbacks

VARIABLES table,
          call   \* the last call, a history variable

vars == <<table, call>>

Init == table = init_cblib /\ call = <<>>

\* Standard input has an interface of its own; the other one refuses it.
Register(fd, callback) ==
  /\ fd # 0
  /\ table' = register_fd_callback(table, fd, callback)
  /\ call' = <<"register", fd, callback>>

Deregister(fd) ==
  /\ fd # 0
  /\ table' = deregister_fd_callback(table, fd)
  /\ call' = <<"deregister", fd>>

RegisterStdin(callback) ==
  /\ table' = register_stdin_callback(table, callback)
  /\ call' = <<"register", 0, callback>>

DeregisterStdin ==
  /\ table' = deregister_stdin_callback(table)
  /\ call' = <<"deregister", 0>>

Next == \/ \E fd \in Fds, callback \in Callbacks : Register(fd, callback)
        \/ \E fd \in Fds : Deregister(fd)
        \/ \E callback \in Callbacks : RegisterStdin(callback)
        \/ DeregisterStdin

Spec == Init /\ [][Next]_vars
-----------------------------------------------------------------------------
Tables == [cb : [Index -> [fd : Fds \cup {-1}, callback : Callbacks \cup {Dummy}]],
           read_fds : SUBSET Fds,
           maxfd : Fds \cup {-1}]

(* The table always has its type and tells the same story in its three parts:
   select() watches exactly the descriptors that have an entry, up to and
   including the largest, and each of them has one entry. *)
TableInv == table \in Tables /\ Consistent(table)

\* The callback a descriptor is registered with.
CallbackOf(t, fd) ==
  IF Entries(t, fd) = {} THEN Dummy ELSE t.cb[First(Entries(t, fd))].callback

Reg == INSTANCE Registry WITH
         Capacity <- FD_SETSIZE, NoCallback <- Dummy,
         registry <- [fd \in Fds |-> CallbackOf(table, fd)]

(* Whatever the order of the calls, the array behaves as a map of limited size:
   no registration is lost while there is room, none is found twice and none
   survives its removal. *)
IsRegistry == Reg!Spec
=============================================================================
