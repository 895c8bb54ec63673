------------------------------ MODULE FdTable ------------------------------
(* The descriptor table of client/lib/cblib.c: the array cb, the set read_fds *)
(* handed to select() and the largest descriptor maxfd.  The pair of callback *)
(* and argument an entry holds is one value, Dummy for the callback dummy.    *)
EXTENDS Integers

CONSTANTS FD_SETSIZE,  \* number of entries
          Dummy        \* callback of an entry that is not in use

ASSUME FdSetSizeAssumption == FD_SETSIZE \in Nat \ {0}

Index == 0 .. FD_SETSIZE - 1

Unused == [fd |-> -1, callback |-> Dummy]

init_cblib == [cb |-> [i \in Index |-> Unused], read_fds |-> {}, maxfd |-> -1]

(* The entries that hold fd; -1 stands for a free entry. *)
Entries(t, fd) == {i \in Index : t.cb[i].fd = fd}

First(S) == CHOOSE i \in S : \A j \in S : i <= j

\* Mutant: a registered descriptor gets a second entry.
Enter_Twice(t, fd, callback) ==
  IF Entries(t, -1) # {}
  THEN [cb       |-> [t.cb EXCEPT ![First(Entries(t, -1))] = [fd |-> fd, callback |-> callback]],
        read_fds |-> t.read_fds \cup {fd},
        maxfd    |-> IF fd > t.maxfd THEN fd ELSE t.maxfd]
  ELSE t

SetCallback(t, fd, callback) ==
  [t EXCEPT !.cb[First(Entries(t, fd))].callback = callback]

\* Mutant: maxfd stays.
Add_NoMax(t, fd, callback) ==
  [cb       |-> [t.cb EXCEPT ![First(Entries(t, -1))] = [fd |-> fd, callback |-> callback]],
   read_fds |-> t.read_fds \cup {fd},
   maxfd    |-> t.maxfd]

Add(t, fd, callback) ==
  [cb       |-> [t.cb EXCEPT ![First(Entries(t, -1))] = [fd |-> fd, callback |-> callback]],
   read_fds |-> t.read_fds \cup {fd},
   maxfd    |-> IF fd > t.maxfd THEN fd ELSE t.maxfd]

Enter(t, fd, callback) ==
  IF Entries(t, fd) # {} THEN SetCallback(t, fd, callback)
  ELSE IF Entries(t, -1) # {} THEN Add(t, fd, callback)
  ELSE t

register_fd_callback(t, fd, callback) ==
  IF fd <= 0 THEN t ELSE Enter(t, fd, callback)

register_stdin_callback(t, callback) == Enter(t, 0, callback)

ClearEntry(cb, i) == [cb EXCEPT ![i] = Unused]

\* Mutant: the scan ends at the first entry.
LargestFd_First(cb) == cb[0].fd

(* The scan starts from -1, so it finds -1 when no entry is in use. *)
LargestFd(cb) == CHOOSE m \in {cb[i].fd : i \in Index} \cup {-1} :
                   \A i \in Index : cb[i].fd <= m

\* Mutant: the descriptor stays in the set for select().
Remove_KeepsBit(t, fd) ==
  LET cb == IF Entries(t, fd) = {} THEN t.cb ELSE ClearEntry(t.cb, First(Entries(t, fd)))
  IN  [cb |-> cb, read_fds |-> t.read_fds,
       maxfd |-> IF Entries(t, fd) # {} /\ t.maxfd = fd THEN LargestFd(cb) ELSE t.maxfd]

Remove(t, fd) ==
  LET cb == IF Entries(t, fd) = {} THEN t.cb ELSE ClearEntry(t.cb, First(Entries(t, fd)))
  IN  [cb       |-> cb,
       read_fds |-> t.read_fds \ {fd},
       maxfd    |-> IF Entries(t, fd) # {} /\ t.maxfd = fd THEN LargestFd(cb) ELSE t.maxfd]

deregister_fd_callback(t, fd) == IF fd <= 0 THEN t ELSE Remove(t, fd)

(* Standard input is the smallest descriptor: maxfd is 0 only when it is alone. *)
deregister_stdin_callback(t) ==
  LET cb == IF Entries(t, 0) = {} THEN t.cb ELSE ClearEntry(t.cb, First(Entries(t, 0)))
  IN  [cb       |-> cb,
       read_fds |-> t.read_fds \ {0},
       maxfd    |-> IF Entries(t, 0) # {} /\ t.maxfd = 0 THEN -1 ELSE t.maxfd]

(* The entry at which the loop over the ready set calls a callback next. *)
Dispatches(t, rset, i) == t.cb[i].fd >= 0 /\ t.cb[i].fd \in rset

Pending(t, rset, from) == {i \in Index : i >= from /\ Dispatches(t, rset, i)}

-----------------------------------------------------------------------------
(* What the table of registrations must be, whatever calls led to it: the set *)
(* given to select() is exactly the set of registered descriptors, maxfd is   *)
(* the largest, and no descriptor has two entries.                            *)
Registered(t) == {t.cb[i].fd : i \in Index} \ {-1}

Consistent(t) ==
  /\ t.read_fds = Registered(t)
  /\ t.maxfd \in Registered(t) \cup {-1}
  /\ \A fd \in Registered(t) : fd <= t.maxfd
  /\ \A i, j \in Index : t.cb[i].fd = t.cb[j].fd /\ t.cb[i].fd # -1 => i = j
  /\ \A i \in Index : t.cb[i].fd = -1 => t.cb[i].callback = Dummy
=============================================================================
