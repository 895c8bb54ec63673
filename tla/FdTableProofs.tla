--------------------------- MODULE FdTableProofs ---------------------------
(***************************************************************************)
(* Lemmas about the descriptor table of cblib.c, for any number of entries, *)
(* a set D of descriptors and a set C of callbacks: what its searches find, *)
(* and that every call keeps a sound table sound.                           *)
(***************************************************************************)
EXTENDS FdTable, WellFoundedInduction, TLAPS

-----------------------------------------------------------------------------
(* The two searches of the code end at what they look for. *)

LEMMA LeastNatural ==
  ASSUME NEW S \in SUBSET Nat, S # {}
  PROVE  \E m \in S : \A n \in S : m <= n
<1>1. PICK m \in S : \A n \in S : ~ (<<n, m>> \in OpToRel(<, Nat))
  BY NatLessThanWellFounded, WFMin
<1>2. \A n \in S : ~ (n < m)
  BY <1>1 DEF OpToRel
<1>. QED  BY <1>2

LEMMA FirstIsLeast ==
  ASSUME NEW S \in SUBSET Index, S # {}
  PROVE  First(S) \in S /\ \A i \in S : First(S) <= i
<1>1. \E i \in S : \A j \in S : i <= j
  BY LeastNatural, FdSetSizeAssumption DEF Index
<1>. QED  BY <1>1 DEF First

(* Among finitely many numbers there is a largest: the least upper bound that
   a prefix of the array does not exceed. *)
LEMMA LargestExists ==
  ASSUME NEW cb, \A i \in Index : cb[i].fd \in Nat \cup {-1}
  PROVE  \E m \in {cb[i].fd : i \in Index} \cup {-1} : \A i \in Index : cb[i].fd <= m
<1> DEFINE Bad == {k \in 0 .. FD_SETSIZE :
              ~ \E m \in {cb[i].fd : i \in Index} \cup {-1} : \A i \in Index : i < k => cb[i].fd <= m}
<1>1. CASE Bad = {}
  <2>1. FD_SETSIZE \notin Bad
    BY <1>1
  <2>2. PICK m \in {cb[i].fd : i \in Index} \cup {-1} : \A i \in Index : i < FD_SETSIZE => cb[i].fd <= m
    BY <2>1, FdSetSizeAssumption
  <2>. QED  BY <2>2, FdSetSizeAssumption DEF Index
<1>2. CASE Bad # {}
  <2>0. Bad \in SUBSET Nat
    BY FdSetSizeAssumption
  <2>1. PICK k \in Bad : \A n \in Bad : k <= n
    <3>. HIDE DEF Bad
    <3>. QED  BY <1>2, <2>0, LeastNatural
  <2>2. k # 0
    BY <2>1 DEF Index
  <2>3. k - 1 \in Index /\ k - 1 \in 0 .. FD_SETSIZE /\ k - 1 \notin Bad
    <3>1. k \in 0 .. FD_SETSIZE
      OBVIOUS
    <3>2. k - 1 \in Index /\ k - 1 \in 0 .. FD_SETSIZE /\ ~ (k <= k - 1)
      BY <2>2, <3>1, FdSetSizeAssumption DEF Index
    <3>. HIDE DEF Bad
    <3>. QED  BY <2>1, <3>2
  <2>4. PICK m \in {cb[i].fd : i \in Index} \cup {-1} : \A i \in Index : i < k - 1 => cb[i].fd <= m
    BY <2>3
  <2>5. m \in Nat \cup {-1}
    OBVIOUS
  <2>6. \A i \in Index : i < k => i < k - 1 \/ i = k - 1
    BY FdSetSizeAssumption, <2>1 DEF Index
  <2>7. CASE cb[k - 1].fd <= m
    <3>1. \A i \in Index : i < k => cb[i].fd <= m
      BY <2>4, <2>6, <2>7
    <3>. QED  BY <2>1, <3>1
  <2>8. CASE ~ (cb[k - 1].fd <= m)
    <3>1. \A i \in Index : i < k => cb[i].fd <= cb[k - 1].fd
      BY <2>3, <2>4, <2>5, <2>6, <2>8
    <3>. QED  BY <2>1, <2>3, <3>1
  <2>. QED  BY <2>7, <2>8
<1>. QED  BY <1>1, <1>2

LEMMA LargestFdIsLargest ==
  ASSUME NEW cb, \A i \in Index : cb[i].fd \in Nat \cup {-1}
  PROVE  /\ LargestFd(cb) \in {cb[i].fd : i \in Index} \cup {-1}
         /\ \A i \in Index : cb[i].fd <= LargestFd(cb)
BY LargestExists DEF LargestFd

-----------------------------------------------------------------------------
TablesOver(D, C) == [cb : [Index -> [fd : D \cup {-1}, callback : C \cup {Dummy}]],
                     read_fds : SUBSET D,
                     maxfd : D \cup {-1}]

(* A consistent table, with what Consistent leaves open: an entry in use holds a
   callback. *)
Sound(D, C, t) == /\ D \subseteq Nat
                  /\ t \in TablesOver(D, C)
                  /\ Consistent(t)
                  /\ \A i \in Index : t.cb[i].fd # -1 => t.cb[i].callback \in C

LEMMA InitSound ==
  ASSUME NEW D, D \subseteq Nat, NEW C
  PROVE  Sound(D, C, init_cblib)
BY DEF Sound, TablesOver, Consistent, Registered, init_cblib, Unused

LEMMA FdsAreNumbers ==
  ASSUME NEW D, NEW C, NEW t, Sound(D, C, t)
  PROVE  /\ \A i \in Index : t.cb[i].fd \in Nat \cup {-1}
         /\ t.maxfd \in Nat \cup {-1}
         /\ \A i \in Index : t.cb[i].fd <= t.maxfd
         /\ t.cb \in [Index -> [fd : D \cup {-1}, callback : C \cup {Dummy}]]
<1>. D \subseteq Nat
  BY DEF Sound
<1>1. /\ t.maxfd \in Nat \cup {-1}
      /\ \A i \in Index : t.cb[i].fd \in Nat \cup {-1}
      /\ t.cb \in [Index -> [fd : D \cup {-1}, callback : C \cup {Dummy}]]
  BY DEF Sound, TablesOver
<1>2. \A i \in Index : t.cb[i].fd # -1 => t.cb[i].fd <= t.maxfd
  BY DEF Sound, Consistent, Registered
<1>3. -1 <= t.maxfd
  BY <1>1
<1>. QED  BY <1>1, <1>2, <1>3

(* A registration writes one entry: the one that holds the descriptor, or a free
   one when there is none. *)
Written(t, i, f, callback) ==
  [cb       |-> [t.cb EXCEPT ![i] = [fd |-> f, callback |-> callback]],
   read_fds |-> t.read_fds \cup {f},
   maxfd    |-> IF f > t.maxfd THEN f ELSE t.maxfd]

LEMMA WrittenIsSound ==
  ASSUME NEW D, NEW C, NEW t, Sound(D, C, t),
         NEW i \in Index, NEW f \in D, NEW callback \in C,
         t.cb[i].fd = f \/ (t.cb[i].fd = -1 /\ Entries(t, f) = {})
  PROVE  Sound(D, C, Written(t, i, f, callback))
<1>. D \subseteq Nat
  BY DEF Sound
<1> DEFINE u == Written(t, i, f, callback)
<1>1. u \in TablesOver(D, C)
  BY DEF Sound, TablesOver, Written
<1>2. f \in Nat /\ f # -1
  OBVIOUS
<1>3. /\ u.cb[i].fd = f /\ u.cb[i].callback = callback
      /\ \A j \in Index : j # i => u.cb[j] = t.cb[j] /\ t.cb[j].fd # f
  <2>1. \A j \in Index : j # i => t.cb[j].fd # f
    BY <1>2 DEF Sound, Consistent, Entries
  <2>. QED  BY <2>1, FdsAreNumbers DEF Written
<1>4. u.read_fds = Registered(u)
  <2>1. Registered(u) = Registered(t) \cup {f}
    <3>1. \A x \in Registered(u) : x \in Registered(t) \cup {f}
      BY <1>3 DEF Registered
    <3>2. f \in Registered(u)
      BY <1>2, <1>3 DEF Registered
    <3>3. \A x \in Registered(t) : x \in Registered(u)
      <4> TAKE x \in Registered(t)
      <4>1. PICK j \in Index : x = t.cb[j].fd /\ x # -1
        BY DEF Registered
      <4>2. CASE j = i
        BY <4>1, <4>2, <3>2
      <4>3. CASE j # i
        BY <4>1, <4>3, <1>3 DEF Registered
      <4>. QED  BY <4>2, <4>3
    <3>. QED  BY <3>1, <3>2, <3>3
  <2>. QED  BY <2>1 DEF Sound, Consistent, Written
<1>5. /\ u.maxfd \in Registered(u) \cup {-1}
      /\ \A x \in Registered(u) : x <= u.maxfd
  <2>1. u.read_fds = t.read_fds \cup {f} /\ t.read_fds = Registered(t)
    BY DEF Sound, Consistent, Written
  <2>2. u.maxfd = IF f > t.maxfd THEN f ELSE t.maxfd
    BY DEF Written
  <2>3. t.maxfd \in Registered(t) \cup {-1} /\ \A x \in Registered(t) : x <= t.maxfd
    BY DEF Sound, Consistent
  <2>4. \A x \in Registered(t) : x \in Nat
    BY FdsAreNumbers DEF Registered
  <2>5. t.maxfd \in Nat \cup {-1}
    BY FdsAreNumbers
  <2>6. Registered(u) = Registered(t) \cup {f}
    BY <1>4, <2>1
  <2>. HIDE DEF u
  <2>. QED  BY <2>2, <2>3, <2>4, <2>5, <2>6, <1>2
<1>6. \A j, k \in Index : u.cb[j].fd = u.cb[k].fd /\ u.cb[j].fd # -1 => j = k
  <2>. HIDE DEF u
  <2>. QED  BY <1>3 DEF Sound, Consistent
<1>7. \A j \in Index : /\ u.cb[j].fd = -1 => u.cb[j].callback = Dummy
                       /\ u.cb[j].fd # -1 => u.cb[j].callback \in C
  <2>. HIDE DEF u
  <2>. QED  BY <1>2, <1>3 DEF Sound, Consistent
<1>. HIDE DEF u
<1>8. Consistent(u)
  BY <1>4, <1>5, <1>6, <1>7 DEF Consistent
<1>9. Sound(D, C, u)
  BY <1>1, <1>7, <1>8 DEF Sound
<1>. QED  BY <1>9 DEF u

(* What a registration does to a sound table. *)
LEMMA EnterCases ==
  ASSUME NEW D, NEW C, NEW t, Sound(D, C, t), NEW f \in D, NEW callback \in C
  PROVE  \/ /\ Entries(t, f) = {} /\ Entries(t, -1) = {}
            /\ Enter(t, f, callback) = t
         \/ \E i \in Index : /\ t.cb[i].fd = f \/ (t.cb[i].fd = -1 /\ Entries(t, f) = {})
                             /\ Enter(t, f, callback) = Written(t, i, f, callback)
<1>. D \subseteq Nat
  BY DEF Sound
<1>0. /\ \A j \in Index : t.cb[j].fd \in Nat \cup {-1} /\ t.cb[j].fd <= t.maxfd
      /\ t.maxfd \in Nat \cup {-1}
      /\ t.cb \in [Index -> [fd : D \cup {-1}, callback : C \cup {Dummy}]]
  BY FdsAreNumbers
<1>1. CASE Entries(t, f) # {}
  <2> DEFINE i == First(Entries(t, f))
  <2>1. i \in Index /\ t.cb[i].fd = f
    BY <1>1, FirstIsLeast DEF Entries
  <2>2. t.read_fds \cup {f} = t.read_fds /\ ~ (f > t.maxfd)
    BY <2>1, <1>0 DEF Sound, Consistent, Registered
  <2>3. Enter(t, f, callback) = [t EXCEPT !.cb[i].callback = callback]
    BY <1>1 DEF Enter, SetCallback
  <2>. HIDE DEF i
  <2>4. [t.cb[i] EXCEPT !.callback = callback] = [fd |-> f, callback |-> callback]
    BY <2>1, <1>0
  <2>5. t = [cb |-> t.cb, read_fds |-> t.read_fds, maxfd |-> t.maxfd]
    BY DEF Sound, TablesOver
  <2>6. [t EXCEPT !.cb[i].callback = callback]
          = [cb |-> [t.cb EXCEPT ![i] = [fd |-> f, callback |-> callback]],
             read_fds |-> t.read_fds, maxfd |-> t.maxfd]
    BY <2>4, <2>5
  <2>. QED  BY <2>1, <2>2, <2>3, <2>6 DEF Written
<1>2. CASE Entries(t, f) = {} /\ Entries(t, -1) # {}
  <2>1. First(Entries(t, -1)) \in Index /\ t.cb[First(Entries(t, -1))].fd = -1
    BY <1>2, FirstIsLeast DEF Entries
  <2>2. Enter(t, f, callback) = Written(t, First(Entries(t, -1)), f, callback)
    BY <1>2 DEF Enter, Add, Written
  <2>. QED  BY <1>2, <2>1, <2>2
<1>3. CASE Entries(t, f) = {} /\ Entries(t, -1) = {}
  BY <1>3 DEF Enter
<1>. QED  BY <1>1, <1>2, <1>3

LEMMA EnterIsSound ==
  ASSUME NEW D, NEW C, NEW t, Sound(D, C, t), NEW f \in D, NEW callback \in C
  PROVE  Sound(D, C, Enter(t, f, callback))
<1>. D \subseteq Nat
  BY DEF Sound
<1>1. CASE Enter(t, f, callback) = t
  BY <1>1
<1>2. ASSUME NEW i \in Index, t.cb[i].fd = f \/ (t.cb[i].fd = -1 /\ Entries(t, f) = {}),
             Enter(t, f, callback) = Written(t, i, f, callback)
      PROVE  Sound(D, C, Enter(t, f, callback))
  BY <1>2, WrittenIsSound
<1>. QED  BY <1>1, <1>2, EnterCases

(* A removal frees the one entry of the descriptor and looks for the largest
   that is left when it was the largest. *)
Cleared(t, i, f) ==
  [cb       |-> ClearEntry(t.cb, i),
   read_fds |-> t.read_fds \ {f},
   maxfd    |-> IF t.maxfd = f THEN LargestFd(ClearEntry(t.cb, i)) ELSE t.maxfd]

LEMMA ClearedIsSound ==
  ASSUME NEW D, NEW C, NEW t, Sound(D, C, t), NEW f \in D, NEW i \in Index, t.cb[i].fd = f
  PROVE  Sound(D, C, Cleared(t, i, f))
<1>. D \subseteq Nat
  BY DEF Sound
<1> DEFINE u == Cleared(t, i, f)
<1>1. f \in Nat /\ f # -1
  OBVIOUS
<1>2. /\ u.cb[i] = Unused
      /\ \A j \in Index : j # i => u.cb[j] = t.cb[j] /\ t.cb[j].fd # f
  <2>1. \A j \in Index : j # i => t.cb[j].fd # f
    BY <1>1 DEF Sound, Consistent
  <2>. QED  BY <2>1, FdsAreNumbers DEF Cleared, ClearEntry
<1>3. u.cb \in [Index -> [fd : D \cup {-1}, callback : C \cup {Dummy}]]
  BY FdsAreNumbers DEF Cleared, ClearEntry, Unused
<1>4. Registered(u) = Registered(t) \ {f}
  <2>. HIDE DEF u
  <2>1. \A x \in Registered(u) : x \in Registered(t) \ {f}
    BY <1>2 DEF Registered, Unused
  <2>2. \A x \in Registered(t) \ {f} : x \in Registered(u)
    <3> TAKE x \in Registered(t) \ {f}
    <3>1. PICK j \in Index : x = t.cb[j].fd /\ x # -1
      BY DEF Registered
    <3>2. j # i
      BY <3>1
    <3>. QED  BY <3>1, <3>2, <1>2 DEF Registered
  <2>. QED  BY <2>1, <2>2
<1>5. u.read_fds = Registered(u)
  BY <1>4 DEF Cleared, Sound, Consistent
<1>6. \A j \in Index : u.cb[j].fd \in Nat \cup {-1}
  BY <1>3
<1>7. /\ u.maxfd \in Registered(u) \cup {-1}
      /\ \A x \in Registered(u) : x <= u.maxfd
  <2>1. CASE t.maxfd = f
    <3>1. u.maxfd = LargestFd(u.cb)
      BY <2>1 DEF Cleared
    <3>. HIDE DEF u
    <3>2. /\ u.maxfd \in {u.cb[j].fd : j \in Index} \cup {-1}
          /\ \A j \in Index : u.cb[j].fd <= u.maxfd
      BY <3>1, <1>6, LargestFdIsLargest
    <3>. QED  BY <3>2 DEF Registered
  <2>2. CASE t.maxfd # f
    <3>1. u.maxfd = t.maxfd
      BY <2>2 DEF Cleared
    <3>2. t.maxfd \in Registered(t) \cup {-1} /\ \A x \in Registered(t) : x <= t.maxfd
      BY DEF Sound, Consistent
    <3>. HIDE DEF u
    <3>. QED  BY <2>2, <3>1, <3>2, <1>4
  <2>. QED  BY <2>1, <2>2
<1>8. u \in TablesOver(D, C)
  <2>1. u.read_fds \subseteq D
    BY DEF Cleared, Sound, TablesOver
  <2>2. u.maxfd \in D \cup {-1}
    <3>1. Registered(u) \subseteq D
      BY <1>5, <2>1
    <3>. HIDE DEF u
    <3>. QED  BY <1>7, <3>1
  <2>3. u = [cb |-> u.cb, read_fds |-> u.read_fds, maxfd |-> u.maxfd]
    BY DEF Cleared
  <2>. HIDE DEF u
  <2>. QED  BY <1>3, <2>1, <2>2, <2>3 DEF TablesOver
<1>. HIDE DEF u
<1>9. \A j, k \in Index : u.cb[j].fd = u.cb[k].fd /\ u.cb[j].fd # -1 => j = k
  BY <1>2 DEF Sound, Consistent, Unused
<1>10. \A j \in Index : /\ u.cb[j].fd = -1 => u.cb[j].callback = Dummy
                        /\ u.cb[j].fd # -1 => u.cb[j].callback \in C
  BY <1>2 DEF Sound, Consistent, Unused
<1>11. Sound(D, C, u)
  BY <1>5, <1>7, <1>8, <1>9, <1>10 DEF Sound, Consistent
<1>. QED  BY <1>11 DEF u

LEMMA RemoveCases ==
  ASSUME NEW D, NEW C, NEW t, Sound(D, C, t), NEW f \in D
  PROVE  \/ Entries(t, f) = {} /\ Remove(t, f) = t
         \/ \E i \in Index : t.cb[i].fd = f /\ Remove(t, f) = Cleared(t, i, f)
<1>. D \subseteq Nat
  BY DEF Sound
<1>1. CASE Entries(t, f) = {}
  <2>1. t.read_fds \ {f} = t.read_fds
    BY <1>1 DEF Sound, Consistent, Registered, Entries
  <2>2. t = [cb |-> t.cb, read_fds |-> t.read_fds, maxfd |-> t.maxfd]
    BY DEF Sound, TablesOver
  <2>. QED  BY <1>1, <2>1, <2>2 DEF Remove
<1>2. CASE Entries(t, f) # {}
  <2>1. First(Entries(t, f)) \in Index /\ t.cb[First(Entries(t, f))].fd = f
    BY <1>2, FirstIsLeast DEF Entries
  <2>2. Remove(t, f) = Cleared(t, First(Entries(t, f)), f)
    BY <1>2 DEF Remove, Cleared
  <2>. QED  BY <2>1, <2>2
<1>. QED  BY <1>1, <1>2

(* Standard input is the largest descriptor only when it is alone, so the code
   that removes it need not search. *)
LEMMA DeregisterStdinIsRemove ==
  ASSUME NEW D, 0 \in D, NEW C, NEW t, Sound(D, C, t)
  PROVE  deregister_stdin_callback(t) = Remove(t, 0)
<1>. D \subseteq Nat
  BY DEF Sound
<1>0. /\ \A j \in Index : t.cb[j].fd \in Nat \cup {-1} /\ t.cb[j].fd <= t.maxfd
      /\ t.maxfd \in Nat \cup {-1}
      /\ t.cb \in [Index -> [fd : D \cup {-1}, callback : C \cup {Dummy}]]
  BY FdsAreNumbers
<1>1. CASE Entries(t, 0) # {} /\ t.maxfd = 0
  <2> DEFINE i == First(Entries(t, 0))
             cb == ClearEntry(t.cb, i)
  <2>1. i \in Index /\ t.cb[i].fd = 0
    BY <1>1, FirstIsLeast DEF Entries
  <2>. HIDE DEF i
  <2>2. \A j \in Index : cb[j].fd \in Nat \cup {-1} /\ cb[j].fd <= 0 /\ cb[j].fd # 0
    <3> TAKE j \in Index
    <3>1. CASE j = i
      BY <3>1, <2>1, <1>0 DEF ClearEntry, Unused
    <3>2. CASE j # i
      <4>1. cb[j] = t.cb[j]
        BY <3>2, <1>0 DEF ClearEntry
      <4>2. t.cb[j].fd \in Nat \cup {-1} /\ t.cb[j].fd <= 0
        BY <1>1, <1>0
      <4>3. t.cb[j].fd # 0
        BY <2>1, <3>2 DEF Sound, Consistent
      <4>. HIDE DEF cb
      <4>. QED  BY <4>1, <4>2, <4>3
    <3>. QED  BY <3>1, <3>2
  <2>. HIDE DEF cb
  <2>3. \A j \in Index : cb[j].fd = -1
    BY <2>2
  <2>4. LargestFd(cb) = -1
    BY <2>2, <2>3, LargestFdIsLargest
  <2>. QED  BY <1>1, <2>4 DEF deregister_stdin_callback, Remove, cb, i
<1>2. CASE ~ (Entries(t, 0) # {} /\ t.maxfd = 0)
  BY <1>2 DEF deregister_stdin_callback, Remove
<1>. QED  BY <1>1, <1>2

LEMMA RemoveIsSound ==
  ASSUME NEW D, NEW C, NEW t, Sound(D, C, t), NEW f \in D
  PROVE  Sound(D, C, Remove(t, f))
<1>. D \subseteq Nat
  BY DEF Sound
<1>1. CASE Remove(t, f) = t
  BY <1>1
<1>2. ASSUME NEW i \in Index, t.cb[i].fd = f, Remove(t, f) = Cleared(t, i, f)
      PROVE  Sound(D, C, Remove(t, f))
  BY <1>2, ClearedIsSound
<1>. QED  BY <1>1, <1>2, RemoveCases
=============================================================================
