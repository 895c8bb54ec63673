--------------------------- MODULE FdCallsProofs ---------------------------
(***************************************************************************)
(* Proofs about the descriptor table, for any number of entries and any    *)
(* sequence of calls: TableInv, and the refinement of Registry.            *)
(***************************************************************************)
EXTENDS FdCalls, FdTableProofs, FiniteSetTheorems

-----------------------------------------------------------------------------
(* Every call keeps the table sound. *)
LEMMA NextKeepsSound == Sound(Fds, Callbacks, table) /\ [Next]_vars => Sound(Fds, Callbacks, table')
<1> SUFFICES ASSUME Sound(Fds, Callbacks, table), [Next]_vars
             PROVE  Sound(Fds, Callbacks, table')
  OBVIOUS
<1>1. ASSUME NEW fd \in Fds, NEW callback \in Callbacks, Register(fd, callback)
      PROVE  Sound(Fds, Callbacks, table')
  <2>1. table' = Enter(table, fd, callback)
    BY <1>1, FdsAssumption DEF Register, register_fd_callback
  <2>. QED  BY <2>1, EnterIsSound
<1>2. ASSUME NEW fd \in Fds, Deregister(fd)
      PROVE  Sound(Fds, Callbacks, table')
  <2>1. table' = Remove(table, fd)
    BY <1>2, FdsAssumption DEF Deregister, deregister_fd_callback
  <2>. QED  BY <2>1, RemoveIsSound
<1>3. ASSUME NEW callback \in Callbacks, RegisterStdin(callback)
      PROVE  Sound(Fds, Callbacks, table')
  BY <1>3, FdsAssumption, EnterIsSound DEF RegisterStdin, register_stdin_callback
<1>4. CASE DeregisterStdin
  BY <1>4, FdsAssumption, DeregisterStdinIsRemove, RemoveIsSound DEF DeregisterStdin
<1>5. CASE UNCHANGED vars
  BY <1>5 DEF vars
<1>. QED  BY <1>1, <1>2, <1>3, <1>4, <1>5 DEF Next

SoundTable == Sound(Fds, Callbacks, table)

LEMMA AlwaysSound == Spec => []SoundTable
<1>1. Init => SoundTable
  BY FdsAssumption, InitSound DEF Init, SoundTable
<1>2. SoundTable /\ [Next]_vars => SoundTable'
  BY NextKeepsSound DEF SoundTable
<1>. QED  BY <1>1, <1>2, PTL DEF Spec

(* Whatever the order of registrations and removals, select() watches exactly
   the registered descriptors up to the largest, and each has one entry. *)
THEOREM TableIsConsistent == Spec => []TableInv
<1>1. SoundTable => TableInv
  BY DEF SoundTable, Sound, TableInv, Tables, TablesOver
<1>. QED  BY <1>1, AlwaysSound, PTL

-----------------------------------------------------------------------------
(* The map of Registry a sound table stands for. *)

LEMMA CallbackOfEntry ==
  ASSUME NEW t, Sound(Fds, Callbacks, t), NEW f \in Fds
  PROVE  /\ Entries(t, f) = {} => CallbackOf(t, f) = Dummy
         /\ \A i \in Index : t.cb[i].fd = f => CallbackOf(t, f) = t.cb[i].callback
<1>1. Entries(t, f) = {} => CallbackOf(t, f) = Dummy
  BY DEF CallbackOf
<1>2. ASSUME NEW i \in Index, t.cb[i].fd = f
      PROVE  CallbackOf(t, f) = t.cb[i].callback
  <2>1. i \in Entries(t, f)
    BY <1>2 DEF Entries
  <2>2. First(Entries(t, f)) \in Index /\ t.cb[First(Entries(t, f))].fd = f
    BY <2>1, FirstIsLeast DEF Entries
  <2>3. First(Entries(t, f)) = i
    BY <1>2, <2>2, FdsAssumption DEF Sound, Consistent
  <2>. QED  BY <2>1, <2>3 DEF CallbackOf
<1>. QED  BY <1>1, <1>2

Held(t) == {f \in Fds : CallbackOf(t, f) # Dummy}

LEMMA HeldHasEntry ==
  ASSUME NEW t, Sound(Fds, Callbacks, t), NEW f \in Fds
  PROVE  f \in Held(t) <=> Entries(t, f) # {}
<1>1. ASSUME NEW i \in Entries(t, f)
      PROVE  CallbackOf(t, f) # Dummy
  <2>1. i \in Index /\ t.cb[i].fd = f /\ f # -1
    BY FdsAssumption DEF Entries
  <2>2. t.cb[i].callback \in Callbacks
    BY <2>1 DEF Sound
  <2>. QED  BY <2>1, <2>2, CallbackOfEntry, DummyAssumption
<1>. QED  BY <1>1, CallbackOfEntry DEF Held

(* There is a free entry exactly when the map is not full. *)
LEMMA RoomIsFreeEntry ==
  ASSUME NEW t, Sound(Fds, Callbacks, t)
  PROVE  /\ Cardinality(Held(t)) \in Nat
         /\ Entries(t, -1) # {} <=> Cardinality(Held(t)) < FD_SETSIZE
<1> DEFINE h == [f \in Held(t) |-> First(Entries(t, f))]
<1>1. \A f \in Held(t) : h[f] \in Index /\ t.cb[h[f]].fd = f
  BY HeldHasEntry, FirstIsLeast DEF Entries, Held
<1>2. IsFiniteSet(Index) /\ Cardinality(Index) = FD_SETSIZE
  BY FS_Interval, FdSetSizeAssumption DEF Index
<1>3. h \in Injection(Held(t), Index)
  BY <1>1 DEF Injection, IsInjective
<1>4. Cardinality(Held(t)) \in Nat
  BY <1>2, <1>3, FS_Injection, FS_CardinalityType
<1>5. ASSUME NEW i \in Index, t.cb[i].fd = -1
      PROVE  Cardinality(Held(t)) < FD_SETSIZE
  <2>1. \A f \in Held(t) : h[f] # i
    BY <1>1, <1>5, FdsAssumption DEF Held
  <2>2. h \notin Surjection(Held(t), Index)
    BY <2>1 DEF Surjection
  <2>3. Cardinality(Held(t)) <= FD_SETSIZE /\ Cardinality(Held(t)) # FD_SETSIZE
    <3>. HIDE DEF h
    <3>. QED  BY <1>2, <1>3, <2>2, FS_Injection
  <2>. QED  BY <1>4, <2>3, FdSetSizeAssumption
<1>6. ASSUME Entries(t, -1) = {}
      PROVE  ~ (Cardinality(Held(t)) < FD_SETSIZE)
  <2>1. ASSUME NEW i \in Index
        PROVE  \E f \in Held(t) : h[f] = i
    <3>1. t.cb[i].fd # -1
      BY <1>6 DEF Entries
    <3>2. t.cb[i].fd \in Fds
      BY <3>1, FdsAreNumbers
    <3>3. t.cb[i].fd \in Held(t)
      BY <3>2, HeldHasEntry DEF Entries
    <3>4. h[t.cb[i].fd] = i
      BY <1>1, <3>1, <3>3 DEF Sound, Consistent
    <3>. QED  BY <3>3, <3>4
  <2>2. h \in Surjection(Held(t), Index)
    BY <1>1, <2>1 DEF Surjection
  <2>3. Cardinality(Held(t)) = FD_SETSIZE
    <3>. HIDE DEF h
    <3>. QED  BY <1>2, <1>3, <2>2, FS_Injection
  <2>. QED  BY <2>3, FdSetSizeAssumption
<1>. QED  BY <1>4, <1>5, <1>6 DEF Entries

LEMMA WrittenIsSet ==
  ASSUME NEW t, Sound(Fds, Callbacks, t), NEW i \in Index, NEW f \in Fds, NEW callback \in Callbacks,
         t.cb[i].fd = f \/ (t.cb[i].fd = -1 /\ Entries(t, f) = {})
  PROVE  \A g \in Fds : CallbackOf(Written(t, i, f, callback), g)
                          = IF g = f THEN callback ELSE CallbackOf(t, g)
<1> DEFINE u == Written(t, i, f, callback)
<1>1. Sound(Fds, Callbacks, u)
  BY WrittenIsSound
<1>2. /\ u.cb[i] = [fd |-> f, callback |-> callback]
      /\ \A j \in Index : j # i => u.cb[j] = t.cb[j]
  BY FdsAreNumbers DEF Written
<1>. HIDE DEF u
<1>3. ASSUME NEW g \in Fds
      PROVE  CallbackOf(u, g) = IF g = f THEN callback ELSE CallbackOf(t, g)
  <2>1. CASE g = f
    BY <1>1, <1>2, <2>1, CallbackOfEntry
  <2>2. CASE g # f /\ Entries(t, g) = {}
    <3>1. Entries(u, g) = {}
      BY <1>2, <2>2 DEF Entries
    <3>. QED  BY <1>1, <2>2, <3>1, CallbackOfEntry
  <2>3. ASSUME g # f, NEW j \in Entries(t, g)
        PROVE  CallbackOf(u, g) = CallbackOf(t, g)
    <3>1. j \in Index /\ t.cb[j].fd = g /\ g # -1
      BY FdsAssumption DEF Entries
    <3>2. u.cb[j] = t.cb[j]
      BY <1>2, <2>3, <3>1
    <3>. QED  BY <1>1, <3>1, <3>2, CallbackOfEntry
  <2>. QED  BY <2>1, <2>2, <2>3
<1>. QED  BY <1>3 DEF u

LEMMA ClearedIsUnset ==
  ASSUME NEW t, Sound(Fds, Callbacks, t), NEW f \in Fds, NEW i \in Index, t.cb[i].fd = f
  PROVE  \A g \in Fds : CallbackOf(Cleared(t, i, f), g)
                          = IF g = f THEN Dummy ELSE CallbackOf(t, g)
<1> DEFINE u == Cleared(t, i, f)
<1>1. Sound(Fds, Callbacks, u)
  BY ClearedIsSound
<1>2. u.cb[i] = Unused /\ \A j \in Index : j # i => u.cb[j] = t.cb[j]
  BY FdsAreNumbers DEF Cleared, ClearEntry
<1>3. \A j \in Index : j # i => t.cb[j].fd # f
  BY FdsAssumption DEF Sound, Consistent
<1>. HIDE DEF u
<1>4. ASSUME NEW g \in Fds
      PROVE  CallbackOf(u, g) = IF g = f THEN Dummy ELSE CallbackOf(t, g)
  <2>0. g # -1
    BY FdsAssumption
  <2>1. CASE g = f
    <3>1. Entries(u, g) = {}
      BY <1>2, <1>3, <2>0, <2>1 DEF Entries, Unused
    <3>. QED  BY <1>1, <2>1, <3>1, CallbackOfEntry
  <2>2. CASE g # f /\ Entries(t, g) = {}
    <3>1. Entries(u, g) = {}
      BY <1>2, <2>0, <2>2 DEF Entries, Unused
    <3>. QED  BY <1>1, <2>2, <3>1, CallbackOfEntry
  <2>3. ASSUME g # f, NEW j \in Entries(t, g)
        PROVE  CallbackOf(u, g) = CallbackOf(t, g)
    <3>1. j \in Index /\ t.cb[j].fd = g
      BY DEF Entries
    <3>2. u.cb[j] = t.cb[j]
      BY <1>2, <2>3, <3>1
    <3>. QED  BY <1>1, <3>1, <3>2, CallbackOfEntry
  <2>. QED  BY <2>1, <2>2, <2>3
<1>. QED  BY <1>4 DEF u

-----------------------------------------------------------------------------
(* Each call is a step of Registry. *)

Map(t) == [f \in Fds |-> CallbackOf(t, f)]

LEMMA RegistryNext == [f \in Fds |-> CallbackOf(table, f)]' = Map(table')
BY DEF Map, CallbackOf, Entries, First

LEMMA RegInUse == Reg!InUse = Held(table)
BY DEF Reg!InUse, Held

LEMMA RegCardinality == \A S : Reg!Cardinality(S) = Cardinality(S)
BY DEF Reg!Cardinality, Cardinality

LEMMA EnterImplementsRegistry ==
  ASSUME SoundTable, NEW f \in Fds, NEW callback \in Callbacks,
         table' = Enter(table, f, callback), call' = <<"register", f, callback>>
  PROVE  Reg!Set(f, callback) \/ Reg!NoRoom(f, callback)
<1>. Sound(Fds, Callbacks, table)
  BY DEF SoundTable
<1>1. CASE Entries(table, f) = {} /\ Entries(table, -1) = {} /\ table' = table
  <2>1. f \notin Reg!InUse /\ ~ (Cardinality(Reg!InUse) < FD_SETSIZE)
    BY <1>1, RegInUse, HeldHasEntry, RoomIsFreeEntry
  <2>2. Cardinality(Reg!InUse) >= FD_SETSIZE
    BY <2>1, RegInUse, RoomIsFreeEntry, FdSetSizeAssumption
  <2>3. Map(table') = Map(table)
    BY <1>1
  <2>. QED  BY <2>1, <2>2, <2>3, RegistryNext, RegCardinality DEF Reg!NoRoom, Map
<1>2. ASSUME NEW i \in Index,
             table.cb[i].fd = f \/ (table.cb[i].fd = -1 /\ Entries(table, f) = {}),
             table' = Written(table, i, f, callback)
      PROVE  Reg!Set(f, callback)
  <2>1. Map(table') = [Map(table) EXCEPT ![f] = callback]
    <3>1. \A g \in Fds : CallbackOf(table', g) = IF g = f THEN callback ELSE CallbackOf(table, g)
      BY <1>2, WrittenIsSet
    <3>. QED  BY <3>1 DEF Map
  <2>2. f \in Reg!InUse \/ Cardinality(Reg!InUse) < FD_SETSIZE
    <3>1. CASE table.cb[i].fd = f
      BY <3>1, RegInUse, HeldHasEntry DEF Entries
    <3>2. CASE table.cb[i].fd = -1
      BY <3>2, RegInUse, RoomIsFreeEntry DEF Entries
    <3>. QED  BY <1>2, <3>1, <3>2
  <2>. QED  BY <2>1, <2>2, RegistryNext, RegCardinality DEF Reg!Set, Map
<1>. QED  BY <1>1, <1>2, EnterCases

LEMMA RemoveImplementsRegistry ==
  ASSUME SoundTable, NEW f \in Fds,
         table' = Remove(table, f), call' = <<"deregister", f>>
  PROVE  Reg!Unset(f)
<1>. Sound(Fds, Callbacks, table)
  BY DEF SoundTable
<1>1. CASE Entries(table, f) = {} /\ table' = table
  <2>1. Map(table') = [Map(table) EXCEPT ![f] = Dummy]
    BY <1>1, CallbackOfEntry DEF Map
  <2>. QED  BY <2>1, RegistryNext DEF Reg!Unset, Map
<1>2. ASSUME NEW i \in Index, table.cb[i].fd = f, table' = Cleared(table, i, f)
      PROVE  Reg!Unset(f)
  <2>1. Map(table') = [Map(table) EXCEPT ![f] = Dummy]
    <3>1. \A g \in Fds : CallbackOf(table', g) = IF g = f THEN Dummy ELSE CallbackOf(table, g)
      BY <1>2, ClearedIsUnset
    <3>. QED  BY <3>1 DEF Map
  <2>. QED  BY <2>1, RegistryNext DEF Reg!Unset, Map
<1>. QED  BY <1>1, <1>2, RemoveCases

LEMMA NextImplementsRegistry == SoundTable /\ [Next]_vars => [Reg!Next]_(Reg!vars)
<1> SUFFICES ASSUME SoundTable, [Next]_vars
             PROVE  [Reg!Next]_(Reg!vars)
  OBVIOUS
<1>1. ASSUME NEW fd \in Fds, NEW callback \in Callbacks, Register(fd, callback)
      PROVE  Reg!Next
  <2>1. table' = Enter(table, fd, callback) /\ call' = <<"register", fd, callback>>
    BY <1>1, FdsAssumption DEF Register, register_fd_callback
  <2>. QED  BY <2>1, EnterImplementsRegistry DEF Reg!Next
<1>2. ASSUME NEW fd \in Fds, Deregister(fd)
      PROVE  Reg!Next
  <2>1. table' = Remove(table, fd) /\ call' = <<"deregister", fd>>
    BY <1>2, FdsAssumption DEF Deregister, deregister_fd_callback
  <2>. QED  BY <2>1, RemoveImplementsRegistry DEF Reg!Next
<1>3. ASSUME NEW callback \in Callbacks, RegisterStdin(callback)
      PROVE  Reg!Next
  <2>1. table' = Enter(table, 0, callback) /\ call' = <<"register", 0, callback>>
    BY <1>3 DEF RegisterStdin, register_stdin_callback
  <2>. QED  BY <2>1, FdsAssumption, EnterImplementsRegistry DEF Reg!Next
<1>4. CASE DeregisterStdin
  <2>1. table' = Remove(table, 0) /\ call' = <<"deregister", 0>>
    BY <1>4, FdsAssumption, DeregisterStdinIsRemove DEF DeregisterStdin, SoundTable
  <2>. QED  BY <2>1, FdsAssumption, RemoveImplementsRegistry DEF Reg!Next
<1>5. CASE UNCHANGED vars
  BY <1>5 DEF vars, Reg!vars
<1>. QED  BY <1>1, <1>2, <1>3, <1>4, <1>5 DEF Next

(* Whatever the order of the calls, the array with its searches behaves as a map
   of limited size. *)
THEOREM TableIsRegistry == Spec => IsRegistry
<1>1. Init => Reg!Init
  <2>1. Entries(init_cblib, -1) = Index /\ \A f \in Fds : Entries(init_cblib, f) = {}
    BY FdsAssumption DEF Entries, init_cblib, Unused
  <2>. QED  BY <2>1 DEF Init, Reg!Init, CallbackOf
<1>. QED  BY <1>1, NextImplementsRegistry, AlwaysSound, PTL DEF Spec, IsRegistry, Reg!Spec
=============================================================================
