---------------------------- MODULE TimerProofs ----------------------------
(***************************************************************************)
(* Proofs about the timer list of cblib.c, for any number of timers and    *)
(* any timeouts: the list linked by hand is a queue of deadlines.          *)
(***************************************************************************)
EXTENDS TimerOrder, FiniteSetTheorems, SequenceTheorems, WellFoundedInduction, TLAPS

-----------------------------------------------------------------------------
(***************************************************************************)
(* Time: struct timeval as its value in microseconds.                      *)
(***************************************************************************)
TimeVals == [tv_sec : Nat, tv_usec : 0 .. USec - 1]

LEMMA USecIsPositive == USec \in Nat \ {0}
<1>1. PICK s \in Nat, m \in Nat : s = Second /\ m = Milli /\ s > 0 /\ m > 0
  BY UnitsAssumption
<1>2. s * m \in Nat /\ s * m > 0
  BY <1>1
<1>. QED  BY <1>1, <1>2 DEF USec

LEMMA Products ==
  ASSUME NEW a \in Nat, NEW b \in Nat, NEW u \in Nat, a < b
  PROVE  a * u + u <= b * u
<1>1. PICK k \in Nat : b = a + 1 + k
  <2>1. b - a - 1 \in Nat
    OBVIOUS
  <2>. QED  BY <2>1
<1>2. k * u \in Nat
  OBVIOUS
<1>3. b * u = a * u + u + k * u
  BY <1>1
<1>. QED  BY <1>2, <1>3

(* A struct timeval and its value determine each other. *)
LEMMA TimeValOf ==
  ASSUME NEW t \in Nat
  PROVE  TimeVal(t) \in TimeVals /\ Value(TimeVal(t)) = t
<1>1. PICK u \in Nat \ {0} : u = USec
  BY USecIsPositive
<1>2. t = u * (t \div u) + (t % u) /\ t % u \in 0 .. u - 1 /\ t \div u \in Nat
  OBVIOUS
<1>3. (t \div u) * u = u * (t \div u)
  BY <1>2
<1>. QED  BY <1>1, <1>2, <1>3 DEF TimeVal, Value, TimeVals

LEMMA ValueIsNat ==
  ASSUME NEW tv \in TimeVals
  PROVE  Value(tv) \in Nat
<1>1. PICK s \in Nat, m \in Nat, u \in Nat : s = tv.tv_sec /\ m = tv.tv_usec /\ u = USec
  BY USecIsPositive DEF TimeVals
<1>2. s * u \in Nat
  OBVIOUS
<1>. QED  BY <1>1, <1>2 DEF Value

LEMMA BeforeIsLess ==
  ASSUME NEW tv1 \in TimeVals, NEW tv2 \in TimeVals
  PROVE  timeval_before(tv1, tv2) <=> Value(tv1) < Value(tv2)
<1>1. PICK u \in Nat \ {0} : u = USec
  BY USecIsPositive
<1>2. PICK s1 \in Nat, m1 \in 0 .. u - 1 : s1 = tv1.tv_sec /\ m1 = tv1.tv_usec
  BY <1>1 DEF TimeVals
<1>3. PICK s2 \in Nat, m2 \in 0 .. u - 1 : s2 = tv2.tv_sec /\ m2 = tv2.tv_usec
  BY <1>1 DEF TimeVals
<1>4. PICK p1 \in Nat, p2 \in Nat : p1 = s1 * u /\ p2 = s2 * u
  OBVIOUS
<1>5. s1 < s2 => p1 + u <= p2
  BY <1>4, Products
<1>6. s2 < s1 => p2 + u <= p1
  BY <1>4, Products
<1>7. s1 = s2 => p1 = p2
  BY <1>4
<1>8. (s1 < s2 \/ (s1 = s2 /\ m1 < m2)) <=> p1 + m1 < p2 + m2
  BY <1>5, <1>6, <1>7
<1>. QED  BY <1>1, <1>2, <1>3, <1>4, <1>8 DEF timeval_before, Value

LEMMA StopTimeOf ==
  ASSUME now \in Nat, NEW ms \in Nat
  PROVE  StopTime(ms) \in TimeVals /\ Value(StopTime(ms)) = now + Milli * ms
<1>1. PICK u \in Nat \ {0} : u = USec
  BY USecIsPositive
<1>2. PICK s \in Nat \ {0}, m \in Nat \ {0} : s = Second /\ m = Milli /\ u = s * m
  BY <1>1, UnitsAssumption DEF USec
<1>3. PICK a \in Nat, b \in 0 .. u - 1 : a = now \div u /\ b = now % u /\ now = u * a + b
  BY <1>1
<1>4. PICK c \in Nat, d \in 0 .. s - 1 : c = ms \div s /\ d = ms % s /\ ms = s * c + d
  BY <1>2
<1>5. PICK e \in Nat : e = m * d /\ e < u
  <2>1. m * d \in Nat /\ d * m + m <= s * m
    BY <1>2, <1>4, Products
  <2>2. m * d = d * m
    BY <1>2, <1>4
  <2>3. m * d < s * m
    BY <1>2, <2>1, <2>2
  <2>. QED  BY <1>2, <2>1, <2>3
<1>6. PICK z \in Nat : z = c * u
  BY <1>4
<1>7. m * ms = z + e
  <2>1. m * (s * c + d) = c * (s * m) + m * d
    BY <1>2, <1>4
  <2>. QED  BY <1>2, <1>4, <1>5, <1>6, <2>1
<1>8. PICK y \in Nat : y = a * u /\ now = y + b
  <2>1. a * u = u * a /\ a * u \in Nat
    BY <1>3
  <2>. QED  BY <1>3, <2>1
<1>9. PICK tv : tv = [tv_sec |-> a + c, tv_usec |-> b + e]
  OBVIOUS
<1>10. StopTime(ms) = Carry(tv)
  BY <1>1, <1>2, <1>3, <1>4, <1>5, <1>9 DEF StopTime, TimeVal
<1>11. (a + c) * u = y + z
  BY <1>3, <1>4, <1>6, <1>8
<1>12. (a + c + 1) * u = y + z + u
  BY <1>3, <1>4, <1>6, <1>8
<1>13. CASE b + e >= u
  <2>1. Carry(tv) = [tv_sec |-> a + c + 1, tv_usec |-> b + e - u]
    BY <1>1, <1>9, <1>13 DEF Carry
  <2>2. b + e - u \in 0 .. u - 1 /\ a + c + 1 \in Nat
    BY <1>3, <1>4, <1>5, <1>13
  <2>3. Value(Carry(tv)) = (a + c + 1) * u + (b + e - u)
    BY <1>1, <2>1 DEF Value
  <2>4. Value(Carry(tv)) = now + m * ms
    BY <1>3, <1>5, <1>7, <1>8, <1>12, <2>3
  <2>. QED  BY <1>1, <1>2, <1>10, <2>1, <2>2, <2>4 DEF TimeVals
<1>14. CASE ~(b + e >= u)
  <2>1. Carry(tv) = [tv_sec |-> a + c, tv_usec |-> b + e]
    BY <1>1, <1>9, <1>14 DEF Carry
  <2>2. b + e \in 0 .. u - 1 /\ a + c \in Nat
    BY <1>3, <1>4, <1>5, <1>14
  <2>3. Value(Carry(tv)) = (a + c) * u + (b + e)
    BY <1>1, <2>1 DEF Value
  <2>4. PICK w \in Nat : w = (a + c) * u /\ w = y + z
    BY <1>6, <1>8, <1>11
  <2>5. Value(Carry(tv)) = w + (b + e)
    BY <2>3, <2>4
  <2>6. Value(Carry(tv)) = now + m * ms
    BY <1>3, <1>5, <1>6, <1>7, <1>8, <2>4, <2>5
  <2>. QED  BY <1>1, <1>2, <1>10, <2>1, <2>2, <2>6 DEF TimeVals
<1>. QED  BY <1>13, <1>14

(* The time left until a stop time that has not passed is a legal one. *)
LEMMA RemainingIsLegal ==
  ASSUME now \in Nat, NEW stop \in TimeVals, now <= Value(stop)
  PROVE  Remaining(stop).tv_sec >= 0 /\ Remaining(stop).tv_usec \in 0 .. USec - 1
<1>1. PICK u \in Nat \ {0} : u = USec
  BY USecIsPositive
<1>2. PICK tv \in TimeVals : tv = TimeVal(now) /\ Value(tv) = now
  BY TimeValOf
<1>3. PICK s1 \in Nat, m1 \in 0 .. u - 1 : s1 = tv.tv_sec /\ m1 = tv.tv_usec
  BY <1>1 DEF TimeVals
<1>4. PICK s2 \in Nat, m2 \in 0 .. u - 1 : s2 = stop.tv_sec /\ m2 = stop.tv_usec
  BY <1>1 DEF TimeVals
<1>5. ~timeval_before(stop, tv)
  <2>1. Value(stop) \in Nat /\ Value(tv) \in Nat
    BY ValueIsNat
  <2>. QED  BY <1>2, <2>1, BeforeIsLess
<1>6. s1 <= s2 /\ (s1 = s2 => m1 <= m2)
  BY <1>3, <1>4, <1>5 DEF timeval_before
<1>7. CASE m2 - m1 < 0
  <2>1. Remaining(stop) = [tv_sec |-> (s2 - s1) - 1, tv_usec |-> (m2 - m1) + u]
    BY <1>1, <1>2, <1>3, <1>4, <1>7 DEF Remaining
  <2>2. (s2 - s1) - 1 >= 0 /\ (m2 - m1) + u \in 0 .. u - 1
    BY <1>6, <1>7
  <2>. QED  BY <1>1, <2>1, <2>2
<1>8. CASE ~(m2 - m1 < 0)
  <2>1. Remaining(stop) = [tv_sec |-> s2 - s1, tv_usec |-> m2 - m1]
    BY <1>1, <1>2, <1>3, <1>4, <1>8 DEF Remaining
  <2>2. s2 - s1 >= 0 /\ m2 - m1 \in 0 .. u - 1
    BY <1>6, <1>8
  <2>. QED  BY <1>1, <2>1, <2>2
<1>. QED  BY <1>7, <1>8

-----------------------------------------------------------------------------
(***************************************************************************)
(* Sequences with an element put in behind place k, or without that at k.  *)
(***************************************************************************)
Inserted(q, k, t) == [i \in 1 .. Len(q) + 1 |-> IF i <= k THEN q[i]
                                                ELSE IF i = k + 1 THEN t ELSE q[i - 1]]

Removed(q, k) == [i \in 1 .. Len(q) - 1 |-> IF i < k THEN q[i] ELSE q[i + 1]]

LEMMA InsertedIs ==
  ASSUME NEW S, NEW q \in Seq(S), NEW t \in S, NEW n \in Nat, n = Len(q), NEW k \in 0 .. n
  PROVE  Inserted(q, k, t) \in Seq(S) /\ Len(Inserted(q, k, t)) = n + 1
<1>1. PICK z : z = Inserted(q, k, t)
  OBVIOUS
<1>2. \A i \in 1 .. n : q[i] \in S
  OBVIOUS
<1>3. \A i \in 1 .. n + 1 : z[i] = IF i <= k THEN q[i] ELSE IF i = k + 1 THEN t ELSE q[i - 1]
  BY <1>1 DEF Inserted
<1>4. ASSUME NEW i \in 1 .. n + 1
      PROVE  z[i] \in S
  <2>1. CASE i <= k
    <3>1. i \in 1 .. n
      BY <2>1
    <3>. QED  BY <1>2, <1>3, <2>1, <3>1
  <2>2. CASE i = k + 1
    BY <1>3, <2>2
  <2>3. CASE i > k + 1
    <3>1. i - 1 \in 1 .. n /\ ~(i <= k) /\ i # k + 1
      BY <2>3
    <3>. QED  BY <1>2, <1>3, <3>1
  <2>. QED  BY <2>1, <2>2, <2>3
<1>5. z \in [1 .. n + 1 -> S] /\ n + 1 \in Nat
  BY <1>1, <1>4 DEF Inserted
<1>6. z \in Seq(S)
  BY <1>5, SeqDef
<1>7. DOMAIN z = 1 .. n + 1 /\ DOMAIN z = 1 .. Len(z) /\ Len(z) \in Nat
  BY <1>5, <1>6, LenProperties
<1>. QED  BY <1>1, <1>5, <1>6, <1>7

LEMMA RemovedIs ==
  ASSUME NEW S, NEW q \in Seq(S), NEW n \in Nat, n = Len(q), NEW k \in 1 .. n
  PROVE  Removed(q, k) \in Seq(S) /\ Len(Removed(q, k)) = n - 1
<1>1. PICK z : z = Removed(q, k)
  OBVIOUS
<1>2. \A i \in 1 .. n : q[i] \in S
  OBVIOUS
<1>3. \A i \in 1 .. n - 1 : z[i] = IF i < k THEN q[i] ELSE q[i + 1]
  BY <1>1 DEF Removed
<1>4. ASSUME NEW i \in 1 .. n - 1
      PROVE  z[i] \in S
  <2>1. i \in 1 .. n /\ i + 1 \in 1 .. n
    OBVIOUS
  <2>. QED  BY <1>2, <1>3, <2>1
<1>5. z \in [1 .. n - 1 -> S] /\ n - 1 \in Nat
  BY <1>1, <1>4 DEF Removed
<1>6. z \in Seq(S)
  BY <1>5, SeqDef
<1>7. DOMAIN z = 1 .. n - 1 /\ DOMAIN z = 1 .. Len(z) /\ Len(z) \in Nat
  BY <1>5, <1>6, LenProperties
<1>. QED  BY <1>1, <1>5, <1>6, <1>7

(* A piece of a sequence. *)
LEMMA PieceIs ==
  ASSUME NEW S, NEW q \in Seq(S), NEW n \in Nat, n = Len(q), NEW a \in 1 .. n + 1, NEW b \in 0 .. n,
         a <= b + 1
  PROVE  /\ SubSeq(q, a, b) \in Seq(S) /\ Len(SubSeq(q, a, b)) = b - a + 1
         /\ \A i \in 1 .. b - a + 1 : SubSeq(q, a, b)[i] = q[a + i - 1]
<1>1. a \in Int /\ b \in Int /\ \A i \in a .. b : q[i] \in S
  OBVIOUS
<1>2. PICK c \in Int, d \in Int : c = a /\ d = b
  BY <1>1
<1>3. \A i \in c .. d : q[i] \in S
  BY <1>1, <1>2
<1>4. SubSeq(q, c, d) \in Seq(S)
  BY <1>3, SubSeqProperties
<1>5. Len(SubSeq(q, c, d)) = IF c <= d THEN d - c + 1 ELSE 0
  BY <1>3, SubSeqProperties
<1>6. \A i \in 1 .. d - c + 1 : SubSeq(q, c, d)[i] = q[c + i - 1]
  BY <1>3, SubSeqProperties
<1>7. Len(SubSeq(q, c, d)) = d - c + 1
  BY <1>2, <1>5
<1>. QED  BY <1>2, <1>4, <1>6, <1>7

LEMMA JoinedAre ==
  ASSUME NEW S, NEW b \in Seq(S), NEW w \in Seq(S), NEW x, x = b \o w,
         NEW p \in Nat, NEW q \in Nat, p = Len(b), q = Len(w)
  PROVE  /\ x \in Seq(S) /\ Len(x) = p + q
         /\ \A i \in 1 .. p : x[i] = b[i]
         /\ \A i \in 1 .. q : x[p + i] = w[i]
<1>1. /\ b \o w \in Seq(S) /\ Len(b \o w) = Len(b) + Len(w)
      /\ \A i \in 1 .. Len(b) + Len(w) :
           (b \o w)[i] = IF i <= Len(b) THEN b[i] ELSE w[i - Len(b)]
  BY ConcatProperties
<1>2. \A i \in 1 .. p + q : x[i] = IF i <= p THEN b[i] ELSE w[i - p]
  BY <1>1
<1>3. ASSUME NEW i \in 1 .. p
      PROVE  x[i] = b[i]
  BY <1>2
<1>4. ASSUME NEW i \in 1 .. q
      PROVE  x[p + i] = w[i]
  <2>1. p + i \in 1 .. p + q /\ ~(p + i <= p) /\ (p + i) - p = i
    OBVIOUS
  <2>. QED  BY <1>2, <2>1
<1>. QED  BY <1>1, <1>3, <1>4

(* They are what the abstract specification calls RemoveAt and InsertAt. *)
LEMMA RemoveAtIs ==
  ASSUME NEW S, NEW q \in Seq(S), NEW n \in Nat, n = Len(q), NEW k \in 1 .. n
  PROVE  Queue!RemoveAt(q, k) = Removed(q, k)
<1>1. PICK b, w : b = SubSeq(q, 1, k - 1) /\ w = SubSeq(q, k + 1, n)
  OBVIOUS
<1>2. PICK p \in Nat : p = k - 1
  OBVIOUS
<1>3. PICK r \in Nat : r = n - k
  <2>1. n - k \in Nat
    OBVIOUS
  <2>. QED  BY <2>1
<1>4. b \in Seq(S) /\ p = Len(b) /\ \A i \in 1 .. p : b[i] = q[i]
  <2>1. 1 \in 1 .. n + 1 /\ p \in 0 .. n /\ 1 <= p + 1 /\ p - 1 + 1 = p
    BY <1>2
  <2>2. /\ SubSeq(q, 1, p) \in Seq(S) /\ Len(SubSeq(q, 1, p)) = p - 1 + 1
        /\ \A i \in 1 .. p - 1 + 1 : SubSeq(q, 1, p)[i] = q[1 + i - 1]
    BY <2>1, PieceIs
  <2>3. \A i \in 1 .. p : 1 + i - 1 = i
    OBVIOUS
  <2>. QED  BY <1>1, <1>2, <2>1, <2>2, <2>3
<1>5. w \in Seq(S) /\ r = Len(w) /\ \A i \in 1 .. r : w[i] = q[k + i]
  <2>1. PICK a \in 1 .. n + 1 : a = k + 1
    OBVIOUS
  <2>2. n \in 0 .. n /\ a <= n + 1 /\ n - a + 1 = r
    BY <1>3, <2>1
  <2>3. /\ SubSeq(q, a, n) \in Seq(S) /\ Len(SubSeq(q, a, n)) = n - a + 1
        /\ \A i \in 1 .. n - a + 1 : SubSeq(q, a, n)[i] = q[a + i - 1]
    BY <2>2, PieceIs
  <2>4. \A i \in 1 .. r : a + i - 1 = k + i
    BY <2>1
  <2>. QED  BY <1>1, <2>1, <2>2, <2>3, <2>4
<1>6. PICK x : x = b \o w
  OBVIOUS
<1>7. /\ x \in Seq(S) /\ Len(x) = p + r
      /\ \A i \in 1 .. p : x[i] = b[i]
      /\ \A i \in 1 .. r : x[p + i] = w[i]
  BY <1>4, <1>5, <1>6, JoinedAre
<1>8. PICK z : z = Removed(q, k)
  OBVIOUS
<1>9. /\ z \in Seq(S) /\ Len(z) = n - 1
      /\ \A i \in 1 .. k - 1 : z[i] = q[i]
      /\ \A i \in k .. n - 1 : z[i] = q[i + 1]
  <2>1. z \in Seq(S) /\ Len(z) = n - 1
    BY <1>8, RemovedIs
  <2>2. \A i \in 1 .. n - 1 : z[i] = IF i < k THEN q[i] ELSE q[i + 1]
    BY <1>8 DEF Removed
  <2>3. \A i \in 1 .. k - 1 : i \in 1 .. n - 1 /\ i < k
    OBVIOUS
  <2>4. \A i \in k .. n - 1 : i \in 1 .. n - 1 /\ ~(i < k)
    OBVIOUS
  <2>. QED  BY <2>1, <2>2, <2>3, <2>4
<1>10. ASSUME NEW i \in 1 .. n - 1
       PROVE  x[i] = z[i]
  <2>1. CASE i <= p
    <3>1. i \in 1 .. p /\ i \in 1 .. k - 1
      BY <1>2, <2>1
    <3>. QED  BY <1>4, <1>7, <1>9, <3>1
  <2>2. CASE i > p
    <3>1. PICK j \in 1 .. r : i = p + j
      <4>1. i - p \in 1 .. r /\ i = p + (i - p)
        BY <1>2, <1>3, <2>2
      <4>. QED  BY <4>1
    <3>2. i \in k .. n - 1 /\ i + 1 = k + j
      BY <1>2, <1>3, <3>1
    <3>3. x[p + j] = q[k + j]
      BY <1>5, <1>7
    <3>. QED  BY <1>9, <3>1, <3>2, <3>3
  <2>. QED  BY <1>2, <2>1, <2>2
<1>11. Len(x) = n - 1
  BY <1>2, <1>3, <1>7
<1>12. x = z
  BY <1>7, <1>9, <1>10, <1>11, SeqEqual
<1>. QED  BY <1>1, <1>6, <1>8, <1>12 DEF Queue!RemoveAt

LEMMA InsertAtIs ==
  ASSUME NEW S, NEW q \in Seq(S), NEW t \in S, NEW n \in Nat, n = Len(q), NEW k \in 0 .. n
  PROVE  Queue!InsertAt(q, k + 1, t) = Inserted(q, k, t)
<1>1. PICK b, w : b = SubSeq(q, 1, k) /\ w = SubSeq(q, k + 1, n)
  OBVIOUS
<1>2. PICK c : c = <<t>>
  OBVIOUS
<1>3. PICK r \in Nat : r = n - k
  OBVIOUS
<1>4. b \in Seq(S) /\ k = Len(b) /\ \A i \in 1 .. k : b[i] = q[i]
  <2>1. 1 \in 1 .. n + 1 /\ 1 <= k + 1 /\ k - 1 + 1 = k
    OBVIOUS
  <2>2. /\ SubSeq(q, 1, k) \in Seq(S) /\ Len(SubSeq(q, 1, k)) = k - 1 + 1
        /\ \A i \in 1 .. k - 1 + 1 : SubSeq(q, 1, k)[i] = q[1 + i - 1]
    BY <2>1, PieceIs
  <2>3. \A i \in 1 .. k : 1 + i - 1 = i
    OBVIOUS
  <2>. QED  BY <1>1, <2>1, <2>2, <2>3
<1>5. w \in Seq(S) /\ r = Len(w) /\ \A i \in 1 .. r : w[i] = q[k + i]
  <2>1. PICK a \in 1 .. n + 1 : a = k + 1
    OBVIOUS
  <2>2. n \in 0 .. n /\ a <= n + 1 /\ n - a + 1 = r
    BY <1>3, <2>1
  <2>3. /\ SubSeq(q, a, n) \in Seq(S) /\ Len(SubSeq(q, a, n)) = n - a + 1
        /\ \A i \in 1 .. n - a + 1 : SubSeq(q, a, n)[i] = q[a + i - 1]
    BY <2>2, PieceIs
  <2>4. \A i \in 1 .. r : a + i - 1 = k + i
    BY <2>1
  <2>. QED  BY <1>1, <2>1, <2>2, <2>3, <2>4
<1>6. c \in Seq(S) /\ 1 = Len(c) /\ c[1] = t
  BY <1>2
<1>7. PICK y : y = b \o c
  OBVIOUS
<1>8. /\ y \in Seq(S) /\ Len(y) = k + 1
      /\ \A i \in 1 .. k : y[i] = b[i]
      /\ \A i \in 1 .. 1 : y[k + i] = c[i]
  <2>1. PICK one \in Nat : one = 1
    OBVIOUS
  <2>2. k \in Nat /\ one = Len(c)
    BY <1>6, <2>1
  <2>3. /\ y \in Seq(S) /\ Len(y) = k + one
        /\ \A i \in 1 .. k : y[i] = b[i]
        /\ \A i \in 1 .. one : y[k + i] = c[i]
    BY <1>4, <1>6, <1>7, <2>2, JoinedAre
  <2>. QED  BY <2>1, <2>3
<1>9. PICK x : x = y \o w
  OBVIOUS
<1>10. /\ x \in Seq(S) /\ Len(x) = (k + 1) + r
       /\ \A i \in 1 .. k + 1 : x[i] = y[i]
       /\ \A i \in 1 .. r : x[(k + 1) + i] = w[i]
  <2>1. PICK m \in Nat : m = k + 1
    OBVIOUS
  <2>2. y \in Seq(S) /\ m = Len(y)
    BY <1>8, <2>1
  <2>3. /\ x \in Seq(S) /\ Len(x) = m + r
        /\ \A i \in 1 .. m : x[i] = y[i]
        /\ \A i \in 1 .. r : x[m + i] = w[i]
    BY <1>5, <1>9, <2>2, JoinedAre
  <2>. QED  BY <2>1, <2>3
<1>11. PICK z : z = Inserted(q, k, t)
  OBVIOUS
<1>12. /\ z \in Seq(S) /\ Len(z) = n + 1
       /\ \A i \in 1 .. k : z[i] = q[i]
       /\ z[k + 1] = t
       /\ \A i \in k + 1 .. n : z[i + 1] = q[i]
  <2>1. z \in Seq(S) /\ Len(z) = n + 1
    BY <1>11, InsertedIs
  <2>2. \A i \in 1 .. n + 1 : z[i] = IF i <= k THEN q[i] ELSE IF i = k + 1 THEN t ELSE q[i - 1]
    BY <1>11 DEF Inserted
  <2>3. \A i \in k + 1 .. n : /\ i + 1 \in 1 .. n + 1 /\ ~(i + 1 <= k)
                              /\ i + 1 # k + 1 /\ (i + 1) - 1 = i
    OBVIOUS
  <2>. QED  BY <2>1, <2>2, <2>3
<1>13. ASSUME NEW i \in 1 .. n + 1
       PROVE  x[i] = z[i]
  <2>1. CASE i <= k
    <3>1. i \in 1 .. k /\ i \in 1 .. k + 1
      BY <2>1
    <3>. QED  BY <1>4, <1>8, <1>10, <1>12, <3>1
  <2>2. CASE i = k + 1
    <3>1. k + 1 \in 1 .. k + 1 /\ 1 \in 1 .. 1
      OBVIOUS
    <3>. QED  BY <1>6, <1>8, <1>10, <1>12, <2>2, <3>1
  <2>3. CASE i > k + 1
    <3>1. PICK j \in 1 .. r : i = (k + 1) + j
      <4>1. i - (k + 1) \in 1 .. r /\ i = (k + 1) + (i - (k + 1))
        BY <1>3, <2>3
      <4>. QED  BY <4>1
    <3>2. k + j \in k + 1 .. n /\ (k + j) + 1 = i
      BY <1>3, <3>1
    <3>3. x[(k + 1) + j] = q[k + j]
      BY <1>5, <1>10
    <3>. QED  BY <1>12, <3>1, <3>2, <3>3
  <2>. QED  BY <2>1, <2>2, <2>3
<1>14. Len(x) = n + 1
  BY <1>3, <1>10
<1>15. x = z
  BY <1>10, <1>12, <1>13, <1>14, SeqEqual
<1>16. (k + 1) - 1 = k
  OBVIOUS
<1>. QED  BY <1>1, <1>2, <1>7, <1>9, <1>11, <1>15, <1>16 DEF Queue!InsertAt

-----------------------------------------------------------------------------
(***************************************************************************)
(* The list: the timers of q, linked in their order.                       *)
(***************************************************************************)
Nodes == [next : Timers \cup {NULL}, prev : Timers \cup {NULL},
          start_time : TimeVals, stop_time : TimeVals]

StopOf(t) == Value(timer[t].stop_time)

Once(q) == q \in Seq(Timers) /\ \A i, j \in 1 .. Len(q) : q[i] = q[j] => i = j

Linked(q) ==
  /\ timer_list = IF Len(q) = 0 THEN NULL ELSE q[1]
  /\ \A i \in 1 .. Len(q) :
       /\ timer[q[i]].next = IF i = Len(q) THEN NULL ELSE q[i + 1]
       /\ timer[q[i]].prev = IF i = 1 THEN NULL ELSE q[i - 1]

Started(q) == \A t \in Timers : IsStarted(t) <=> \E i \in 1 .. Len(q) : q[i] = t

Sorted(q) == \A i, j \in 1 .. Len(q) : i <= j => StopOf(q[i]) <= StopOf(q[j])

Holds(q) == Once(q) /\ Linked(q) /\ Started(q) /\ Sorted(q)

(* A node that is taken out of the middle of the list leaves its neighbours
   started: the time of their start is not that of an idle timer. *)
Stamped == \A t \in Timers : IsStarted(t) => timer[t].start_time # Zero

Typed == now \in Nat \ {0} /\ timer \in [Timers -> Nodes] /\ Stamped

(* What Link makes of the fields. *)
LEMMA LinkFields ==
  ASSUME Typed, NEW t \in Timers, NEW p \in Timers \cup {NULL}, NEW n \in Timers \cup {NULL},
         NEW stop \in TimeVals, timer' = Link(t, p, n, stop)
  PROVE  /\ timer' \in [Timers -> Nodes]
         /\ timer'[t].next = n /\ timer'[t].prev = p /\ timer'[t].stop_time = stop
         /\ timer'[t] # Idle /\ timer'[t].start_time # Zero
         /\ \A u \in Timers \ {t} :
              /\ timer'[u].next = IF u = p THEN t ELSE timer[u].next
              /\ timer'[u].prev = IF u = n THEN t ELSE timer[u].prev
              /\ timer'[u].stop_time = timer[u].stop_time
              /\ timer'[u].start_time = timer[u].start_time
              /\ timer'[u] # Idle <=> timer[u] # Idle \/ u = p \/ u = n
<1>1. PICK tv \in TimeVals : tv = TimeVal(now) /\ Value(tv) = now
  BY TimeValOf DEF Typed
<1>2. tv # Zero
  BY <1>1, TimeValOf DEF Zero, Typed
<1>3. timer'[t] = [next |-> n, prev |-> p, start_time |-> tv, stop_time |-> stop]
  BY <1>1 DEF Link
<1>4. ASSUME NEW u \in Timers \ {t}
      PROVE  timer'[u] = [timer[u] EXCEPT !.next = IF u = p THEN t ELSE @,
                                          !.prev = IF u = n THEN t ELSE @]
  BY DEF Link
<1>5. ASSUME NEW u \in Timers
      PROVE  timer[u] \in Nodes
  BY DEF Typed
<1>6. ASSUME NEW u \in Timers \ {t}
      PROVE  /\ timer'[u] \in Nodes
             /\ timer'[u].next = IF u = p THEN t ELSE timer[u].next
             /\ timer'[u].prev = IF u = n THEN t ELSE timer[u].prev
             /\ timer'[u].stop_time = timer[u].stop_time
             /\ timer'[u].start_time = timer[u].start_time
  <2>1. PICK x \in Nodes : x = timer[u]
    BY <1>5
  <2>2. PICK a \in Timers \cup {NULL} : a = IF u = p THEN t ELSE x.next
    BY <2>1 DEF Nodes
  <2>3. PICK b \in Timers \cup {NULL} : b = IF u = n THEN t ELSE x.prev
    BY <2>1 DEF Nodes
  <2>4. timer'[u] = [x EXCEPT !.next = a, !.prev = b]
    BY <1>4, <2>1, <2>2, <2>3 DEF Nodes
  <2>. QED  BY <2>1, <2>2, <2>3, <2>4 DEF Nodes
<1>7. timer'[t] \in Nodes /\ timer'[t] # Idle /\ timer'[t].start_time # Zero
  BY <1>1, <1>2, <1>3 DEF Nodes, Idle
<1>8. timer' \in [Timers -> Nodes]
  <2>1. timer' = [u \in Timers |-> timer'[u]]
    BY DEF Link
  <2>. QED  BY <1>6, <1>7, <2>1
<1>9. ASSUME NEW u \in Timers \ {t}
      PROVE  timer'[u] # Idle <=> timer[u] # Idle \/ u = p \/ u = n
  <2>1. t # NULL
    BY TimersAssumption
  <2>2. CASE u = p \/ u = n
    <3>1. timer'[u].next = t \/ timer'[u].prev = t
      BY <1>6, <2>2
    <3>. QED  BY <2>1, <2>2, <3>1 DEF Idle
  <2>3. CASE ~(u = p \/ u = n)
    <3>1. timer'[u] = timer[u]
      BY <1>5, <1>6, <2>3 DEF Nodes
    <3>. QED  BY <2>3, <3>1
  <2>. QED  BY <2>2, <2>3
<1>. QED  BY <1>3, <1>6, <1>7, <1>8, <1>9

(* Linking a new timer behind place k. *)
LEMMA LinkHolds ==
  ASSUME Typed, NEW q, Holds(q), NEW t \in Timers, ~IsStarted(t),
         NEW m \in Nat, m = Len(q), NEW k \in 0 .. m, NEW stop \in TimeVals,
         NEW p, p = IF k = 0 THEN NULL ELSE q[k],
         NEW n, n = IF k = m THEN NULL ELSE q[k + 1],
         \A i \in 1 .. k : StopOf(q[i]) <= Value(stop),
         \A i \in k + 1 .. m : Value(stop) <= StopOf(q[i]),
         timer' = Link(t, p, n, stop), timer_list' = IF k = 0 THEN t ELSE timer_list,
         NEW z, z = Inserted(q, k, t)
  PROVE  Holds(z)' /\ timer' \in [Timers -> Nodes] /\ Stamped'
<1>1. /\ q \in Seq(Timers) /\ \A i, j \in 1 .. m : q[i] = q[j] => i = j
      /\ \A i \in 1 .. m : q[i] \in Timers /\ q[i] # t
  BY DEF Holds, Once, Started
<1>2. /\ z \in Seq(Timers) /\ Len(z) = m + 1
      /\ \A i \in 1 .. k : z[i] = q[i]
      /\ z[k + 1] = t
      /\ \A i \in k + 1 .. m : z[i + 1] = q[i]
  <2>1. z \in Seq(Timers) /\ Len(z) = m + 1
    BY <1>1, InsertedIs
  <2>2. \A i \in 1 .. m + 1 : z[i] = IF i <= k THEN q[i] ELSE IF i = k + 1 THEN t ELSE q[i - 1]
    BY DEF Inserted
  <2>3. \A i \in k + 1 .. m : /\ i + 1 \in 1 .. m + 1 /\ ~(i + 1 <= k)
                              /\ i + 1 # k + 1 /\ (i + 1) - 1 = i
    OBVIOUS
  <2>. QED  BY <2>1, <2>2, <2>3
<1>3. NULL \notin Timers /\ p \in Timers \cup {NULL} /\ n \in Timers \cup {NULL}
  BY <1>1, TimersAssumption
<1>4. /\ timer' \in [Timers -> Nodes]
      /\ timer'[t].next = n /\ timer'[t].prev = p /\ timer'[t].stop_time = stop
      /\ timer'[t] # Idle /\ timer'[t].start_time # Zero
      /\ \A u \in Timers \ {t} :
           /\ timer'[u].next = IF u = p THEN t ELSE timer[u].next
           /\ timer'[u].prev = IF u = n THEN t ELSE timer[u].prev
           /\ timer'[u].stop_time = timer[u].stop_time
           /\ timer'[u].start_time = timer[u].start_time
           /\ timer'[u] # Idle <=> timer[u] # Idle \/ u = p \/ u = n
  BY <1>3, LinkFields
<1>5. \A i \in 1 .. m : (q[i] = p <=> i = k) /\ (q[i] = n <=> i = k + 1)
  BY <1>1, <1>3
(* the old timers keep their links, except the two neighbours *)
<1>6. ASSUME NEW i \in 1 .. m
      PROVE  /\ timer'[q[i]].next = IF i = k THEN t ELSE IF i = m THEN NULL ELSE q[i + 1]
             /\ timer'[q[i]].prev = IF i = k + 1 THEN t ELSE IF i = 1 THEN NULL ELSE q[i - 1]
             /\ timer'[q[i]].stop_time = timer[q[i]].stop_time
  <2>1. PICK u \in Timers \ {t} : u = q[i]
    BY <1>1
  <2>2. /\ timer[u].next = IF i = m THEN NULL ELSE q[i + 1]
        /\ timer[u].prev = IF i = 1 THEN NULL ELSE q[i - 1]
    BY <2>1 DEF Holds, Linked
  <2>3. (u = p <=> i = k) /\ (u = n <=> i = k + 1)
    BY <1>5, <2>1
  <2>4. /\ timer'[u].next = IF u = p THEN t ELSE timer[u].next
        /\ timer'[u].prev = IF u = n THEN t ELSE timer[u].prev
        /\ timer'[u].stop_time = timer[u].stop_time
    BY <1>4
  <2>. QED  BY <2>1, <2>2, <2>3, <2>4
(* an element of z is an old timer or t *)
<1>7. ASSUME NEW i \in 1 .. m + 1
      PROVE  \/ i \in 1 .. k /\ i \in 1 .. m /\ z[i] = q[i]
             \/ i = k + 1 /\ z[i] = t
             \/ \E j \in k + 1 .. m : j \in 1 .. m /\ i = j + 1 /\ z[i] = q[j]
  <2>1. CASE i <= k
    <3>1. i \in 1 .. k /\ i \in 1 .. m
      BY <2>1
    <3>. QED  BY <1>2, <3>1
  <2>2. CASE i = k + 1
    BY <1>2, <2>2
  <2>3. CASE i > k + 1
    <3>1. i - 1 \in k + 1 .. m /\ i - 1 \in 1 .. m /\ i = (i - 1) + 1
      BY <2>3
    <3>2. z[(i - 1) + 1] = q[i - 1]
      BY <1>2, <3>1
    <3>. QED  BY <3>1, <3>2
  <2>. QED  BY <2>1, <2>2, <2>3
<1>8. Once(z)
  <2>. SUFFICES ASSUME NEW i \in 1 .. m + 1, NEW j \in 1 .. m + 1, z[i] = z[j]
                PROVE  i = j
    BY <1>2 DEF Once
  <2>. QED  BY <1>1, <1>7
<1>9. ASSUME NEW i \in 1 .. m + 1
      PROVE  /\ timer'[z[i]].next = IF i = m + 1 THEN NULL ELSE z[i + 1]
             /\ timer'[z[i]].prev = IF i = 1 THEN NULL ELSE z[i - 1]
  <2>1. CASE i \in 1 .. k /\ i \in 1 .. m /\ z[i] = q[i]
    <3>1. i # m + 1 /\ z[i + 1] = IF i = k THEN t ELSE q[i + 1]
      <4>1. CASE i = k
        BY <1>2, <2>1, <4>1
      <4>2. CASE i # k
        <5>1. i + 1 \in 1 .. k
          BY <2>1, <4>2
        <5>. QED  BY <1>2, <2>1, <4>2, <5>1
      <4>. QED  BY <4>1, <4>2
    <3>2. i # 1 => z[i - 1] = q[i - 1]
      <4>1. i # 1 => i - 1 \in 1 .. k
        BY <2>1
      <4>. QED  BY <1>2, <4>1
    <3>3. i # k => i # m
      BY <2>1
    <3>4. i # k + 1
      BY <2>1
    <3>. QED  BY <1>6, <2>1, <3>1, <3>2, <3>3, <3>4
  <2>2. CASE i = k + 1 /\ z[i] = t
    <3>1. i # m + 1 => z[i + 1] = q[k + 1]
      <4>1. i # m + 1 => k + 1 \in k + 1 .. m /\ i + 1 = (k + 1) + 1
        BY <2>2
      <4>. QED  BY <1>2, <4>1
    <3>2. i # 1 => z[i - 1] = q[k]
      <4>1. i # 1 => k \in 1 .. k /\ i - 1 = k
        BY <2>2
      <4>. QED  BY <1>2, <4>1
    <3>3. (i = m + 1 <=> k = m) /\ (i = 1 <=> k = 0)
      BY <2>2
    <3>. QED  BY <1>4, <2>2, <3>1, <3>2, <3>3
  <2>3. CASE \E j \in k + 1 .. m : j \in 1 .. m /\ i = j + 1 /\ z[i] = q[j]
    <3>1. PICK j \in k + 1 .. m : j \in 1 .. m /\ i = j + 1 /\ z[i] = q[j]
      BY <2>3
    <3>2. i # m + 1 => z[i + 1] = q[j + 1] /\ j # m
      <4>1. i # m + 1 => j + 1 \in k + 1 .. m /\ i + 1 = (j + 1) + 1 /\ j # m
        BY <3>1
      <4>. QED  BY <1>2, <4>1
    <3>3. i # 1 /\ z[i - 1] = IF j = k + 1 THEN t ELSE q[j - 1]
      <4>1. i # 1 /\ i - 1 = j
        BY <3>1
      <4>2. CASE j = k + 1
        BY <1>2, <4>1, <4>2
      <4>3. CASE j # k + 1
        <5>1. j - 1 \in k + 1 .. m /\ (j - 1) + 1 = j
          BY <3>1, <4>3
        <5>2. z[(j - 1) + 1] = q[j - 1]
          BY <1>2, <5>1
        <5>. QED  BY <4>1, <4>3, <5>1, <5>2
      <4>. QED  BY <4>1, <4>2, <4>3
    <3>4. j # k /\ (i = m + 1 <=> j = m) /\ (j # k + 1 => j # 1)
      BY <3>1
    <3>. QED  BY <1>6, <3>1, <3>2, <3>3, <3>4
  <2>. QED  BY <1>7, <2>1, <2>2, <2>3
<1>10. Linked(z)'
  <2>1. timer_list' = z[1]
    <3>1. CASE k = 0
      BY <1>2, <3>1
    <3>2. CASE k # 0
      <4>1. 1 \in 1 .. k /\ m # 0
        BY <3>2
      <4>2. timer_list = q[1]
        BY <4>1 DEF Holds, Linked
      <4>. QED  BY <1>2, <3>2, <4>1, <4>2
    <3>. QED  BY <3>1, <3>2
  <2>2. m + 1 # 0
    OBVIOUS
  <2>. QED  BY <1>2, <1>9, <2>1, <2>2 DEF Linked
<1>11. Started(z)'
  <2>. SUFFICES ASSUME NEW u \in Timers
                PROVE  timer'[u] # Idle <=> \E i \in 1 .. m + 1 : z[i] = u
    BY <1>2 DEF Started, IsStarted, Idle, Zero, TimeVal, USec
  <2>1. CASE u = t
    <3>1. k + 1 \in 1 .. m + 1
      OBVIOUS
    <3>. QED  BY <1>2, <1>4, <2>1, <3>1
  <2>2. CASE u # t
    <3>1. (\E i \in 1 .. m + 1 : z[i] = u) => \E i \in 1 .. m : q[i] = u
      BY <1>7, <2>2
    <3>2. ASSUME NEW i \in 1 .. m, q[i] = u
          PROVE  \E j \in 1 .. m + 1 : z[j] = u
      <4>1. CASE i <= k
        <5>1. i \in 1 .. k /\ i \in 1 .. m + 1
          BY <4>1
        <5>. QED  BY <1>2, <3>2, <5>1
      <4>2. CASE i > k
        <5>1. i \in k + 1 .. m /\ i + 1 \in 1 .. m + 1
          BY <4>2
        <5>. QED  BY <1>2, <3>2, <5>1
      <4>. QED  BY <4>1, <4>2
    <3>3. timer[u] # Idle <=> \E i \in 1 .. m : q[i] = u
      BY DEF Holds, Started, IsStarted
    <3>4. u = p \/ u = n => \E i \in 1 .. m : q[i] = u
      <4>1. ASSUME u = p
            PROVE  k \in 1 .. m /\ q[k] = u
        BY <1>3, <4>1
      <4>2. ASSUME u = n
            PROVE  k + 1 \in 1 .. m /\ q[k + 1] = u
        BY <1>3, <4>2
      <4>. QED  BY <4>1, <4>2
    <3>5. timer'[u] # Idle <=> timer[u] # Idle \/ u = p \/ u = n
      BY <1>4, <2>2
    <3>. QED  BY <3>1, <3>2, <3>3, <3>4, <3>5
  <2>. QED  BY <2>1, <2>2
<1>12. Sorted(z)'
  <2>1. \A i \in 1 .. m : StopOf(q[i])' = StopOf(q[i])
    BY <1>6 DEF StopOf, Value, USec
  <2>2. StopOf(t)' = Value(stop)
    BY <1>4 DEF StopOf, Value, USec
  <2>3. PICK f \in [1 .. m -> Nat] : \A i \in 1 .. m : f[i] = StopOf(q[i])
    <3>1. \A i \in 1 .. m : StopOf(q[i]) \in Nat
      BY <1>1, ValueIsNat DEF Typed, Nodes, StopOf
    <3>2. [i \in 1 .. m |-> StopOf(q[i])] \in [1 .. m -> Nat]
      BY <3>1
    <3>. QED  BY <3>2
  <2>4. PICK s \in Nat : s = Value(stop)
    BY ValueIsNat
  <2>5. /\ \A i, j \in 1 .. m : i <= j => f[i] <= f[j]
        /\ \A i \in 1 .. k : f[i] <= s
        /\ \A i \in k + 1 .. m : s <= f[i]
    BY <2>3, <2>4 DEF Holds, Sorted
  <2>6. ASSUME NEW i \in 1 .. m + 1
        PROVE  \/ i \in 1 .. k /\ i \in 1 .. m /\ StopOf(z[i])' = f[i]
               \/ i = k + 1 /\ StopOf(z[i])' = s
               \/ \E j \in k + 1 .. m : j \in 1 .. m /\ i = j + 1 /\ StopOf(z[i])' = f[j]
    BY <1>7, <2>1, <2>2, <2>3, <2>4 DEF StopOf
  <2>7. ASSUME NEW i \in 1 .. m + 1, NEW j \in 1 .. m + 1, i <= j
        PROVE  StopOf(z[i])' <= StopOf(z[j])'
    <3>1. CASE i \in 1 .. k /\ i \in 1 .. m /\ StopOf(z[i])' = f[i]
      BY <2>5, <2>6, <2>7, <3>1
    <3>2. CASE i = k + 1 /\ StopOf(z[i])' = s
      BY <2>5, <2>6, <2>7, <3>2
    <3>3. CASE \E l \in k + 1 .. m : l \in 1 .. m /\ i = l + 1 /\ StopOf(z[i])' = f[l]
      BY <2>5, <2>6, <2>7, <3>3
    <3>. QED  BY <2>6, <3>1, <3>2, <3>3
  <2>. QED  BY <1>2, <2>7 DEF Sorted
<1>13. Stamped'
  <2>. SUFFICES ASSUME NEW u \in Timers, timer'[u] # Idle
                PROVE  timer'[u].start_time # Zero
    BY DEF Stamped, IsStarted, Idle, Zero, TimeVal, USec
  <2>1. CASE u = t
    BY <1>4, <2>1
  <2>2. CASE u # t
    <3>1. \A i \in 1 .. m : timer[q[i]] # Idle
      BY <1>1 DEF Holds, Started, IsStarted
    <3>2. u = p => k \in 1 .. m /\ u = q[k]
      BY <1>3
    <3>3. u = n => k + 1 \in 1 .. m /\ u = q[k + 1]
      BY <1>3
    <3>4. timer[u] # Idle
      BY <1>4, <2>2, <3>1, <3>2, <3>3
    <3>. QED  BY <1>4, <2>2, <3>4 DEF Typed, Stamped, IsStarted
  <2>. QED  BY <2>1, <2>2
<1>. QED  BY <1>2, <1>4, <1>8, <1>10, <1>11, <1>12, <1>13 DEF Holds, Once

(***************************************************************************)
(* Walking through the list meets the timers of q, and then NULL.          *)
(***************************************************************************)
LEMMA LeastNatural ==
  ASSUME NEW S \in SUBSET Nat, S # {}
  PROVE  \E m \in S : \A n \in S : m <= n
<1>1. PICK m \in S : \A n \in S : ~ (<<n, m>> \in OpToRel(<, Nat))
  BY NatLessThanWellFounded, WFMin
<1>2. \A n \in S : ~ (n < m)
  BY <1>1 DEF OpToRel
<1>. QED  BY <1>2

LEMMA OnceIsShort ==
  ASSUME NEW q, Once(q), NEW m \in Nat, m = Len(q)
  PROVE  Cardinality(Timers) \in Nat /\ m <= Cardinality(Timers)
<1>1. IsFiniteSet(Timers) /\ Cardinality(Timers) \in Nat
  BY TimersAssumption, FS_CardinalityType
<1>2. IsFiniteSet(1 .. m) /\ Cardinality(1 .. m) = m
  <2>1. PICK a \in Int, b \in Int : a = 1 /\ b = m
    OBVIOUS
  <2>2. IsFiniteSet(a .. b) /\ Cardinality(a .. b) = IF a > b THEN 0 ELSE b - a + 1
    BY FS_Interval
  <2>. QED  BY <2>1, <2>2
<1>3. q \in Injection(1 .. m, Timers)
  BY DEF Once, Injection, IsInjective
<1>4. Cardinality(1 .. m) <= Cardinality(Timers)
  BY <1>1, <1>3, FS_Injection
<1>. QED  BY <1>1, <1>2, <1>4

LEMMA WalkIs ==
  ASSUME NEW q, Holds(q), NEW m \in Nat, m = Len(q), NEW N \in Nat, N = Cardinality(Timers)
  PROVE  /\ m <= N
         /\ DOMAIN Walk = 1 .. N + 1
         /\ \A i \in 1 .. N + 1 : Walk[i] = IF i <= m THEN q[i] ELSE NULL
<1>1. m <= N
  BY OnceIsShort DEF Holds
<1>2. /\ \A i \in 1 .. m : q[i] \in Timers
      /\ timer_list = IF m = 0 THEN NULL ELSE q[1]
      /\ \A i \in 1 .. m : timer[q[i]].next = IF i = m THEN NULL ELSE q[i + 1]
      /\ NULL \notin Timers
  BY TimersAssumption DEF Holds, Once, Linked
<1>3. PICK w : w = [i \in 1 .. N + 1 |-> IF i <= m THEN q[i] ELSE NULL]
  OBVIOUS
<1>4. ASSUME NEW i \in 1 .. N + 1
      PROVE  w[i] = IF i = 1 THEN timer_list
                    ELSE IF w[i - 1] = NULL THEN NULL ELSE timer[w[i - 1]].next
  <2>1. CASE i = 1
    BY <1>2, <1>3, <2>1
  <2>2. CASE i # 1
    <3>1. i - 1 \in 1 .. N + 1 /\ (i - 1) + 1 = i
      BY <2>2
    <3>2. w[i - 1] = IF i - 1 <= m THEN q[i - 1] ELSE NULL
      BY <1>3, <3>1
    <3>3. CASE i - 1 <= m
      <4>1. i - 1 \in 1 .. m
        BY <3>1, <3>3
      <4>2. timer[q[i - 1]].next = IF i - 1 = m THEN NULL ELSE q[i]
        BY <1>2, <3>1, <4>1
      <4>3. w[i - 1] # NULL
        BY <1>2, <3>2, <3>3, <4>1
      <4>4. w[i] = IF i - 1 = m THEN NULL ELSE q[i]
        BY <1>3, <4>1
      <4>. QED  BY <2>2, <3>2, <3>3, <4>2, <4>3, <4>4
    <3>4. CASE ~(i - 1 <= m)
      BY <1>3, <2>2, <3>1, <3>2, <3>4
    <3>. QED  BY <3>3, <3>4
  <2>. QED  BY <2>1, <2>2
<1>5. w = [i \in 1 .. N + 1 |-> IF i = 1 THEN timer_list
                                ELSE IF w[i - 1] = NULL THEN NULL ELSE timer[w[i - 1]].next]
  BY <1>3, <1>4
<1>6. Walk = [i \in 1 .. N + 1 |-> IF i = 1 THEN timer_list
                                   ELSE IF Walk[i - 1] = NULL THEN NULL ELSE timer[Walk[i - 1]].next]
  BY <1>5 DEF Walk
<1>7. PICK v : v = Walk
  OBVIOUS
<1>8. ASSUME NEW i \in 1 .. N + 1
      PROVE  v[i] = IF i = 1 THEN timer_list
                    ELSE IF v[i - 1] = NULL THEN NULL ELSE timer[v[i - 1]].next
  BY <1>6, <1>7
<1>9. ASSUME NEW i \in 1 .. N + 1, v[i] # w[i]
      PROVE  FALSE
  <2>1. PICK S : S = {j \in 1 .. N + 1 : v[j] # w[j]}
    OBVIOUS
  <2>2. PICK j \in S : \A l \in S : j <= l
    <3>1. S \in SUBSET Nat /\ S # {}
      BY <1>9, <2>1
    <3>. QED  BY <3>1, LeastNatural
  <2>3. j \in 1 .. N + 1 /\ v[j] # w[j]
    BY <2>1
  <2>4. j # 1
    BY <1>4, <1>8, <2>3
  <2>5. j - 1 \in 1 .. N + 1 /\ ~(j <= j - 1)
    BY <2>3, <2>4
  <2>6. v[j - 1] = w[j - 1]
    BY <2>1, <2>2, <2>5
  <2>. QED  BY <1>4, <1>8, <2>3, <2>4, <2>6
<1>10. DOMAIN v = 1 .. N + 1
  BY <1>6, <1>7
<1>. QED  BY <1>1, <1>3, <1>7, <1>9, <1>10

LEMMA ListedIs ==
  ASSUME NEW q, Holds(q)
  PROVE  /\ Listed = {q[i] : i \in 1 .. Len(q)}
         /\ \A t \in Timers : t \in Listed <=> IsStarted(t)
<1>1. PICK m \in Nat, N \in Nat : m = Len(q) /\ N = Cardinality(Timers)
  <2>1. Len(q) \in Nat /\ Cardinality(Timers) \in Nat
    BY TimersAssumption, FS_CardinalityType DEF Holds, Once
  <2>. QED  BY <2>1
<1>2. /\ m <= N
      /\ DOMAIN Walk = 1 .. N + 1
      /\ \A i \in 1 .. N + 1 : Walk[i] = IF i <= m THEN q[i] ELSE NULL
  BY <1>1, WalkIs
<1>3. \A i \in 1 .. m : q[i] \in Timers /\ q[i] # NULL /\ i \in 1 .. N + 1
  BY <1>1, <1>2, TimersAssumption DEF Holds, Once
<1>4. ASSUME NEW x
      PROVE  x \in Listed <=> \E i \in 1 .. m : x = q[i]
  <2>1. x \in Listed => \E i \in 1 .. m : x = q[i]
    BY <1>2 DEF Listed
  <2>2. (\E i \in 1 .. m : x = q[i]) => x \in Listed
    BY <1>2, <1>3 DEF Listed
  <2>. QED  BY <2>1, <2>2
<1>5. \A t \in Timers : t \in Listed <=> IsStarted(t)
  BY <1>1, <1>4 DEF Holds, Started
<1>. QED  BY <1>1, <1>4, <1>5

-----------------------------------------------------------------------------
(* What stop_timer makes of the fields when the timer is in the list. *)
LEMMA UnlinkFields ==
  ASSUME Typed, NEW t \in Timers, t \in Listed, stop_timer(t),
         NEW p \in Timers \cup {NULL}, NEW n \in Timers \cup {NULL},
         p = timer[t].prev, n = timer[t].next
  PROVE  /\ timer' \in [Timers -> Nodes]
         /\ timer'[t] = Idle
         /\ \A u \in Timers \ {t} :
              /\ timer'[u].next = IF u = p THEN n ELSE timer[u].next
              /\ timer'[u].prev = IF u = n THEN p ELSE timer[u].prev
              /\ timer'[u].stop_time = timer[u].stop_time
              /\ timer'[u].start_time = timer[u].start_time
              /\ timer[u] # Idle => timer'[u] # Idle
              /\ u # p /\ u # n => timer'[u] = timer[u]
<1>1. timer'[t] = Idle
  BY DEF stop_timer
<1>2. Idle \in Nodes
  BY TimeValOf DEF Idle, Nodes, Zero
<1>3. ASSUME NEW u \in Timers \ {t}
      PROVE  timer'[u] = [timer[u] EXCEPT !.next = IF u = p THEN n ELSE @,
                                          !.prev = IF u = n THEN p ELSE @]
  BY DEF stop_timer
<1>4. ASSUME NEW u \in Timers
      PROVE  timer[u] \in Nodes
  BY DEF Typed
<1>5. ASSUME NEW u \in Timers \ {t}
      PROVE  /\ timer'[u] \in Nodes
             /\ timer'[u].next = IF u = p THEN n ELSE timer[u].next
             /\ timer'[u].prev = IF u = n THEN p ELSE timer[u].prev
             /\ timer'[u].stop_time = timer[u].stop_time
             /\ timer'[u].start_time = timer[u].start_time
  <2>1. PICK x \in Nodes : x = timer[u]
    BY <1>4
  <2>2. PICK a \in Timers \cup {NULL} : a = IF u = p THEN n ELSE x.next
    BY <2>1 DEF Nodes
  <2>3. PICK b \in Timers \cup {NULL} : b = IF u = n THEN p ELSE x.prev
    BY <2>1 DEF Nodes
  <2>4. timer'[u] = [x EXCEPT !.next = a, !.prev = b]
    BY <1>3, <2>1, <2>2, <2>3 DEF Nodes
  <2>. QED  BY <2>1, <2>2, <2>3, <2>4 DEF Nodes
<1>6. timer' \in [Timers -> Nodes]
  <2>1. timer' = [u \in Timers |-> timer'[u]]
    BY DEF stop_timer
  <2>. QED  BY <1>1, <1>2, <1>5, <2>1
(* an idle timer is nobody's neighbour, a started one keeps its start time *)
<1>7. ASSUME NEW u \in Timers \ {t}, timer[u] # Idle
      PROVE  timer'[u] # Idle
  <2>1. timer'[u].start_time # Zero
    BY <1>5, <1>7 DEF Typed, Stamped, IsStarted
  <2>. QED  BY <2>1 DEF Idle
<1>8. ASSUME NEW u \in Timers \ {t}, u # p, u # n
      PROVE  timer'[u] = timer[u]
  BY <1>4, <1>5, <1>8 DEF Nodes
<1>. QED  BY <1>1, <1>5, <1>6, <1>7, <1>8

(* Taking the timer at place k out of the list. *)
LEMMA UnlinkHolds ==
  ASSUME Typed, NEW q, Holds(q), NEW m \in Nat, m = Len(q), NEW k \in 1 .. m,
         NEW t, t = q[k], stop_timer(t), NEW z, z = Removed(q, k)
  PROVE  Holds(z)' /\ timer' \in [Timers -> Nodes] /\ Stamped'
<1>1. /\ q \in Seq(Timers) /\ \A i, j \in 1 .. m : q[i] = q[j] => i = j
      /\ \A i \in 1 .. m : q[i] \in Timers
      /\ t \in Timers
  BY DEF Holds, Once
<1>2. t \in Listed
  BY <1>1, ListedIs
<1>3. PICK p : p = IF k = 1 THEN NULL ELSE q[k - 1]
  OBVIOUS
<1>4. PICK n : n = IF k = m THEN NULL ELSE q[k + 1]
  OBVIOUS
<1>5. /\ p = timer[t].prev /\ n = timer[t].next
      /\ p \in Timers \cup {NULL} /\ n \in Timers \cup {NULL}
      /\ NULL \notin Timers
  <2>1. p = timer[t].prev /\ n = timer[t].next
    BY <1>3, <1>4 DEF Holds, Linked
  <2>. QED  BY <1>1, <2>1, TimersAssumption DEF Typed, Nodes
<1>6. /\ timer' \in [Timers -> Nodes]
      /\ timer'[t] = Idle
      /\ \A u \in Timers \ {t} :
           /\ timer'[u].next = IF u = p THEN n ELSE timer[u].next
           /\ timer'[u].prev = IF u = n THEN p ELSE timer[u].prev
           /\ timer'[u].stop_time = timer[u].stop_time
           /\ timer'[u].start_time = timer[u].start_time
           /\ timer[u] # Idle => timer'[u] # Idle
           /\ u # p /\ u # n => timer'[u] = timer[u]
  BY <1>1, <1>2, <1>5, UnlinkFields
<1>7. \A i \in 1 .. m : (q[i] = p <=> i = k - 1) /\ (q[i] = n <=> i = k + 1)
  BY <1>1, <1>3, <1>4, <1>5
<1>8. /\ z \in Seq(Timers) /\ Len(z) = m - 1
      /\ \A i \in 1 .. m - 1 : z[i] = IF i < k THEN q[i] ELSE q[i + 1]
  BY <1>1, RemovedIs DEF Removed
<1>9. PICK l \in Nat : l = m - 1 /\ m = l + 1
  <2>1. m - 1 \in Nat /\ m = (m - 1) + 1
    OBVIOUS
  <2>. QED  BY <2>1
(* the timers that stay, by their old place *)
<1>10. ASSUME NEW i \in 1 .. m, i # k
       PROVE  /\ q[i] \in Timers \ {t}
              /\ timer'[q[i]].next = IF i = k - 1 THEN n ELSE IF i = m THEN NULL ELSE q[i + 1]
              /\ timer'[q[i]].prev = IF i = k + 1 THEN p ELSE IF i = 1 THEN NULL ELSE q[i - 1]
              /\ timer'[q[i]].stop_time = timer[q[i]].stop_time
  <2>1. q[i] \in Timers \ {t}
    BY <1>1, <1>10
  <2>2. /\ timer[q[i]].next = IF i = m THEN NULL ELSE q[i + 1]
        /\ timer[q[i]].prev = IF i = 1 THEN NULL ELSE q[i - 1]
    BY DEF Holds, Linked
  <2>. QED  BY <1>6, <1>7, <2>1, <2>2
<1>11. ASSUME NEW i \in 1 .. l
       PROVE  \/ i < k /\ i \in 1 .. m /\ i # k /\ z[i] = q[i]
              \/ i >= k /\ i + 1 \in 1 .. m /\ i + 1 # k /\ z[i] = q[i + 1]
  <2>1. i \in 1 .. m - 1 /\ i \in 1 .. m /\ i + 1 \in 1 .. m
    BY <1>9
  <2>2. CASE i < k
    BY <1>8, <2>1, <2>2
  <2>3. CASE i >= k
    <3>1. ~(i < k) /\ i + 1 # k
      BY <2>3
    <3>. QED  BY <1>8, <2>1, <2>3, <3>1
  <2>. QED  BY <2>2, <2>3
<1>12. Once(z)
  <2>. SUFFICES ASSUME NEW i \in 1 .. l, NEW j \in 1 .. l, z[i] = z[j]
                PROVE  i = j
    BY <1>8, <1>9 DEF Once
  <2>. QED  BY <1>1, <1>11
<1>13. ASSUME NEW i \in 1 .. l
       PROVE  /\ timer'[z[i]].next = IF i = l THEN NULL ELSE z[i + 1]
              /\ timer'[z[i]].prev = IF i = 1 THEN NULL ELSE z[i - 1]
  <2>0. i # l => i + 1 \in 1 .. l
    OBVIOUS
  <2>00. i # 1 => i - 1 \in 1 .. l
    OBVIOUS
  <2>1. CASE i < k /\ i \in 1 .. m /\ i # k /\ z[i] = q[i]
    <3>1. i # l => z[i + 1] = IF i = k - 1 THEN q[k + 1] ELSE q[i + 1]
      <4>1. CASE i = k - 1
        <5>1. i + 1 >= k /\ (i + 1) + 1 = k + 1
          BY <4>1
        <5>. QED  BY <1>11, <2>0, <4>1, <5>1
      <4>2. CASE i # k - 1
        <5>1. ~(i + 1 >= k)
          BY <2>1, <4>2
        <5>. QED  BY <1>11, <2>0, <4>2, <5>1
      <4>. QED  BY <4>1, <4>2
    <3>2. i # 1 => z[i - 1] = q[i - 1]
      <4>1. ~(i - 1 >= k)
        BY <2>1
      <4>. QED  BY <1>11, <2>00, <4>1
    <3>3. /\ i = k - 1 => (i = l <=> k = m)
          /\ i # k - 1 => i # l /\ i # m
          /\ i # k + 1
      BY <1>9, <2>1
    <3>4. timer'[q[i]].next = IF i = l THEN NULL ELSE z[i + 1]
      <4>1. CASE i = k - 1
        BY <1>4, <1>10, <2>1, <3>1, <3>3, <4>1
      <4>2. CASE i # k - 1
        BY <1>10, <2>1, <3>1, <3>3, <4>2
      <4>. QED  BY <4>1, <4>2
    <3>5. timer'[q[i]].prev = IF i = 1 THEN NULL ELSE z[i - 1]
      BY <1>10, <2>1, <3>2, <3>3
    <3>. QED  BY <2>1, <3>4, <3>5
  <2>2. CASE i >= k /\ i + 1 \in 1 .. m /\ i + 1 # k /\ z[i] = q[i + 1]
    <3>1. i # l => z[i + 1] = q[(i + 1) + 1]
      <4>1. i + 1 >= k /\ ~(i + 1 < k)
        BY <2>2
      <4>. QED  BY <1>11, <2>0, <4>1
    <3>2. i # 1 => z[i - 1] = IF i = k THEN q[k - 1] ELSE q[i]
      <4>1. CASE i = k
        <5>1. i - 1 < k /\ ~(i - 1 >= k)
          BY <4>1
        <5>. QED  BY <1>11, <2>00, <4>1, <5>1
      <4>2. CASE i # k
        <5>1. i - 1 >= k /\ ~(i - 1 < k) /\ (i - 1) + 1 = i
          BY <2>2, <4>2
        <5>. QED  BY <1>11, <2>00, <4>2, <5>1
      <4>. QED  BY <4>1, <4>2
    <3>3. /\ i + 1 # k - 1 /\ (i + 1 = m <=> i = l) /\ i + 1 # 1
          /\ (i + 1 = k + 1 <=> i = k) /\ (i = k => (i = 1 <=> k = 1)) /\ (i # k => i # 1)
          /\ (i + 1) - 1 = i
      BY <1>9, <2>2
    <3>4. timer'[q[i + 1]].next = IF i = l THEN NULL ELSE z[i + 1]
      BY <1>10, <2>2, <3>1, <3>3
    <3>5. timer'[q[i + 1]].prev = IF i + 1 = k + 1 THEN p ELSE q[i]
      BY <1>10, <2>2, <3>3
    <3>6. timer'[q[i + 1]].prev = IF i = 1 THEN NULL ELSE z[i - 1]
      BY <1>3, <3>2, <3>3, <3>5
    <3>. QED  BY <2>2, <3>4, <3>6
  <2>. QED  BY <1>11, <2>1, <2>2
<1>14. timer_list' = IF l = 0 THEN NULL ELSE z[1]
  <2>1. timer_list = q[1]
    BY DEF Holds, Linked
  <2>2. t = q[1] <=> k = 1
    BY <1>1
  <2>3. timer_list' = IF k = 1 THEN n ELSE q[1]
    BY <1>2, <1>5, <2>1, <2>2 DEF stop_timer
  <2>4. CASE k = 1
    <3>1. l # 0 => z[1] = q[k + 1]
      <4>1. l # 0 => 1 \in 1 .. l /\ ~(1 < k) /\ 1 + 1 = k + 1
        BY <2>4
      <4>. QED  BY <1>11, <4>1
    <3>2. l = 0 <=> k = m
      BY <1>9, <2>4
    <3>. QED  BY <1>4, <2>3, <2>4, <3>1, <3>2
  <2>5. CASE k # 1
    <3>1. l # 0 /\ 1 \in 1 .. l /\ ~(1 >= k)
      BY <1>9, <2>5
    <3>2. z[1] = q[1]
      BY <1>11, <3>1
    <3>. QED  BY <2>3, <2>5, <3>1, <3>2
  <2>. QED  BY <2>4, <2>5
<1>15. Linked(z)'
  BY <1>8, <1>9, <1>13, <1>14 DEF Linked
<1>16. Started(z)'
  <2>. SUFFICES ASSUME NEW u \in Timers
                PROVE  timer'[u] # Idle <=> \E i \in 1 .. l : z[i] = u
    BY <1>8, <1>9 DEF Started, IsStarted, Idle, Zero, TimeVal, USec
  <2>1. CASE u = t
    <3>1. \A i \in 1 .. m : i # k => q[i] # t
      BY <1>10
    <3>2. \A i \in 1 .. l : z[i] # t
      BY <1>11, <3>1
    <3>. QED  BY <1>6, <2>1, <3>2
  <2>2. CASE u # t
    <3>1. (\E i \in 1 .. l : z[i] = u) => \E i \in 1 .. m : q[i] = u
      BY <1>11
    <3>2. ASSUME NEW i \in 1 .. m, q[i] = u
          PROVE  \E j \in 1 .. l : z[j] = u
      <4>1. i # k
        BY <2>2, <3>2
      <4>2. CASE i < k
        <5>1. i \in 1 .. l /\ ~(i >= k)
          BY <1>9, <4>2
        <5>. QED  BY <1>11, <3>2, <5>1
      <4>3. CASE i > k
        <5>1. i - 1 \in 1 .. l /\ ~(i - 1 < k) /\ (i - 1) + 1 = i
          BY <1>9, <4>3
        <5>. QED  BY <1>11, <3>2, <5>1
      <4>. QED  BY <4>1, <4>2, <4>3
    <3>3. timer[u] # Idle <=> \E i \in 1 .. m : q[i] = u
      BY DEF Holds, Started, IsStarted
    <3>4. timer[u] = Idle => timer'[u] = timer[u]
      <4>1. u = p => k - 1 \in 1 .. m /\ q[k - 1] = u
        BY <1>3, <1>5
      <4>2. u = n => k + 1 \in 1 .. m /\ q[k + 1] = u
        BY <1>4, <1>5
      <4>. QED  BY <1>6, <2>2, <3>3, <4>1, <4>2
    <3>5. timer'[u] # Idle <=> timer[u] # Idle
      BY <1>6, <2>2, <3>4
    <3>. QED  BY <3>1, <3>2, <3>3, <3>5
  <2>. QED  BY <2>1, <2>2
<1>17. Sorted(z)'
  <2>1. \A i \in 1 .. m : i # k => StopOf(q[i])' = StopOf(q[i])
    BY <1>10 DEF StopOf, Value, USec
  <2>2. PICK f : f = [i \in 1 .. m |-> StopOf(q[i])]
    OBVIOUS
  <2>3. \A i, j \in 1 .. m : i <= j => f[i] <= f[j]
    BY <2>2 DEF Holds, Sorted
  <2>4. ASSUME NEW i \in 1 .. l
        PROVE  \/ i < k /\ i \in 1 .. m /\ StopOf(z[i])' = f[i]
               \/ i >= k /\ i + 1 \in 1 .. m /\ StopOf(z[i])' = f[i + 1]
    BY <1>11, <2>1, <2>2 DEF StopOf
  <2>5. ASSUME NEW i \in 1 .. l, NEW j \in 1 .. l, i <= j
        PROVE  StopOf(z[i])' <= StopOf(z[j])'
    <3>1. CASE i < k /\ i \in 1 .. m /\ StopOf(z[i])' = f[i]
      BY <2>3, <2>4, <2>5, <3>1
    <3>2. CASE i >= k /\ i + 1 \in 1 .. m /\ StopOf(z[i])' = f[i + 1]
      BY <2>3, <2>4, <2>5, <3>2
    <3>. QED  BY <2>4, <3>1, <3>2
  <2>. QED  BY <1>8, <1>9, <2>5 DEF Sorted
<1>18. Stamped'
  <2>. SUFFICES ASSUME NEW u \in Timers, timer'[u] # Idle
                PROVE  timer'[u].start_time # Zero
    BY DEF Stamped, IsStarted, Idle, Zero, TimeVal, USec
  <2>1. u # t
    BY <1>6
  <2>2. (u = p => k - 1 \in 1 .. m /\ q[k - 1] = u) /\ (u = n => k + 1 \in 1 .. m /\ q[k + 1] = u)
    BY <1>3, <1>4, <1>5
  <2>3. timer[u] # Idle
    BY <1>6, <2>1, <2>2 DEF Holds, Started, IsStarted
  <2>. QED  BY <1>6, <2>1, <2>3 DEF Typed, Stamped, IsStarted
<1>. QED  BY <1>6, <1>12, <1>15, <1>16, <1>17, <1>18 DEF Holds

-----------------------------------------------------------------------------
(* stop_timer does nothing to a timer that is not in the list. *)
LEMMA StopOfIdle ==
  ASSUME Typed, NEW q, Holds(q), NEW t \in Timers, ~IsStarted(t), stop_timer(t)
  PROVE  UNCHANGED list
<1>1. t \notin Listed /\ timer[t] = Idle
  BY ListedIs DEF IsStarted
<1>2. timer_list' = timer_list
  BY <1>1 DEF stop_timer
<1>3. timer' = [u \in Timers |-> timer[u]]
  BY <1>1 DEF stop_timer
<1>4. timer = [u \in Timers |-> timer[u]]
  BY DEF Typed
<1>. QED  BY <1>2, <1>3, <1>4 DEF list

(***************************************************************************)
(* start_timer puts the new timer behind those that stop before it or with *)
(* it.                                                                     *)
(***************************************************************************)
Fits(stop, i) ==
  /\ Walk[i] # NULL
  /\ \/ timer[Walk[i]].next = NULL
     \/ timeval_before(stop, timer[timer[Walk[i]].next].stop_time)

LEMMA PredecessorIs ==
  ASSUME Typed, NEW q, Holds(q), NEW m \in Nat, m = Len(q), m # 0, NEW stop \in TimeVals
  PROVE  \E k \in 1 .. m :
           /\ Predecessor(stop) = q[k]
           /\ k = m \/ Value(stop) < StopOf(q[k + 1])
           /\ \A j \in 1 .. k - 1 : StopOf(q[j + 1]) <= Value(stop)
<1>1. PICK N \in Nat : N = Cardinality(Timers)
  BY TimersAssumption, FS_CardinalityType
<1>2. /\ m <= N
      /\ DOMAIN Walk = 1 .. N + 1
      /\ \A i \in 1 .. N + 1 : Walk[i] = IF i <= m THEN q[i] ELSE NULL
  BY <1>1, WalkIs
<1>3. NULL \notin Timers /\ \A i \in 1 .. m : q[i] \in Timers
  BY TimersAssumption DEF Holds, Once
<1>4. \A i \in 1 .. m : timer[q[i]].next = IF i = m THEN NULL ELSE q[i + 1]
  BY DEF Holds, Linked
<1>5. ASSUME NEW i \in 1 .. N + 1
      PROVE  Fits(stop, i) <=> i <= m /\ (i = m \/ Value(stop) < StopOf(q[i + 1]))
  <2>1. CASE i > m
    BY <1>2, <2>1 DEF Fits
  <2>2. CASE i = m
    BY <1>2, <1>3, <1>4, <2>2 DEF Fits
  <2>3. CASE i < m
    <3>1. i \in 1 .. m /\ i + 1 \in 1 .. m /\ i # m /\ i <= m
      BY <2>3
    <3>2. Walk[i] = q[i] /\ Walk[i] # NULL /\ timer[Walk[i]].next = q[i + 1] /\ q[i + 1] # NULL
      BY <1>2, <1>3, <1>4, <3>1
    <3>3. timer[q[i + 1]].stop_time \in TimeVals
      BY <1>3, <3>1 DEF Typed, Nodes
    <3>4. timeval_before(stop, timer[q[i + 1]].stop_time) <=> Value(stop) < StopOf(q[i + 1])
      BY <3>3, BeforeIsLess DEF StopOf
    <3>. QED  BY <3>1, <3>2, <3>4 DEF Fits
  <2>. QED  BY <2>1, <2>2, <2>3
<1>6. PICK c : c = CHOOSE i \in DOMAIN Walk :
                     Fits(stop, i) /\ \A j \in 1 .. i - 1 : ~Fits(stop, j)
  OBVIOUS
<1>7. Predecessor(stop) = Walk[c]
  BY <1>6 DEF Predecessor, Fits
<1>8. \E i \in DOMAIN Walk : Fits(stop, i) /\ \A j \in 1 .. i - 1 : ~Fits(stop, j)
  <2>1. PICK S : S = {i \in 1 .. N + 1 : Fits(stop, i)}
    OBVIOUS
  <2>2. m \in S
    <3>1. m \in 1 .. N + 1
      BY <1>2
    <3>. QED  BY <1>5, <2>1, <3>1
  <2>3. PICK i \in S : \A j \in S : i <= j
    <3>1. S \in SUBSET Nat /\ S # {}
      BY <2>1, <2>2
    <3>. QED  BY <3>1, LeastNatural
  <2>4. i \in 1 .. N + 1 /\ Fits(stop, i)
    BY <2>1
  <2>5. ASSUME NEW j \in 1 .. i - 1, Fits(stop, j)
        PROVE  FALSE
    <3>1. j \in 1 .. N + 1 /\ ~(i <= j)
      BY <2>4
    <3>. QED  BY <2>1, <2>3, <2>5, <3>1
  <2>. QED  BY <1>2, <2>4, <2>5
<1>9. c \in 1 .. N + 1 /\ Fits(stop, c) /\ \A j \in 1 .. c - 1 : ~Fits(stop, j)
  BY <1>2, <1>6, <1>8
<1>10. c \in 1 .. m /\ (c = m \/ Value(stop) < StopOf(q[c + 1]))
  BY <1>2, <1>5, <1>9
<1>11. ASSUME NEW j \in 1 .. c - 1
       PROVE  StopOf(q[j + 1]) <= Value(stop)
  <2>1. j \in 1 .. N + 1 /\ j + 1 \in 1 .. m /\ j <= m /\ j # m
    BY <1>2, <1>10
  <2>2. ~(Value(stop) < StopOf(q[j + 1]))
    BY <1>5, <1>9, <2>1
  <2>3. timer[q[j + 1]].stop_time \in TimeVals
    BY <1>3, <2>1 DEF Typed, Nodes
  <2>4. Value(stop) \in Nat /\ StopOf(q[j + 1]) \in Nat
    BY <2>3, ValueIsNat DEF StopOf
  <2>. QED  BY <2>2, <2>4
<1>12. Walk[c] = q[c]
  BY <1>2, <1>10
<1>. QED  BY <1>7, <1>10, <1>11, <1>12

LEMMA InsertFinds ==
  ASSUME Typed, NEW q, Holds(q), NEW m \in Nat, m = Len(q), NEW t \in Timers,
         NEW stop \in TimeVals, Insert(t, stop)
  PROVE  \E k \in 0 .. m :
           /\ timer' = Link(t, IF k = 0 THEN NULL ELSE q[k], IF k = m THEN NULL ELSE q[k + 1], stop)
           /\ timer_list' = IF k = 0 THEN t ELSE timer_list
           /\ \A j \in 1 .. m : j <= k <=> StopOf(q[j]) <= Value(stop)
<1>1. /\ NULL \notin Timers /\ \A i \in 1 .. m : q[i] \in Timers
      /\ timer_list = IF m = 0 THEN NULL ELSE q[1]
      /\ \A i \in 1 .. m : timer[q[i]].next = IF i = m THEN NULL ELSE q[i + 1]
  BY TimersAssumption DEF Holds, Once, Linked
<1>2. PICK s \in Nat : s = Value(stop)
  BY ValueIsNat
<1>3. PICK f \in [1 .. m -> Nat] : \A i \in 1 .. m : f[i] = StopOf(q[i])
  <2>1. \A i \in 1 .. m : StopOf(q[i]) \in Nat
    BY <1>1, ValueIsNat DEF Typed, Nodes, StopOf
  <2>2. [i \in 1 .. m |-> StopOf(q[i])] \in [1 .. m -> Nat]
    BY <2>1
  <2>. QED  BY <2>2
<1>4. \A i, j \in 1 .. m : i <= j => f[i] <= f[j]
  BY <1>3 DEF Holds, Sorted
<1>5. timer_list = NULL <=> m = 0
  <2>1. m # 0 => 1 \in 1 .. m
    OBVIOUS
  <2>. QED  BY <1>1, <2>1
<1>6. m # 0 => (timeval_before(stop, timer[timer_list].stop_time) <=> s < f[1])
  <2>1. m # 0 => 1 \in 1 .. m /\ timer_list = q[1] /\ timer[q[1]].stop_time \in TimeVals
    BY <1>1 DEF Typed, Nodes
  <2>. QED  BY <1>2, <1>3, <2>1, BeforeIsLess DEF StopOf
<1>7. CASE timer_list = NULL
  <2>1. /\ m = 0 /\ timer_list' = t /\ timer' = Link(t, NULL, NULL, stop)
    BY <1>5, <1>7 DEF Insert
  <2>2. 0 \in 0 .. m /\ \A j \in 1 .. m : FALSE
    BY <2>1
  <2>. QED  BY <2>1, <2>2
<1>8. CASE timer_list # NULL /\ timeval_before(stop, timer[timer_list].stop_time)
  <2>1. /\ m # 0 /\ timer_list' = t /\ timer' = Link(t, NULL, q[1], stop) /\ s < f[1]
    BY <1>1, <1>5, <1>6, <1>8 DEF Insert
  <2>2. \A j \in 1 .. m : ~(j <= 0) /\ ~(f[j] <= s)
    BY <1>4, <2>1
  <2>3. PICK k \in 0 .. m : k = 0 /\ k + 1 = 1 /\ k # m
    BY <2>1
  <2>. QED  BY <1>2, <1>3, <2>1, <2>2, <2>3
<1>9. CASE timer_list # NULL /\ ~timeval_before(stop, timer[timer_list].stop_time)
  <2>1. m # 0 /\ f[1] <= s /\ 1 \in 1 .. m
    BY <1>5, <1>6, <1>9
  <2>2. PICK k \in 1 .. m : /\ Predecessor(stop) = q[k]
                            /\ k = m \/ Value(stop) < StopOf(q[k + 1])
                            /\ \A j \in 1 .. k - 1 : StopOf(q[j + 1]) <= Value(stop)
    BY <2>1, PredecessorIs
  <2>3. /\ timer_list' = timer_list
        /\ timer' = Link(t, q[k], timer[q[k]].next, stop)
    BY <1>9, <2>2 DEF Insert
  <2>4. k \in 0 .. m /\ k # 0
    OBVIOUS
  <2>5. timer' = Link(t, IF k = 0 THEN NULL ELSE q[k], IF k = m THEN NULL ELSE q[k + 1], stop)
    BY <1>1, <2>3, <2>4
  <2>6. ASSUME NEW j \in 1 .. m
        PROVE  j <= k <=> f[j] <= s
    <3>1. CASE j = 1
      BY <2>1, <3>1
    <3>2. CASE j # 1 /\ j <= k
      <4>1. j - 1 \in 1 .. k - 1 /\ (j - 1) + 1 = j
        BY <3>2
      <4>2. StopOf(q[(j - 1) + 1]) <= Value(stop)
        BY <2>2, <4>1
      <4>. QED  BY <1>2, <1>3, <3>2, <4>1, <4>2
    <3>3. CASE j > k
      <4>1. k # m /\ k + 1 \in 1 .. m /\ k + 1 <= j
        BY <3>3
      <4>2. s < f[k + 1]
        BY <1>2, <1>3, <2>2, <4>1
      <4>. QED  BY <1>4, <3>3, <4>1, <4>2
    <3>. QED  BY <3>1, <3>2, <3>3
  <2>. QED  BY <1>2, <1>3, <2>3, <2>4, <2>5, <2>6
<1>. QED  BY <1>7, <1>8, <1>9 DEF Insert

-----------------------------------------------------------------------------
(***************************************************************************)
(* The invariant.                                                          *)
(***************************************************************************)
LegalWait ==
  /\ waiting \in BOOLEAN
  /\ timeout # NULL => waiting /\ timer_list # NULL
  /\ TimeoutIsLegal

TimerInv == Typed /\ (\E q \in Seq(Timers) : Holds(q)) /\ LegalWait

(* The queue of the abstract specification. *)
Chain == [i \in 1 .. Length |-> Walk[i]]

LEMMA ChainIs == \A q \in Seq(Timers) : Holds(q) => Chain = q
<1>. SUFFICES ASSUME NEW q \in Seq(Timers), Holds(q)
              PROVE  Chain = q
  OBVIOUS
<1>1. PICK m \in Nat, N \in Nat : m = Len(q) /\ N = Cardinality(Timers)
  BY TimersAssumption, FS_CardinalityType
<1>2. /\ m <= N
      /\ \A i \in 1 .. N + 1 : Walk[i] = IF i <= m THEN q[i] ELSE NULL
  BY <1>1, WalkIs
<1>3. PICK S : S = {q[i] : i \in 1 .. m}
  OBVIOUS
<1>4. Cardinality(S) = m
  <2>1. PICK a \in Int, b \in Int : a = 1 /\ b = m
    OBVIOUS
  <2>2. IsFiniteSet(a .. b) /\ Cardinality(a .. b) = IF a > b THEN 0 ELSE b - a + 1
    BY FS_Interval
  <2>3. IsFiniteSet(1 .. m) /\ Cardinality(1 .. m) = m
    BY <2>1, <2>2
  <2>4. q \in Bijection(1 .. m, S)
    BY <1>1, <1>3 DEF Bijection, Injection, Surjection, IsInjective, Holds, Once
  <2>5. ExistsBijection(1 .. m, S)
    BY <2>4 DEF ExistsBijection
  <2>. QED  BY <2>3, <2>5, FS_Bijection
<1>5. Length = m
  BY <1>1, <1>3, <1>4, ListedIs DEF Length
<1>6. \A i \in 1 .. m : i \in 1 .. N + 1 /\ i <= m
  BY <1>2
<1>7. Chain = [i \in 1 .. m |-> q[i]]
  BY <1>2, <1>5, <1>6 DEF Chain
<1>. QED  BY <1>1, <1>7

LEMMA ChainIsThen == (\A q \in Seq(Timers) : Holds(q) => Chain = q)'
BY ChainIs, PTL

LEMMA ArmedIsStarted ==
  ASSUME NEW q \in Seq(Timers), Holds(q), NEW t \in Timers
  PROVE  Queue!IsArmed(t) <=> IsStarted(t)
<1>1. Chain = q
  BY ChainIs
<1>2. Queue!IsArmed(t) <=> \E i \in 1 .. Len(q) : q[i] = t
  BY <1>1 DEF Queue!IsArmed, Chain
<1>. QED  BY <1>2 DEF Holds, Started

(* An idle timer has the deadline 0. *)
LEMMA IdleStop == Value(Idle.stop_time) = 0
<1>1. Value(TimeVal(0)) = 0
  BY TimeValOf
<1>. QED  BY <1>1 DEF Idle, Zero

-----------------------------------------------------------------------------
(***************************************************************************)
(* The steps: what each does to the list, and to the queue.                *)
(***************************************************************************)
LEMMA StartStep ==
  ASSUME Typed, NEW q \in Seq(Timers), Holds(q), NEW t \in Timers, NEW ms \in Timeouts,
         StartTimer(t, ms)
  PROVE  Typed' /\ (\E z \in Seq(Timers) : Holds(z)') /\ Queue!Start(t, Milli * ms)
<1>1. ms \in Nat /\ now \in Nat
  BY TimersAssumption DEF Typed
<1>2. PICK stop \in TimeVals : stop = StopTime(ms) /\ Value(stop) = now + Milli * ms
  BY <1>1, StopTimeOf
<1>3. PICK m \in Nat : m = Len(q)
  OBVIOUS
<1>4. ~IsStarted(t) /\ Insert(t, stop)
  BY <1>2 DEF StartTimer
<1>5. PICK k \in 0 .. m :
        /\ timer' = Link(t, IF k = 0 THEN NULL ELSE q[k], IF k = m THEN NULL ELSE q[k + 1], stop)
        /\ timer_list' = IF k = 0 THEN t ELSE timer_list
        /\ \A j \in 1 .. m : j <= k <=> StopOf(q[j]) <= Value(stop)
  BY <1>3, <1>4, InsertFinds
<1>6. PICK p : p = IF k = 0 THEN NULL ELSE q[k]
  OBVIOUS
<1>7. PICK n : n = IF k = m THEN NULL ELSE q[k + 1]
  OBVIOUS
<1>8. \A i \in 1 .. m : q[i] \in Timers
  BY <1>3
<1>9. \A i \in 1 .. m : StopOf(q[i]) \in Nat
  BY <1>8, ValueIsNat DEF Typed, Nodes, StopOf
<1>10. Value(stop) \in Nat
  BY ValueIsNat
<1>11. ASSUME NEW i \in 1 .. k
       PROVE  StopOf(q[i]) <= Value(stop)
  <2>1. i \in 1 .. m /\ i <= k
    OBVIOUS
  <2>. QED  BY <1>5, <2>1
<1>12. ASSUME NEW i \in k + 1 .. m
       PROVE  Value(stop) <= StopOf(q[i])
  <2>1. i \in 1 .. m /\ ~(i <= k)
    OBVIOUS
  <2>2. ~(StopOf(q[i]) <= Value(stop))
    BY <1>5, <2>1
  <2>. QED  BY <1>9, <1>10, <2>1, <2>2
<1>13. PICK z : z = Inserted(q, k, t)
  OBVIOUS
<1>14. timer' = Link(t, p, n, stop)
  BY <1>5, <1>6, <1>7
<1>15. Holds(z)' /\ timer' \in [Timers -> Nodes] /\ Stamped'
  BY <1>3, <1>4, <1>5, <1>6, <1>7, <1>11, <1>12, <1>13, <1>14, LinkHolds
<1>16. z \in Seq(Timers)
  BY <1>3, <1>13, InsertedIs
<1>17. Typed'
  BY <1>15 DEF Typed, StartTimer
<1>18. Chain = q /\ Chain' = z
  BY <1>15, <1>16, ChainIs, ChainIsThen
<1>19. z = Queue!InsertAt(q, k + 1, t)
  BY <1>3, <1>13, InsertAtIs
<1>20. \A u \in Timers : StopOf(u)' = IF u = t THEN Value(stop) ELSE StopOf(u)
  <2>1. p \in Timers \cup {NULL} /\ n \in Timers \cup {NULL}
    BY <1>3, <1>6, <1>7, <1>8
  <2>2. /\ timer' \in [Timers -> Nodes]
        /\ timer'[t].next = n /\ timer'[t].prev = p /\ timer'[t].stop_time = stop
        /\ timer'[t] # Idle /\ timer'[t].start_time # Zero
        /\ \A u \in Timers \ {t} :
             /\ timer'[u].next = IF u = p THEN t ELSE timer[u].next
             /\ timer'[u].prev = IF u = n THEN t ELSE timer[u].prev
             /\ timer'[u].stop_time = timer[u].stop_time
             /\ timer'[u].start_time = timer[u].start_time
             /\ timer'[u] # Idle <=> timer[u] # Idle \/ u = p \/ u = n
    BY <1>14, <2>1, LinkFields
  <2>. QED  BY <2>2 DEF StopOf, Value, USec
<1>21. ~Queue!IsArmed(t)
  BY <1>4, ArmedIsStarted
<1>22. PICK timeout1 : timeout1 = Milli * ms
  OBVIOUS
<1>23. \E i \in 1 .. Len(q) + 1 :
          /\ \A j \in 1 .. Len(q) : j < i <=> StopOf(q[j]) <= now + timeout1
          /\ z = Queue!InsertAt(q, i, t)
  <2>1. PICK i \in 1 .. m + 1 : i = k + 1
    OBVIOUS
  <2>2. \A j \in 1 .. m : j < i <=> j <= k
    BY <2>1
  <2>3. \A j \in 1 .. m : j < i <=> StopOf(q[j]) <= now + timeout1
    BY <1>2, <1>5, <1>22, <2>2
  <2>. QED  BY <1>3, <1>19, <2>1, <2>3
<1>24. PICK D : D = [u \in Timers |-> Value(timer[u].stop_time)]
  OBVIOUS
<1>25. \A j \in 1 .. Len(q) : D[q[j]] = StopOf(q[j])
  BY <1>3, <1>8, <1>24 DEF StopOf
<1>26. [u \in Timers |-> Value(timer[u].stop_time)]' = [D EXCEPT ![t] = now + timeout1]
  BY <1>2, <1>20, <1>22, <1>24 DEF StopOf
<1>27. event' = <<"start", t, timeout1>> /\ now' = now
  BY <1>22 DEF StartTimer
<1>28. \E i \in 1 .. Len(q) + 1 :
          /\ \A j \in 1 .. Len(q) : j < i <=> D[q[j]] <= now + timeout1
          /\ z = Queue!InsertAt(q, i, t)
  BY <1>23, <1>25
<1>29. Queue!Start(t, timeout1)
  BY <1>18, <1>21, <1>24, <1>26, <1>27, <1>28 DEF Queue!Start, Chain
<1>. QED  BY <1>15, <1>16, <1>17, <1>22, <1>29

(* Taking the timer at place k out of the list takes it out of the queue. *)
LEMMA RemoveStep ==
  ASSUME Typed, NEW q \in Seq(Timers), Holds(q), NEW k \in 1 .. Len(q), NEW t, t = q[k],
         stop_timer(t), now' = now
  PROVE  /\ Typed' /\ \E z \in Seq(Timers) : Holds(z)'
         /\ Chain' = Queue!RemoveAt(q, k)
         /\ [u \in Timers |-> StopOf(u)]' = [[u \in Timers |-> StopOf(u)] EXCEPT ![t] = 0]
<1>1. PICK m \in Nat : m = Len(q)
  OBVIOUS
<1>2. PICK z : z = Removed(q, k)
  OBVIOUS
<1>3. k \in 1 .. m /\ t \in Timers
  BY <1>1
<1>4. Holds(z)' /\ timer' \in [Timers -> Nodes] /\ Stamped'
  BY <1>1, <1>2, <1>3, UnlinkHolds
<1>5. z \in Seq(Timers) /\ z = Queue!RemoveAt(q, k)
  BY <1>1, <1>2, <1>3, RemovedIs, RemoveAtIs
<1>6. Chain' = z
  BY <1>4, <1>5, ChainIsThen
<1>7. \A u \in Timers : StopOf(u)' = IF u = t THEN 0 ELSE StopOf(u)
  <2>1. t \in Listed
    BY <1>1, <1>3, ListedIs
  <2>2. PICK p \in Timers \cup {NULL}, n \in Timers \cup {NULL} :
          p = timer[t].prev /\ n = timer[t].next
    BY <1>3 DEF Typed, Nodes
  <2>3. /\ timer' \in [Timers -> Nodes]
        /\ timer'[t] = Idle
        /\ \A u \in Timers \ {t} :
             /\ timer'[u].next = IF u = p THEN n ELSE timer[u].next
             /\ timer'[u].prev = IF u = n THEN p ELSE timer[u].prev
             /\ timer'[u].stop_time = timer[u].stop_time
             /\ timer'[u].start_time = timer[u].start_time
             /\ timer[u] # Idle => timer'[u] # Idle
             /\ u # p /\ u # n => timer'[u] = timer[u]
    BY <1>3, <2>1, <2>2, UnlinkFields
  <2>. QED  BY <2>3, IdleStop DEF StopOf, Value, USec
<1>8. [u \in Timers |-> StopOf(u)]' = [[u \in Timers |-> StopOf(u)] EXCEPT ![t] = 0]
  BY <1>7
<1>. QED  BY <1>4, <1>5, <1>6, <1>8 DEF Typed

(* Where the list is left alone, so is the queue. *)
LEMMA SameList ==
  ASSUME TimerInv, UNCHANGED list, now' \in Nat \ {0}
  PROVE  Typed' /\ \E q \in Seq(Timers) : Holds(q) /\ Holds(q)' /\ Chain = q /\ Chain' = q
<1>1. PICK q \in Seq(Timers) : Holds(q)
  BY DEF TimerInv
<1>2. timer_list' = timer_list /\ timer' = timer
  BY DEF list
<1>3. Holds(q)'
  BY <1>1, <1>2 DEF Holds, Once, Linked, Started, Sorted, IsStarted, StopOf, Value, USec,
                    Idle, Zero, TimeVal
<1>4. Chain = q /\ Chain' = q
  BY <1>1, <1>3, ChainIs, ChainIsThen
<1>5. Typed'
  BY <1>2 DEF TimerInv, Typed, Stamped, IsStarted, Idle, Zero, TimeVal, USec
<1>. QED  BY <1>1, <1>3, <1>4, <1>5

-----------------------------------------------------------------------------
LEMMA FirstIsATimer ==
  ASSUME TimerInv, timer_list # NULL
  PROVE  timer_list \in Timers /\ timer[timer_list] \in Nodes
<1>1. PICK q \in Seq(Timers) : Holds(q)
  BY DEF TimerInv
<1>2. PICK m \in Nat : m = Len(q)
  OBVIOUS
<1>3. m # 0 /\ timer_list = q[1]
  BY <1>1, <1>2 DEF Holds, Linked
<1>4. q[1] \in Timers
  BY <1>2, <1>3
<1>. QED  BY <1>3, <1>4 DEF TimerInv, Typed

LEMMA ExpireStep ==
  ASSUME TimerInv, timer_list # NULL, Expire, now' = now,
         Value(timer[timer_list].stop_time) <= now
  PROVE  Typed' /\ (\E z \in Seq(Timers) : Holds(z)') /\ Queue!Fire
<1>1. PICK q \in Seq(Timers) : Holds(q)
  BY DEF TimerInv
<1>2. q # <<>> /\ 1 \in 1 .. Len(q) /\ timer_list = q[1] /\ Head(q) = q[1] /\ q[1] \in Timers
  <2>1. Len(q) # 0
    BY <1>1 DEF Holds, Linked
  <2>. QED  BY <1>1, <2>1 DEF Holds, Linked
<1>3. PICK t : t = q[1]
  OBVIOUS
<1>4. stop_timer(t) /\ event' = <<"fire", t>>
  BY <1>2, <1>3 DEF Expire
<1>5. /\ Typed' /\ \E z \in Seq(Timers) : Holds(z)'
      /\ Chain' = Queue!RemoveAt(q, 1)
      /\ [u \in Timers |-> StopOf(u)]' = [[u \in Timers |-> StopOf(u)] EXCEPT ![t] = 0]
  BY <1>1, <1>2, <1>3, <1>4, RemoveStep DEF TimerInv
<1>6. Chain = q
  BY <1>1, ChainIs
<1>7. PICK D : D = [u \in Timers |-> Value(timer[u].stop_time)]
  OBVIOUS
<1>8. /\ [u \in Timers |-> Value(timer[u].stop_time)]' = [D EXCEPT ![Head(q)] = 0]
      /\ D[Head(q)] <= now
      /\ event' = <<"fire", Head(q)>>
  BY <1>2, <1>3, <1>4, <1>5, <1>7 DEF StopOf
<1>9. Queue!Fire
  BY <1>2, <1>5, <1>6, <1>7, <1>8 DEF Queue!Fire, Chain
<1>. QED  BY <1>5, <1>9

LEMMA StopStep ==
  ASSUME TimerInv, NEW t \in Timers, StopTimer(t)
  PROVE  Typed' /\ (\E z \in Seq(Timers) : Holds(z)') /\ Queue!Stop(t)
<1>1. PICK q \in Seq(Timers) : Holds(q)
  BY DEF TimerInv
<1>2. stop_timer(t) /\ now' = now /\ event' = <<"stop", t>>
  BY DEF StopTimer
<1>3. Chain = q
  BY <1>1, ChainIs
<1>4. PICK D : D = [u \in Timers |-> Value(timer[u].stop_time)]
  OBVIOUS
<1>5. CASE IsStarted(t)
  <2>1. PICK k \in 1 .. Len(q) : q[k] = t
    BY <1>1, <1>5 DEF Holds, Started
  <2>2. /\ Typed' /\ \E z \in Seq(Timers) : Holds(z)'
        /\ Chain' = Queue!RemoveAt(q, k)
        /\ [u \in Timers |-> StopOf(u)]' = [[u \in Timers |-> StopOf(u)] EXCEPT ![t] = 0]
    BY <1>1, <1>2, <2>1, RemoveStep DEF TimerInv
  <2>3. [u \in Timers |-> Value(timer[u].stop_time)]' = [D EXCEPT ![t] = 0]
    BY <1>4, <2>2 DEF StopOf
  <2>4. Queue!Stop(t)
    BY <1>2, <1>3, <1>4, <2>1, <2>2, <2>3 DEF Queue!Stop, Chain
  <2>. QED  BY <2>2, <2>4
<1>6. CASE ~IsStarted(t)
  <2>1. UNCHANGED list
    BY <1>1, <1>2, <1>6, StopOfIdle DEF TimerInv
  <2>2. now' \in Nat \ {0}
    BY <1>2 DEF TimerInv, Typed
  <2>3. Typed' /\ \E z \in Seq(Timers) : Holds(z) /\ Holds(z)' /\ Chain = z /\ Chain' = z
    BY <2>1, <2>2, SameList
  <2>4. Chain' = Chain /\ ~Queue!IsArmed(t)
    BY <1>1, <1>6, <2>3, ArmedIsStarted
  <2>5. [u \in Timers |-> Value(timer[u].stop_time)]' = [D EXCEPT ![t] = 0]
    <3>1. timer' = timer /\ D[t] = 0
      BY <1>4, <1>6, <2>1, IdleStop DEF list, IsStarted
    <3>. QED  BY <1>4, <3>1 DEF Value, USec
  <2>6. Queue!Stop(t)
    BY <1>2, <1>4, <2>4, <2>5 DEF Queue!Stop, Chain
  <2>. QED  BY <2>3, <2>6
<1>. QED  BY <1>5, <1>6

(* Every step keeps the invariant and is one of the queue, or none. *)
LEMMA InitStep == Init => TimerInv /\ Queue!Init
<1>. SUFFICES ASSUME Init
              PROVE  TimerInv /\ Queue!Init
  OBVIOUS
<1>1. PICK q : q = <<>>
  OBVIOUS
<1>2. q \in Seq(Timers) /\ Len(q) = 0
  BY <1>1
<1>3. Idle \in Nodes
  BY TimeValOf DEF Idle, Nodes, Zero
<1>4. Typed
  BY <1>3 DEF Init, Typed, Stamped, IsStarted
<1>5. \A t \in Timers : ~IsStarted(t)
  BY DEF Init, IsStarted
<1>6. Holds(q)
  BY <1>2, <1>5 DEF Init, Holds, Once, Linked, Started, Sorted
<1>7. Chain = <<>>
  BY <1>1, <1>2, <1>6, ChainIs
<1>8. [t \in Timers |-> Value(timer[t].stop_time)] = [t \in Timers |-> 0]
  BY IdleStop DEF Init
<1>9. Queue!Init
  BY <1>7, <1>8 DEF Init, Queue!Init, Chain
<1>10. LegalWait
  BY DEF Init, LegalWait, TimeoutIsLegal
<1>. QED  BY <1>2, <1>4, <1>6, <1>9, <1>10 DEF TimerInv

LEMMA NextStep == TimerInv /\ [Next]_vars => TimerInv' /\ [Queue!Next]_(Queue!vars)
<1>. SUFFICES ASSUME TimerInv, [Next]_vars
              PROVE  TimerInv' /\ [Queue!Next]_(Queue!vars)
  OBVIOUS
<1>1. now \in Nat \ {0} /\ timer \in [Timers -> Nodes] /\ LegalWait
  BY DEF TimerInv, Typed
(* the steps that leave the list and the clock alone *)
<1>2. ASSUME UNCHANGED <<now, list>>
      PROVE  /\ Typed' /\ \E z \in Seq(Timers) : Holds(z)'
             /\ event' = event => UNCHANGED Queue!vars
             /\ Chain' = Chain
             /\ [t \in Timers |-> Value(timer[t].stop_time)]'
                  = [t \in Timers |-> Value(timer[t].stop_time)]
  <2>1. Typed' /\ \E z \in Seq(Timers) : Holds(z) /\ Holds(z)' /\ Chain = z /\ Chain' = z
    BY <1>1, <1>2, SameList
  <2>2. Chain' = Chain
    BY <2>1
  <2>3. [t \in Timers |-> Value(timer[t].stop_time)]' = [t \in Timers |-> Value(timer[t].stop_time)]
    BY <1>2 DEF list, Value, USec
  <2>4. event' = event => UNCHANGED Queue!vars
    BY <1>2, <2>2, <2>3 DEF Queue!vars, Chain
  <2>. QED  BY <2>1, <2>2, <2>3, <2>4
<1>3. ASSUME UNCHANGED <<waiting, timeout>>, ~waiting
      PROVE  LegalWait'
  BY <1>1, <1>3 DEF LegalWait, TimeoutIsLegal, USec
<1>4. ASSUME waiting' = FALSE, timeout' = NULL
      PROVE  LegalWait'
  BY <1>4 DEF LegalWait, TimeoutIsLegal
<1>5. CASE UNCHANGED vars
  <2>1. LegalWait'
    BY <1>1, <1>5 DEF vars, list, LegalWait, TimeoutIsLegal, USec
  <2>. QED  BY <1>2, <1>5, <2>1 DEF vars, TimerInv
<1>6. CASE Tick
  <2>1. now' \in Nat \ {0} /\ now' = now + 1 /\ UNCHANGED list /\ event' = event
        /\ UNCHANGED <<waiting, timeout>>
    BY <1>1, <1>6 DEF Tick
  <2>2. Typed' /\ \E z \in Seq(Timers) : Holds(z) /\ Holds(z)' /\ Chain = z /\ Chain' = z
    BY <2>1, SameList
  <2>3. LegalWait'
    BY <1>1, <2>1 DEF list, LegalWait, TimeoutIsLegal, USec
  <2>4. [t \in Timers |-> Value(timer[t].stop_time)]' = [t \in Timers |-> Value(timer[t].stop_time)]
    BY <2>1 DEF list, Value, USec
  <2>5. Chain' = Chain
    BY <2>2
  <2>6. Queue!Tick
    BY <2>1, <2>4, <2>5 DEF Queue!Tick, Chain
  <2>. QED  BY <2>2, <2>3, <2>6 DEF TimerInv, Queue!Next
<1>7. CASE HandleOverdue
  <2>1. /\ timer_list # NULL /\ timeval_before(timer[timer_list].stop_time, TimeVal(now))
        /\ Expire /\ now' = now /\ UNCHANGED <<waiting, timeout>> /\ ~waiting
    BY <1>7 DEF HandleOverdue, Overdue
  <2>2. Value(timer[timer_list].stop_time) <= now
    <3>1. timer[timer_list].stop_time \in TimeVals
      BY <1>1, <2>1, FirstIsATimer DEF Nodes
    <3>2. TimeVal(now) \in TimeVals /\ Value(TimeVal(now)) = now
      BY <1>1, TimeValOf
    <3>3. Value(timer[timer_list].stop_time) \in Nat
      BY <3>1, ValueIsNat
    <3>4. Value(timer[timer_list].stop_time) < Value(TimeVal(now))
      BY <2>1, <3>1, <3>2, BeforeIsLess
    <3>. QED  BY <1>1, <3>2, <3>3, <3>4
  <2>3. Typed' /\ (\E z \in Seq(Timers) : Holds(z)') /\ Queue!Fire
    BY <2>1, <2>2, ExpireStep
  <2>. QED  BY <1>3, <2>1, <2>3 DEF TimerInv, Queue!Next
<1>8. CASE CallSelect
  <2>1. UNCHANGED <<now, list>> /\ event' = event
    BY <1>8 DEF CallSelect
  <2>2. LegalWait'
    <3>1. CASE timer_list = NULL
      BY <1>8, <3>1 DEF CallSelect, LegalWait, TimeoutIsLegal
    <3>2. CASE timer_list # NULL
      <4>1. PICK stop \in TimeVals : stop = timer[timer_list].stop_time
        BY <1>1, <3>2, FirstIsATimer DEF Nodes
      <4>2. TimeVal(now) \in TimeVals /\ Value(TimeVal(now)) = now
        BY <1>1, TimeValOf
      <4>3. ~(Value(stop) < now)
        BY <1>8, <3>2, <4>1, <4>2, BeforeIsLess DEF CallSelect, Overdue
      <4>4. now <= Value(stop)
        BY <1>1, <4>3, ValueIsNat
      <4>5. Remaining(stop).tv_sec >= 0 /\ Remaining(stop).tv_usec \in 0 .. USec - 1
        BY <1>1, <4>4, RemainingIsLegal
      <4>6. timeout' = Remaining(stop) /\ waiting' = TRUE /\ timer_list' = timer_list
        BY <1>8, <3>2, <4>1 DEF CallSelect, list
      <4>. QED  BY <3>2, <4>5, <4>6 DEF LegalWait, TimeoutIsLegal, USec
    <3>. QED  BY <3>1, <3>2
  <2>. QED  BY <1>2, <2>1, <2>2 DEF TimerInv
<1>9. CASE SelectTimesOut
  <2>1. /\ timer_list # NULL /\ Expire /\ now' = now /\ waiting' = FALSE /\ timeout' = NULL
        /\ Value(timer[timer_list].stop_time) <= now
    BY <1>1, <1>9 DEF SelectTimesOut, LegalWait
  <2>2. Typed' /\ (\E z \in Seq(Timers) : Holds(z)') /\ Queue!Fire
    BY <2>1, ExpireStep
  <2>. QED  BY <1>4, <2>1, <2>2 DEF TimerInv, Queue!Next
<1>10. CASE SelectFindsFds
  <2>1. UNCHANGED <<now, list>> /\ event' = event /\ waiting' = FALSE /\ timeout' = NULL
    BY <1>10 DEF SelectFindsFds
  <2>. QED  BY <1>2, <1>4, <2>1 DEF TimerInv
<1>11. ASSUME NEW t \in Timers, StopTimer(t)
       PROVE  TimerInv' /\ [Queue!Next]_(Queue!vars)
  <2>1. Typed' /\ (\E z \in Seq(Timers) : Holds(z)') /\ Queue!Stop(t)
    BY <1>11, StopStep
  <2>2. UNCHANGED <<waiting, timeout>> /\ ~waiting
    BY <1>11 DEF StopTimer
  <2>. QED  BY <1>3, <2>1, <2>2 DEF TimerInv, Queue!Next
<1>12. ASSUME NEW t \in Timers, NEW ms \in Timeouts, StartTimer(t, ms)
       PROVE  TimerInv' /\ [Queue!Next]_(Queue!vars)
  <2>1. Typed' /\ (\E z \in Seq(Timers) : Holds(z)') /\ Queue!Start(t, Milli * ms)
    BY <1>12, StartStep DEF TimerInv
  <2>2. UNCHANGED <<waiting, timeout>> /\ ~waiting
    BY <1>12 DEF StartTimer
  <2>. QED  BY <1>3, <2>1, <2>2 DEF TimerInv, Queue!Next
<1>13. ASSUME NEW t \in Timers, NEW ms \in Timeouts, StartStartedTimer(t, ms)
       PROVE  TimerInv' /\ [Queue!Next]_(Queue!vars)
  <2>1. UNCHANGED <<now, list, waiting, timeout>> /\ ~waiting /\ IsStarted(t)
        /\ event' = <<"start", t, Milli * ms>>
    BY <1>13 DEF StartStartedTimer
  <2>2. Queue!IsArmed(t)
    BY <2>1, ArmedIsStarted DEF TimerInv
  <2>3. Queue!StartAgain(t, Milli * ms)
    BY <1>2, <2>1, <2>2 DEF Queue!StartAgain, Chain
  <2>. QED  BY <1>2, <1>3, <2>1, <2>3 DEF TimerInv, Queue!Next
<1>. QED  BY <1>5, <1>6, <1>7, <1>8, <1>9, <1>10, <1>11, <1>12, <1>13 DEF Next, HandleEvent

LEMMA AlwaysTimerInv == Spec => []TimerInv
BY InitStep, NextStep, PTL DEF Spec

(* The list that start_timer and stop_timer link by hand is sound after any   *)
(* calls: next and prev agree, it ends, and it holds just the started timers. *)
THEOREM TimerListIsSound == Spec => []ListIsSound
<1>1. ASSUME TimerInv
      PROVE  ListIsSound
  <2>1. PICK q \in Seq(Timers) : Holds(q)
    BY <1>1 DEF TimerInv
  <2>2. PICK m \in Nat, N \in Nat : m = Len(q) /\ N = Cardinality(Timers)
    BY TimersAssumption, FS_CardinalityType
  <2>3. /\ m <= N
        /\ \A i \in 1 .. N + 1 : Walk[i] = IF i <= m THEN q[i] ELSE NULL
    BY <2>1, <2>2, WalkIs
  <2>4. /\ Listed = {q[i] : i \in 1 .. m}
        /\ \A t \in Timers : t \in Listed <=> IsStarted(t)
    BY <2>1, <2>2, ListedIs
  <2>5. /\ timer_list = IF m = 0 THEN NULL ELSE q[1]
        /\ \A i \in 1 .. m : /\ timer[q[i]].next = IF i = m THEN NULL ELSE q[i + 1]
                             /\ timer[q[i]].prev = IF i = 1 THEN NULL ELSE q[i - 1]
    BY <2>1, <2>2 DEF Holds, Linked
  <2>6. timer_list # NULL => timer[timer_list].prev = NULL
    <3>1. m # 0 => 1 \in 1 .. m
      OBVIOUS
    <3>. QED  BY <2>5, <3>1
  <2>7. ASSUME NEW t \in Listed, timer[t].next # NULL
        PROVE  timer[timer[t].next].prev = t
    <3>1. PICK i \in 1 .. m : t = q[i]
      BY <2>4
    <3>2. i # m /\ timer[t].next = q[i + 1]
      BY <2>5, <2>7, <3>1
    <3>3. i + 1 \in 1 .. m /\ i + 1 # 1 /\ (i + 1) - 1 = i
      BY <3>2
    <3>. QED  BY <2>5, <3>1, <3>2, <3>3
  <2>8. Walk[N + 1] = NULL
    <3>1. N + 1 \in 1 .. N + 1 /\ ~(N + 1 <= m)
      BY <2>3
    <3>. QED  BY <2>3, <3>1
  <2>9. Listed \subseteq Timers
    BY <2>2, <2>4
  <2>10. Listed = {t \in Timers : IsStarted(t)}
    BY <2>4, <2>9
  <2>. QED  BY <2>2, <2>6, <2>7, <2>8, <2>10 DEF ListIsSound
<1>. QED  BY <1>1, AlwaysTimerInv, PTL

(* What handle_event passes to select() is a legal time, whatever the clock   *)
(* shows and however late the loop comes back to it.                          *)
THEOREM SelectGetsALegalTime == Spec => []TimeoutIsLegal
<1>1. TimerInv => TimeoutIsLegal
  BY DEF TimerInv, LegalWait
<1>. QED  BY <1>1, AlwaysTimerInv, PTL

(* The linked list is a queue of deadlines: a timer fires at most once for    *)
(* each start and not before its deadline, the first one goes first, and      *)
(* those with the same deadline go in the order of the calls of start_timer.  *)
THEOREM TimersAreAQueue == Spec => IsTimerQueue
<1>1. Init => Queue!Init
  BY InitStep
<1>2. TimerInv /\ [Next]_vars => [Queue!Next]_(Queue!vars)
  BY NextStep
<1>. QED  BY <1>1, <1>2, AlwaysTimerInv, PTL DEF Spec, IsTimerQueue, Queue!Spec
=============================================================================
