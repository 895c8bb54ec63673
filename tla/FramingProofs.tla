--------------------------- MODULE FramingProofs ---------------------------
(***************************************************************************)
(* Proofs about the framing of messages, for messages of any length that   *)
(* fits, any buffer and any number of connections: what recv() has left in *)
(* the buffer and what is still on the wire are together whole messages in *)
(* order, however the stream is cut.                                       *)
(***************************************************************************)
EXTENDS Framing, SequenceTheorems, TLAPS

(* The two sides agree on the size of a message, and it fits. *)
LEMMA Sizes ==
  ASSUME NEW length \in Lengths
  PROVE  /\ SentSize(length) = Consumed(length)
         /\ SentSize(length) \in Nat /\ length \in Nat
         /\ 4 + length <= SentSize(length)
         /\ SentSize(length) <= BuffSize
<1>1. length \in Nat /\ 4 + length < Width /\ Width \in Nat /\ BuffSize \in Nat
  BY BoundsAssumption, LengthsAssumption DEF IsModest
<1>2. (4 + length) % Width = 4 + length
  BY <1>1
<1>3. PICK size \in Nat : size = 4 + length
  BY <1>1
<1>4. padded_message_size(size) \in Nat /\ size <= padded_message_size(size)
  <2>1. size % 4 \in 0 .. 3
    BY <1>3
  <2>. QED  BY <1>3, <2>1 DEF padded_message_size
<1>5. padded_message_size(4 + length) <= BuffSize
  BY LengthsAssumption DEF IsModest
<1>. QED  BY <1>1, <1>2, <1>3, <1>4, <1>5 DEF SentSize, Consumed

LEMMA SizeOf ==
  ASSUME NEW sizes \in Seq(Lengths), NEW k \in 1 .. Len(sizes)
  PROVE  \E size \in Nat : size = SentSize(sizes[k]) /\ size >= 4
<1>1. PICK length \in Lengths : length = sizes[k]
  OBVIOUS
<1>2. length \in Nat /\ SentSize(length) \in Nat /\ 4 + length <= SentSize(length)
  BY Sizes
<1>. QED  BY <1>1, <1>2

-----------------------------------------------------------------------------
(***************************************************************************)
(* Streams of messages.                                                    *)
(***************************************************************************)
\* The byte at place i of s is the one at place d of message k.
At(s, i, k, d) == s[i] = <<k, d>>

\* From the first byte of a message of the given size on, its bytes follow in
\* their places, and behind the last one the next message begins.
Follows(s, size, i, k) ==
  /\ \A d \in 0 .. (size - 1) : i + d <= Len(s) => At(s, i + d, k, d)
  /\ i + size <= Len(s) => At(s, i + size, k + 1, 0)

Blocks(s, sizes) ==
  /\ s \in Seq(Nat \X Nat)
  /\ \A i \in 1 .. Len(s) : s[i][1] \in 1 .. Len(sizes)
  /\ \A i \in 1 .. Len(s), k \in 1 .. Len(sizes) :
       At(s, i, k, 0) => Follows(s, SentSize(sizes[k]), i, k)

\* A message that begins at i ends in s, and if s ends with it, it is the last.
Ends(s, size, i, isLast) ==
  /\ i + size <= Len(s) + 1
  /\ i + size = Len(s) + 1 => isLast

\* Every message is there to its last byte, and the last one sent is the last.
Complete(s, sizes) ==
  \A i \in 1 .. Len(s), k \in 1 .. Len(sizes) :
    At(s, i, k, 0) => Ends(s, SentSize(sizes[k]), i, k = Len(sizes))

(* What is left when the end of a stream is lost. *)
LEMMA PrefixFollows ==
  ASSUME NEW s, NEW t, NEW m \in Nat, NEW n \in 0 .. m, m = Len(s), n = Len(t),
         \A j \in 1 .. n : t[j] = s[j],
         NEW size \in Nat, NEW i \in 1 .. n, NEW k \in Nat, Follows(s, size, i, k)
  PROVE  Follows(t, size, i, k)
<1>1. ASSUME NEW j \in 1 .. n, NEW x, NEW y, At(s, j, x, y)
      PROVE  At(t, j, x, y)
  BY <1>1 DEF At
<1>2. \A d \in 0 .. (size - 1) : i + d <= n => At(t, i + d, k, d)
  BY <1>1 DEF Follows
<1>3. i + size <= n => At(t, i + size, k + 1, 0)
  BY <1>1 DEF Follows
<1>. QED  BY <1>2, <1>3 DEF Follows

LEMMA PrefixBlocks ==
  ASSUME NEW sizes \in Seq(Lengths), NEW s, Blocks(s, sizes), NEW n \in 0 .. Len(s)
  PROVE  Blocks(SubSeq(s, 1, n), sizes)
<1>1. PICK t : t = SubSeq(s, 1, n)
  OBVIOUS
<1>2. PICK m \in Nat : m = Len(s)
  BY DEF Blocks
<1>3. /\ n \in 0 .. m
      /\ t \in Seq(Nat \X Nat) /\ Len(t) = n /\ \A i \in 1 .. n : t[i] = s[i]
  <2>1. s \in Seq(Nat \X Nat)
    BY DEF Blocks
  <2>. QED  BY <1>1, <1>2, <2>1
<1>4. ASSUME NEW i \in 1 .. n, NEW k \in 1 .. Len(sizes), At(t, i, k, 0)
      PROVE  Follows(t, SentSize(sizes[k]), i, k)
  <2>1. PICK size \in Nat : size = SentSize(sizes[k]) /\ size >= 4
    BY SizeOf
  <2>2. i \in 1 .. m /\ At(s, i, k, 0)
    BY <1>3, <1>4 DEF At
  <2>3. Follows(s, size, i, k)
    BY <1>2, <2>1, <2>2 DEF Blocks
  <2>4. k \in Nat
    OBVIOUS
  <2>5. Follows(t, size, i, k)
    BY <1>2, <1>3, <2>3, <2>4, PrefixFollows
  <2>. QED  BY <2>1, <2>5
<1>5. \A i \in 1 .. n : t[i][1] \in 1 .. Len(sizes)
  <2>. SUFFICES ASSUME NEW i \in 1 .. n
                PROVE  t[i][1] \in 1 .. Len(sizes)
    OBVIOUS
  <2>1. i \in 1 .. m
    BY <1>3
  <2>. QED  BY <1>2, <1>3, <2>1 DEF Blocks
<1>. QED  BY <1>1, <1>3, <1>4, <1>5 DEF Blocks

(* What is left when the beginning of a stream is taken. *)
LEMMA SuffixFollows ==
  ASSUME NEW s, NEW t, NEW m \in Nat, NEW n \in 0 .. m, m = Len(s), Len(t) = m - n,
         \A j \in 1 .. m - n : t[j] = s[n + j],
         NEW size \in Nat, NEW i \in 1 .. m - n, NEW k \in Nat
  PROVE  /\ Follows(s, size, n + i, k) => Follows(t, size, i, k)
         /\ \A isLast : Ends(s, size, n + i, isLast) => Ends(t, size, i, isLast)
<1>1. ASSUME NEW j \in 1 .. m - n, NEW x, NEW y, At(s, n + j, x, y)
      PROVE  At(t, j, x, y)
  BY <1>1 DEF At
<1>2. ASSUME Follows(s, size, n + i, k), NEW d \in 0 .. (size - 1), i + d <= m - n
      PROVE  At(t, i + d, k, d)
  <2>1. PICK j \in 1 .. m - n : j = i + d
    BY <1>2
  <2>2. n + i + d <= m /\ n + i + d = n + j
    BY <2>1
  <2>3. At(s, n + i + d, k, d)
    BY <1>2, <2>2 DEF Follows
  <2>. QED  BY <1>1, <2>1, <2>2, <2>3
<1>3. ASSUME Follows(s, size, n + i, k), i + size <= m - n
      PROVE  At(t, i + size, k + 1, 0)
  <2>1. PICK j \in 1 .. m - n : j = i + size
    BY <1>3
  <2>2. n + i + size <= m /\ n + i + size = n + j
    BY <2>1
  <2>3. At(s, n + i + size, k + 1, 0)
    BY <1>3, <2>2 DEF Follows
  <2>. QED  BY <1>1, <2>1, <2>2, <2>3
<1>4. \A isLast : Ends(s, size, n + i, isLast) => Ends(t, size, i, isLast)
  BY DEF Ends
<1>. QED  BY <1>2, <1>3, <1>4 DEF Follows

LEMMA SuffixBlocks ==
  ASSUME NEW sizes \in Seq(Lengths), NEW s, Blocks(s, sizes), NEW n \in 0 .. Len(s)
  PROVE  /\ Blocks(SubSeq(s, n + 1, Len(s)), sizes)
         /\ Complete(s, sizes) => Complete(SubSeq(s, n + 1, Len(s)), sizes)
<1>1. PICK t : t = SubSeq(s, n + 1, Len(s))
  OBVIOUS
<1>2. PICK m \in Nat : m = Len(s)
  BY DEF Blocks
<1>3. s \in Seq(Nat \X Nat) /\ n \in 0 .. m
  BY <1>2 DEF Blocks
<1>4. t \in Seq(Nat \X Nat) /\ Len(t) = m - n /\ \A i \in 1 .. m - n : t[i] = s[n + i]
  <2>1. \A i \in (n + 1) .. m : s[i] \in Nat \X Nat
    BY <1>2, <1>3
  <2>2. /\ SubSeq(s, n + 1, m) \in Seq(Nat \X Nat)
        /\ Len(SubSeq(s, n + 1, m)) = IF n + 1 <= m THEN m - (n + 1) + 1 ELSE 0
        /\ \A i \in 1 .. m - (n + 1) + 1 : SubSeq(s, n + 1, m)[i] = s[n + 1 + i - 1]
    BY <1>2, <1>3, <2>1, SubSeqProperties
  <2>3. Len(t) = m - n
    BY <1>1, <1>2, <1>3, <2>2
  <2>4. ASSUME NEW i \in 1 .. m - n
        PROVE  t[i] = s[n + i]
    <3>1. i \in 1 .. m - (n + 1) + 1 /\ n + 1 + i - 1 = n + i
      BY <1>2, <1>3
    <3>. QED  BY <1>1, <1>2, <2>2, <3>1
  <2>. QED  BY <1>1, <1>2, <2>2, <2>3, <2>4
<1>5. ASSUME NEW i \in 1 .. m - n, NEW k \in 1 .. Len(sizes), At(t, i, k, 0)
      PROVE  /\ Follows(t, SentSize(sizes[k]), i, k)
             /\ Complete(s, sizes) => Ends(t, SentSize(sizes[k]), i, k = Len(sizes))
  <2>1. PICK size \in Nat : size = SentSize(sizes[k]) /\ size >= 4
    BY SizeOf
  <2>2. n + i \in 1 .. m
    BY <1>2, <1>3
  <2>3. At(s, n + i, k, 0)
    BY <1>4, <1>5 DEF At
  <2>4. Follows(s, size, n + i, k)
    BY <1>2, <2>1, <2>2, <2>3 DEF Blocks
  <2>5. Complete(s, sizes) => Ends(s, size, n + i, k = Len(sizes))
    BY <1>2, <2>1, <2>2, <2>3 DEF Complete
  <2>6. k \in Nat
    OBVIOUS
  <2>7. /\ Follows(s, size, n + i, k) => Follows(t, size, i, k)
        /\ \A isLast : Ends(s, size, n + i, isLast) => Ends(t, size, i, isLast)
    BY <1>2, <1>3, <1>4, <2>6, SuffixFollows
  <2>. QED  BY <2>1, <2>4, <2>5, <2>7
<1>6. \A i \in 1 .. m - n : t[i][1] \in 1 .. Len(sizes)
  <2>. SUFFICES ASSUME NEW i \in 1 .. m - n
                PROVE  t[i][1] \in 1 .. Len(sizes)
    OBVIOUS
  <2>1. n + i \in 1 .. m
    BY <1>2, <1>3
  <2>. QED  BY <1>2, <1>4, <2>1 DEF Blocks
<1>. QED  BY <1>1, <1>2, <1>4, <1>5, <1>6 DEF Blocks, Complete

(* What send_message adds to a complete stream. *)
LEMMA OldFollows ==
  ASSUME NEW s, NEW t, NEW m \in Nat, NEW p \in Nat, p >= 4, m = Len(s), Len(t) = m + p,
         \A j \in 1 .. m : t[j] = s[j],
         NEW K \in Nat, At(t, m + 1, K + 1, 0),
         NEW size \in Nat, NEW i \in 1 .. m, NEW k \in Nat,
         Follows(s, size, i, k), Ends(s, size, i, k = K)
  PROVE  Follows(t, size, i, k) /\ Ends(t, size, i, k = K + 1)
<1>1. i + size <= m + 1 /\ (i + size = m + 1 => k = K)
  BY DEF Ends
<1>2. ASSUME NEW d \in 0 .. (size - 1)
      PROVE  At(t, i + d, k, d)
  <2>1. i + d \in 1 .. m
    BY <1>1
  <2>2. At(s, i + d, k, d)
    BY <2>1 DEF Follows
  <2>. QED  BY <2>1, <2>2 DEF At
<1>3. At(t, i + size, k + 1, 0)
  <2>1. CASE i + size = m + 1
    BY <1>1, <2>1
  <2>2. CASE i + size # m + 1
    <3>1. i + size \in 1 .. m
      BY <1>1, <2>2
    <3>2. At(s, i + size, k + 1, 0)
      BY <3>1 DEF Follows
    <3>. QED  BY <3>1, <3>2 DEF At
  <2>. QED  BY <2>1, <2>2
<1>4. i + size <= m + p + 1 /\ i + size # m + p + 1
  BY <1>1
<1>. QED  BY <1>2, <1>3, <1>4 DEF Follows, Ends

LEMMA SentBlocks ==
  ASSUME NEW sizes \in Seq(Lengths), NEW s, Blocks(s, sizes), Complete(s, sizes),
         NEW length \in Lengths
  PROVE  /\ Blocks(s \o Bytes(Len(sizes) + 1, SentSize(length)), Append(sizes, length))
         /\ Complete(s \o Bytes(Len(sizes) + 1, SentSize(length)), Append(sizes, length))
<1>1. PICK p \in Nat : p = SentSize(length) /\ p >= 4
  <2>1. length \in Nat /\ SentSize(length) \in Nat /\ 4 + length <= SentSize(length)
    BY Sizes
  <2>. QED  BY <2>1
<1>2. PICK m \in Nat : m = Len(s)
  BY DEF Blocks
<1>3. PICK K \in Nat : K = Len(sizes)
  OBVIOUS
<1>4. PICK more : more = Append(sizes, length)
  OBVIOUS
<1>5. PICK b : b = Bytes(K + 1, p)
  OBVIOUS
<1>6. PICK t : t = s \o b
  OBVIOUS
<1>7. s \in Seq(Nat \X Nat)
  BY DEF Blocks
<1>8. /\ b \in Seq(Nat \X Nat) /\ Len(b) = p
      /\ \A j \in 1 .. p : b[j] = <<K + 1, j - 1>>
  <2>1. \A j \in 1 .. p : <<K + 1, j - 1>> \in Nat \X Nat
    OBVIOUS
  <2>2. b \in [1 .. p -> Nat \X Nat] /\ \A j \in 1 .. p : b[j] = <<K + 1, j - 1>>
    BY <1>5, <2>1 DEF Bytes
  <2>3. b \in Seq(Nat \X Nat)
    BY <2>2, SeqDef
  <2>4. DOMAIN b = 1 .. p /\ DOMAIN b = 1 .. Len(b) /\ Len(b) \in Nat
    BY <2>2, <2>3, LenProperties
  <2>5. Len(b) = p
    BY <2>4
  <2>. QED  BY <2>2, <2>3, <2>5
<1>9. /\ t \in Seq(Nat \X Nat) /\ Len(t) = m + p
      /\ \A i \in 1 .. m + p : t[i] = IF i <= m THEN s[i] ELSE b[i - m]
  BY <1>2, <1>6, <1>7, <1>8, ConcatProperties
<1>10. \A i \in 1 .. m : t[i] = s[i]
  BY <1>9
<1>11. \A i \in (m + 1) .. (m + p) : t[i] = <<K + 1, i - m - 1>>
  <2>. SUFFICES ASSUME NEW i \in (m + 1) .. (m + p)
                PROVE  t[i] = <<K + 1, i - m - 1>>
    OBVIOUS
  <2>1. i \in 1 .. m + p /\ ~(i <= m) /\ i - m \in 1 .. p
    OBVIOUS
  <2>. QED  BY <1>8, <1>9, <2>1
<1>12. /\ more \in Seq(Lengths) /\ Len(more) = K + 1 /\ more[K + 1] = length
       /\ \A k \in 1 .. K : more[k] = sizes[k]
  BY <1>3, <1>4, AppendProperties
<1>13. ASSUME NEW i \in 1 .. m + p
       PROVE  t[i][1] \in 1 .. K + 1
  <2>1. CASE i <= m
    <3>1. i \in 1 .. m
      BY <2>1
    <3>2. s[i][1] \in 1 .. K
      BY <1>2, <1>3, <3>1 DEF Blocks
    <3>3. t[i][1] \in 1 .. K
      BY <1>10, <3>1, <3>2
    <3>. QED  BY <3>3
  <2>2. CASE ~(i <= m)
    <3>1. i \in (m + 1) .. (m + p)
      BY <2>2
    <3>2. t[i][1] = K + 1
      BY <1>11, <3>1
    <3>. QED  BY <3>2
  <2>. QED  BY <2>1, <2>2
<1>14. ASSUME NEW i \in 1 .. m + p, NEW k \in 1 .. K + 1, At(t, i, k, 0)
       PROVE  /\ Follows(t, SentSize(more[k]), i, k)
              /\ Ends(t, SentSize(more[k]), i, k = K + 1)
  <2>1. CASE i <= m
    <3>1. i \in 1 .. m
      BY <2>1
    <3>2. s[i][1] \in 1 .. K /\ s[i] = <<k, 0>>
      BY <1>2, <1>3, <1>10, <1>14, <3>1 DEF Blocks, At
    <3>3. k \in 1 .. K /\ At(s, i, k, 0) /\ k \in Nat
      BY <3>2 DEF At
    <3>4. PICK size \in Nat : size = SentSize(sizes[k]) /\ size >= 4
      BY <1>3, <3>3, SizeOf
    <3>5. Follows(s, size, i, k) /\ Ends(s, size, i, k = K)
      BY <1>2, <1>3, <3>1, <3>3, <3>4 DEF Blocks, Complete
    <3>6. At(t, m + 1, K + 1, 0)
      <4>1. m + 1 \in (m + 1) .. (m + p) /\ (m + 1) - m - 1 = 0
        BY <1>1
      <4>. QED  BY <1>11, <4>1 DEF At
    <3>7. Follows(t, size, i, k) /\ Ends(t, size, i, k = K + 1)
      <4>1. /\ p >= 4 /\ m = Len(s) /\ Len(t) = m + p /\ i \in 1 .. m /\ k \in Nat
            /\ \A j \in 1 .. m : t[j] = s[j]
        BY <1>1, <1>2, <1>9, <1>10, <3>1, <3>3
      <4>. QED  BY <4>1, <3>5, <3>6, OldFollows, SMTT(40)
    <3>. QED  BY <1>12, <3>3, <3>4, <3>7
  <2>2. CASE ~(i <= m)
    <3>1. i \in (m + 1) .. (m + p)
      BY <2>2
    <3>2. <<K + 1, i - m - 1>> = <<k, 0>>
      BY <1>11, <1>14, <3>1 DEF At
    <3>3. k = K + 1 /\ i = m + 1
      BY <3>1, <3>2
    <3>4. ASSUME NEW d \in 0 .. (p - 1)
          PROVE  At(t, i + d, k, d)
      <4>1. i + d \in (m + 1) .. (m + p) /\ (i + d) - m - 1 = d
        BY <3>3
      <4>. QED  BY <1>11, <3>3, <4>1 DEF At
    <3>5. ~(i + p <= m + p) /\ i + p = m + p + 1
      BY <3>3
    <3>6. Follows(t, p, i, k) /\ Ends(t, p, i, k = K + 1)
      BY <1>9, <3>3, <3>4, <3>5 DEF Follows, Ends
    <3>. QED  BY <1>1, <1>12, <3>3, <3>6
  <2>. QED  BY <2>1, <2>2
<1>15. Blocks(t, more)
  BY <1>9, <1>12, <1>13, <1>14 DEF Blocks
<1>16. Complete(t, more)
  BY <1>9, <1>12, <1>14 DEF Complete
<1>. QED  BY <1>1, <1>3, <1>4, <1>5, <1>6, <1>15, <1>16

-----------------------------------------------------------------------------
(***************************************************************************)
(* Cutting a stream that lies in two pieces.                               *)
(***************************************************************************)
LEMMA Pieces ==
  ASSUME NEW S, NEW s \in Seq(S), NEW n \in 0 .. Len(s)
  PROVE  /\ SubSeq(s, 1, n) \in Seq(S) /\ Len(SubSeq(s, 1, n)) = n
         /\ \A i \in 1 .. n : SubSeq(s, 1, n)[i] = s[i]
         /\ SubSeq(s, n + 1, Len(s)) \in Seq(S) /\ Len(SubSeq(s, n + 1, Len(s))) = Len(s) - n
         /\ \A i \in 1 .. Len(s) - n : SubSeq(s, n + 1, Len(s))[i] = s[n + i]
         /\ SubSeq(s, 1, n) \o SubSeq(s, n + 1, Len(s)) = s
<1>1. PICK m \in Nat : m = Len(s)
  OBVIOUS
<1>2. n \in 0 .. m /\ \A i \in 1 .. m : s[i] \in S
  BY <1>1
<1>3. /\ SubSeq(s, 1, n) \in Seq(S)
      /\ Len(SubSeq(s, 1, n)) = IF 1 <= n THEN n - 1 + 1 ELSE 0
      /\ \A i \in 1 .. n - 1 + 1 : SubSeq(s, 1, n)[i] = s[1 + i - 1]
  BY <1>1, <1>2, SubSeqProperties
<1>4. /\ SubSeq(s, n + 1, m) \in Seq(S)
      /\ Len(SubSeq(s, n + 1, m)) = IF n + 1 <= m THEN m - (n + 1) + 1 ELSE 0
      /\ \A i \in 1 .. m - (n + 1) + 1 : SubSeq(s, n + 1, m)[i] = s[n + 1 + i - 1]
  BY <1>1, <1>2, SubSeqProperties
<1>5. ASSUME NEW i \in 1 .. n
      PROVE  SubSeq(s, 1, n)[i] = s[i]
  <2>1. i \in 1 .. n - 1 + 1 /\ 1 + i - 1 = i
    BY <1>2
  <2>. QED  BY <1>3, <2>1
<1>6. ASSUME NEW i \in 1 .. m - n
      PROVE  SubSeq(s, n + 1, m)[i] = s[n + i]
  <2>1. i \in 1 .. m - (n + 1) + 1 /\ n + 1 + i - 1 = n + i
    BY <1>2
  <2>. QED  BY <1>4, <2>1
<1>7. SubSeq(s, 1, n) \o SubSeq(s, n + 1, m) = s
  <2>1. 1 \in 1 .. m + 1 /\ n \in 1 - 1 .. m /\ m \in n .. m
    BY <1>2
  <2>2. SubSeq(s, 1, n) \o SubSeq(s, n + 1, m) = SubSeq(s, 1, m)
    BY <1>1, <2>1, ConcatAdjacentSubSeq
  <2>. QED  BY <1>1, <2>2, SubSeqFull
<1>8. Len(SubSeq(s, 1, n)) = n /\ Len(SubSeq(s, n + 1, m)) = m - n
  BY <1>2, <1>3, <1>4
<1>. QED  BY <1>1, <1>3, <1>4, <1>5, <1>6, <1>7, <1>8

LEMMA CutSecond ==
  ASSUME NEW S, NEW b \in Seq(S), NEW w \in Seq(S), NEW n \in 0 .. Len(w)
  PROVE  (b \o SubSeq(w, 1, n)) \o SubSeq(w, n + 1, Len(w)) = b \o w
<1>1. PICK x, y : x = SubSeq(w, 1, n) /\ y = SubSeq(w, n + 1, Len(w))
  OBVIOUS
<1>2. x \in Seq(S) /\ y \in Seq(S)
  BY <1>1, Pieces
<1>3. x \o y = w
  BY <1>1, Pieces
<1>4. (b \o x) \o y = b \o (x \o y)
  BY <1>2
<1>. QED  BY <1>1, <1>3, <1>4

(* The two pieces of x = b \o w, and those of x cut at any place. *)
LEMMA Joined ==
  ASSUME NEW S, NEW b \in Seq(S), NEW w \in Seq(S), NEW x, x = b \o w,
         NEW p \in Nat, NEW q \in Nat, p = Len(b), q = Len(w)
  PROVE  /\ x \in Seq(S) /\ Len(x) = p + q
         /\ \A i \in 1 .. p : x[i] = b[i]
         /\ \A i \in 1 .. q : x[p + i] = w[i]
<1>1. /\ b \o w \in Seq(S) /\ Len(b \o w) = Len(b) + Len(w)
      /\ \A i \in 1 .. Len(b) + Len(w) :
           (b \o w)[i] = IF i <= Len(b) THEN b[i] ELSE w[i - Len(b)]
  BY ConcatProperties
<1>2. \A i \in 1 .. p + q : x[i] = IF i <= p THEN b[i] ELSE w[i - p]
  BY <1>1
<1>3. ASSUME NEW i \in 1 .. p
      PROVE  x[i] = b[i]
  BY <1>2
<1>4. ASSUME NEW i \in 1 .. q
      PROVE  x[p + i] = w[i]
  <2>1. p + i \in 1 .. p + q /\ ~(p + i <= p) /\ (p + i) - p = i
    OBVIOUS
  <2>. QED  BY <1>2, <2>1
<1>. QED  BY <1>1, <1>3, <1>4

LEMMA CutFirst ==
  ASSUME NEW S, NEW b \in Seq(S), NEW w \in Seq(S), NEW n \in 0 .. Len(b)
  PROVE  SubSeq(b, n + 1, Len(b)) \o w = SubSeq(b \o w, n + 1, Len(b \o w))
<1>1. PICK p \in Nat, q \in Nat : p = Len(b) /\ q = Len(w)
  OBVIOUS
<1>2. PICK x : x = b \o w
  OBVIOUS
<1>3. /\ x \in Seq(S) /\ Len(x) = p + q
      /\ \A i \in 1 .. p : x[i] = b[i]
      /\ \A i \in 1 .. q : x[p + i] = w[i]
  BY <1>1, <1>2, Joined
<1>4. PICK y : y = SubSeq(b, n + 1, Len(b))
  OBVIOUS
<1>5. y \in Seq(S) /\ Len(y) = p - n /\ \A i \in 1 .. p - n : y[i] = b[n + i]
  BY <1>1, <1>4, Pieces
<1>6. PICK z : z = SubSeq(x, n + 1, Len(x))
  OBVIOUS
<1>7. n \in 0 .. p /\ n \in 0 .. Len(x) /\ Len(x) - n = (p + q) - n
  BY <1>1, <1>3
<1>8. z \in Seq(S) /\ Len(z) = (p + q) - n /\ \A i \in 1 .. (p + q) - n : z[i] = x[n + i]
  BY <1>3, <1>6, <1>7, Pieces
<1>9. PICK v : v = y \o w
  OBVIOUS
<1>10. PICK r \in Nat : r = p - n
  BY <1>7
<1>11. /\ v \in Seq(S) /\ Len(v) = r + q
       /\ \A i \in 1 .. r : v[i] = y[i]
       /\ \A i \in 1 .. q : v[r + i] = w[i]
  <2>1. y \in Seq(S) /\ r = Len(y) /\ q = Len(w)
    BY <1>1, <1>5, <1>10
  <2>. QED  BY <1>9, <2>1, Joined
<1>12. ASSUME NEW i \in 1 .. r + q
       PROVE  v[i] = z[i]
  <2>1. i \in 1 .. (p + q) - n
    BY <1>10
  <2>2. CASE i <= r
    <3>1. n + i \in 1 .. p /\ i \in 1 .. r /\ i \in 1 .. p - n
      BY <1>7, <1>10, <2>2
    <3>2. z[i] = x[n + i] /\ x[n + i] = b[n + i]
      BY <1>3, <1>8, <2>1, <3>1
    <3>3. v[i] = y[i] /\ y[i] = b[n + i]
      BY <1>5, <1>11, <3>1
    <3>. QED  BY <3>2, <3>3
  <2>3. CASE ~(i <= r)
    <3>1. PICK j \in 1 .. q : i = r + j /\ n + i = p + j
      BY <1>7, <1>10, <2>3
    <3>2. z[i] = x[n + i] /\ x[p + j] = w[j]
      BY <1>3, <1>8, <2>1
    <3>3. v[r + j] = w[j]
      BY <1>11
    <3>. QED  BY <3>1, <3>2, <3>3
  <2>. QED  BY <2>2, <2>3
<1>13. Len(v) = Len(z) /\ Len(v) = r + q
  BY <1>7, <1>8, <1>10, <1>11
<1>14. v = z
  BY <1>8, <1>11, <1>12, <1>13, SeqEqual
<1>. QED  BY <1>2, <1>4, <1>6, <1>9, <1>14

LEMMA LoseSecond ==
  ASSUME NEW S, NEW b \in Seq(S), NEW w \in Seq(S), NEW n \in 0 .. Len(w)
  PROVE  b \o SubSeq(w, 1, n) = SubSeq(b \o w, 1, Len(b) + n)
<1>1. PICK p \in Nat, q \in Nat : p = Len(b) /\ q = Len(w)
  OBVIOUS
<1>2. PICK x : x = b \o w
  OBVIOUS
<1>3. /\ x \in Seq(S) /\ Len(x) = p + q
      /\ \A i \in 1 .. p : x[i] = b[i]
      /\ \A i \in 1 .. q : x[p + i] = w[i]
  BY <1>1, <1>2, Joined
<1>4. PICK y : y = SubSeq(w, 1, n)
  OBVIOUS
<1>5. y \in Seq(S) /\ Len(y) = n /\ \A i \in 1 .. n : y[i] = w[i]
  BY <1>4, Pieces
<1>6. PICK z : z = SubSeq(x, 1, p + n)
  OBVIOUS
<1>7. n \in 0 .. q /\ p + n \in 0 .. Len(x)
  BY <1>1, <1>3
<1>8. z \in Seq(S) /\ Len(z) = p + n /\ \A i \in 1 .. p + n : z[i] = x[i]
  BY <1>3, <1>6, <1>7, Pieces
<1>9. PICK v : v = b \o y
  OBVIOUS
<1>10. n \in Nat
  BY <1>7
<1>11. /\ v \in Seq(S) /\ Len(v) = p + n
       /\ \A i \in 1 .. p : v[i] = b[i]
       /\ \A i \in 1 .. n : v[p + i] = y[i]
  <2>1. y \in Seq(S) /\ n = Len(y)
    BY <1>5
  <2>. QED  BY <1>1, <1>9, <1>10, <2>1, Joined
<1>12. ASSUME NEW i \in 1 .. p + n
       PROVE  v[i] = z[i]
  <2>1. CASE i <= p
    <3>1. i \in 1 .. p
      BY <2>1
    <3>. QED  BY <1>3, <1>8, <1>11, <3>1
  <2>2. CASE ~(i <= p)
    <3>1. PICK j \in 1 .. n : i = p + j
      BY <1>10, <2>2
    <3>2. j \in 1 .. q
      BY <1>7
    <3>3. v[p + j] = y[j] /\ y[j] = w[j] /\ x[p + j] = w[j]
      BY <1>3, <1>5, <1>11, <3>2
    <3>. QED  BY <1>8, <3>1, <3>3
  <2>. QED  BY <2>1, <2>2
<1>13. v = z
  BY <1>8, <1>11, <1>12, SeqEqual
<1>. QED  BY <1>1, <1>2, <1>4, <1>6, <1>9, <1>13

-----------------------------------------------------------------------------
(***************************************************************************)
(* The invariant.                                                          *)
(***************************************************************************)
\* All that was sent and is not handled yet.
Stream == buffer \o wire

\* The message that is handled next.
NextMessage == Len(delivered) + 1

\* The last connection is closed at the other end, or broken off.
Broken == BreaksOff /\ ~peerOpen

Typed ==
  /\ sent \in Seq(Lengths)
  /\ wire \in Seq(Nat \X Nat) /\ buffer \in Seq(Nat \X Nat)
  /\ delivered \in Seq(Seq(Nat \X Nat))
  /\ parsing \in BOOLEAN /\ peerOpen \in BOOLEAN /\ open \in BOOLEAN
  /\ links \in 1 .. MaxLinks
  /\ Len(buffer) <= BuffSize

\* What was handled are the first messages, and the stream begins with the next.
InStep ==
  /\ Blocks(Stream, sent)
  /\ Len(delivered) <= Len(sent)
  /\ \A k \in 1 .. Len(delivered) : delivered[k] = Bytes(k, 4 + sent[k])
  /\ Len(Stream) > 0 => At(Stream, 1, NextMessage, 0)

NothingLost ==
  ~Broken => /\ Complete(Stream, sent)
             /\ Len(Stream) = 0 => Len(delivered) = Len(sent)

\* Between two calls less than a message is kept.
LessThanOne ==
  ~parsing /\ Len(buffer) >= 4 => Len(buffer) < Consumed(sent[NextMessage])

Closed == ~open => ~peerOpen /\ wire = <<>> /\ ~parsing

FrameInv == Typed /\ InStep /\ NothingLost /\ LessThanOne /\ Closed

-----------------------------------------------------------------------------
(* The bytes of the next message stand first in the stream. *)
LEMMA NextIsFirst ==
  ASSUME Typed, InStep, Len(Stream) > 0
  PROVE  /\ NextMessage \in 1 .. Len(sent)
         /\ Follows(Stream, SentSize(sent[NextMessage]), 1, NextMessage)
         /\ NothingLost /\ ~Broken =>
              Ends(Stream, SentSize(sent[NextMessage]), 1, NextMessage = Len(sent))
<1>1. PICK K : K = NextMessage
  OBVIOUS
<1>2. 1 \in 1 .. Len(Stream) /\ At(Stream, 1, K, 0) /\ Blocks(Stream, sent)
  <2>1. Len(Stream) \in Nat
    BY DEF InStep, Blocks
  <2>. QED  BY <1>1, <2>1 DEF InStep
<1>3. Stream[1] = <<K, 0>> /\ Stream[1][1] \in 1 .. Len(sent)
  BY <1>2 DEF Blocks, At
<1>4. K \in 1 .. Len(sent)
  BY <1>3
<1>. QED  BY <1>1, <1>2, <1>4 DEF Blocks, NothingLost, Complete

(* A header in the buffer is that of the next message. *)
LEMMA HeaderIs ==
  ASSUME Typed, InStep, HasHeader
  PROVE  /\ NextMessage \in 1 .. Len(sent) /\ sent[NextMessage] \in Lengths
         /\ HeaderLengths = {sent[NextMessage]}
<1>1. PICK p \in Nat, q \in Nat : p = Len(buffer) /\ q = Len(wire) /\ p >= 4
  BY DEF Typed, HasHeader
<1>2. PICK x : x = Stream
  OBVIOUS
<1>3. Len(x) = p + q /\ \A i \in 1 .. p : x[i] = buffer[i]
  BY <1>1, <1>2, Joined DEF Typed, Stream
<1>4. PICK K : K = NextMessage
  OBVIOUS
<1>5. Len(x) > 0 /\ Len(x) >= 4
  BY <1>1, <1>3
<1>6. K \in 1 .. Len(sent) /\ Follows(x, SentSize(sent[K]), 1, K)
  BY <1>2, <1>4, <1>5, NextIsFirst
<1>7. PICK size \in Nat : size = SentSize(sent[K]) /\ size >= 4
  BY <1>6, SizeOf DEF Typed
<1>8. ASSUME NEW j \in 1 .. 4
      PROVE  buffer[j] = <<K, j - 1>>
  <2>1. j - 1 \in 0 .. (size - 1) /\ 1 + (j - 1) = j /\ j <= Len(x) /\ j \in 1 .. p
    BY <1>1, <1>5, <1>7
  <2>2. At(x, j, K, j - 1)
    BY <1>6, <1>7, <2>1 DEF Follows
  <2>. QED  BY <1>3, <2>1, <2>2 DEF At
<1>9. buffer[1] = <<K, 0>>
  <2>1. 1 \in 1 .. 4 /\ 1 - 1 = 0
    OBVIOUS
  <2>. QED  BY <1>8, <2>1
<1>10. buffer[1][1] = K
  BY <1>9
<1>11. IsHeader
  BY <1>8, <1>10 DEF IsHeader
<1>12. HeaderLengths = {sent[K]}
  BY <1>10, <1>11 DEF HeaderLengths
<1>13. sent[K] \in Lengths
  BY <1>6 DEF Typed
<1>. QED  BY <1>4, <1>6, <1>12, <1>13

LEMMA InitFrames ==
  ASSUME Init
  PROVE  FrameInv
<1>1. Typed
  <2>1. links \in 1 .. MaxLinks
    BY BoundsAssumption DEF Init
  <2>2. Len(buffer) <= BuffSize
    BY BoundsAssumption DEF Init
  <2>3. \A S : <<>> \in Seq(S)
    BY EmptySeq
  <2>. QED  BY <2>1, <2>2, <2>3 DEF Init, Typed
<1>2. PICK x : x = Stream
  OBVIOUS
<1>3. x \in Seq(Nat \X Nat) /\ Len(x) = 0
  BY <1>2 DEF Init, Stream
<1>4. Blocks(x, sent) /\ Complete(x, sent)
  BY <1>3 DEF Blocks, Complete
<1>5. InStep /\ NothingLost
  BY <1>2, <1>3, <1>4 DEF InStep, NothingLost, Init
<1>. QED  BY <1>1, <1>5 DEF FrameInv, LessThanOne, Closed, Init

(* A message is sent behind a complete stream. *)
LEMMA SendStep ==
  ASSUME FrameInv, NEW length \in Lengths, SendMessage(length)
  PROVE  FrameInv'
<1>1. PICK x : x = Stream
  OBVIOUS
<1>2. PICK b : b = Bytes(Len(sent) + 1, SentSize(length))
  OBVIOUS
<1>3. PICK y : y = Stream'
  OBVIOUS
<1>4. PICK D \in Nat, L \in Nat, p \in Nat, m \in Nat :
        D = Len(delivered) /\ L = Len(sent) /\ p = SentSize(length) /\ p >= 4 /\ m = Len(x)
  <2>1. length \in Nat /\ SentSize(length) \in Nat /\ 4 + length <= SentSize(length)
    BY Sizes
  <2>. QED  BY <1>1, <2>1 DEF FrameInv, Typed, InStep, Blocks
<1>5. /\ b \in Seq(Nat \X Nat) /\ Len(b) = p /\ b[1] = <<L + 1, 0>>
  <2>1. b \in [1 .. p -> Nat \X Nat] /\ \A j \in 1 .. p : b[j] = <<L + 1, j - 1>>
    BY <1>2, <1>4 DEF Bytes
  <2>2. b \in Seq(Nat \X Nat)
    BY <2>1, SeqDef
  <2>3. DOMAIN b = 1 .. p /\ DOMAIN b = 1 .. Len(b) /\ Len(b) \in Nat
    BY <2>1, <2>2, LenProperties
  <2>4. Len(b) = p
    BY <2>3
  <2>5. 1 \in 1 .. p /\ 1 - 1 = 0
    BY <1>4
  <2>. QED  BY <2>1, <2>2, <2>4, <2>5
<1>6. sent' = Append(sent, length) /\ wire' = wire \o b
  BY <1>2 DEF SendMessage
<1>7. ~Broken /\ peerOpen /\ open
  BY DEF SendMessage, Broken, FrameInv, Closed
<1>8. y = x \o b
  <2>1. wire \in Seq(Nat \X Nat) /\ buffer \in Seq(Nat \X Nat)
    BY DEF FrameInv, Typed
  <2>2. PICK S : S = Nat \X Nat
    OBVIOUS
  <2>3. buffer \in Seq(S) /\ wire \in Seq(S) /\ b \in Seq(S)
    BY <1>5, <2>1, <2>2
  <2>4. (buffer \o wire) \o b = buffer \o (wire \o b)
    BY <2>3
  <2>5. y = buffer \o (wire \o b)
    BY <1>3, <1>6 DEF Stream, SendMessage
  <2>. QED  BY <1>1, <2>4, <2>5 DEF Stream
<1>9. x \in Seq(Nat \X Nat) /\ Blocks(x, sent) /\ Complete(x, sent)
  BY <1>1, <1>7 DEF FrameInv, InStep, NothingLost, Blocks
<1>10. Blocks(y, sent') /\ Complete(y, sent')
  BY <1>2, <1>6, <1>8, <1>9, SentBlocks DEF FrameInv, Typed
<1>11. /\ y \in Seq(Nat \X Nat) /\ Len(y) = m + p
       /\ \A i \in 1 .. m : y[i] = x[i]
       /\ \A i \in 1 .. p : y[m + i] = b[i]
  <2>1. PICK S : S = Nat \X Nat
    OBVIOUS
  <2>2. x \in Seq(S) /\ b \in Seq(S) /\ m = Len(x) /\ p = Len(b)
    BY <1>4, <1>5, <1>9, <2>1
  <2>3. /\ y \in Seq(S) /\ Len(y) = m + p
        /\ \A i \in 1 .. m : y[i] = x[i]
        /\ \A i \in 1 .. p : y[m + i] = b[i]
    BY <1>8, <2>2, Joined
  <2>. QED  BY <2>1, <2>3
<1>12. /\ sent' \in Seq(Lengths) /\ Len(sent') = L + 1
       /\ \A k \in 1 .. L : sent'[k] = sent[k]
  BY <1>4, <1>6, AppendProperties DEF FrameInv, Typed
<1>13. Typed'
  <2>1. wire' \in Seq(Nat \X Nat)
    BY <1>5, <1>6, ConcatProperties DEF FrameInv, Typed
  <2>. QED  BY <1>12, <2>1 DEF FrameInv, Typed, SendMessage
<1>14. At(y, 1, D + 1, 0)
  <2>1. CASE m = 0
    <3>1. D = L
      BY <1>1, <1>4, <1>7, <2>1 DEF FrameInv, NothingLost
    <3>2. 1 \in 1 .. p /\ m + 1 = 1
      BY <1>4, <2>1
    <3>. QED  BY <1>5, <1>11, <3>1, <3>2 DEF At
  <2>2. CASE m # 0
    <3>1. m > 0 /\ 1 \in 1 .. m
      BY <2>2
    <3>2. At(x, 1, D + 1, 0)
      BY <1>1, <1>4, <3>1 DEF FrameInv, InStep, NextMessage
    <3>. QED  BY <1>11, <3>1, <3>2 DEF At
  <2>. QED  BY <2>1, <2>2
<1>15. delivered' = delivered /\ Len(delivered') = D
  BY <1>4 DEF SendMessage
<1>16. D <= L /\ \A k \in 1 .. D : delivered[k] = Bytes(k, 4 + sent[k])
  BY <1>4 DEF FrameInv, InStep
<1>17. \A k \in 1 .. D : delivered'[k] = Bytes(k, 4 + sent'[k])
  <2>. SUFFICES ASSUME NEW k \in 1 .. D
                PROVE  delivered'[k] = Bytes(k, 4 + sent'[k])
    OBVIOUS
  <2>1. k \in 1 .. L
    BY <1>16
  <2>. QED  BY <1>12, <1>15, <1>16, <2>1
<1>18. InStep'
  <2>1. NextMessage' = D + 1
    BY <1>15 DEF NextMessage
  <2>2. D <= L + 1
    BY <1>16
  <2>. QED  BY <1>3, <1>10, <1>12, <1>14, <1>15, <1>17, <2>1, <2>2 DEF InStep
<1>19. NothingLost'
  <2>1. Len(y) # 0
    BY <1>4, <1>11
  <2>. QED  BY <1>3, <1>10, <2>1 DEF NothingLost
<1>20. LessThanOne'
  <2>. SUFFICES ASSUME ~parsing', Len(buffer') >= 4
                PROVE  Len(buffer') < Consumed(sent'[NextMessage'])
    BY DEF LessThanOne
  <2>1. buffer' = buffer /\ parsing' = parsing
    BY DEF SendMessage
  <2>2. HasHeader /\ Len(buffer) < Consumed(sent[NextMessage])
    BY <2>1 DEF FrameInv, LessThanOne, HasHeader
  <2>3. NextMessage \in 1 .. Len(sent)
    BY <2>2, HeaderIs DEF FrameInv
  <2>4. NextMessage' = NextMessage /\ sent'[NextMessage] = sent[NextMessage]
    BY <1>4, <1>12, <1>15, <2>3 DEF NextMessage
  <2>. QED  BY <2>1, <2>2, <2>4
<1>21. Closed'
  BY <1>7 DEF Closed, SendMessage
<1>. QED  BY <1>13, <1>18, <1>19, <1>20, <1>21 DEF FrameInv

(* What is lost on the way is lost from some byte on. *)
LEMMA BreakStep ==
  ASSUME FrameInv, PeerBreaksOff
  PROVE  FrameInv'
<1>1. PICK n \in 0 .. (Len(wire) - 1) : wire' = SubSeq(wire, 1, n)
  BY DEF PeerBreaksOff
<1>2. PICK S : S = Nat \X Nat
  OBVIOUS
<1>3. PICK p \in Nat, q \in Nat : p = Len(buffer) /\ q = Len(wire)
  BY DEF FrameInv, Typed
<1>4. buffer \in Seq(S) /\ wire \in Seq(S) /\ n \in 0 .. q /\ buffer' = buffer
  BY <1>2, <1>3 DEF FrameInv, Typed, PeerBreaksOff
<1>5. wire' \in Seq(S)
  BY <1>1, <1>3, <1>4, Pieces
<1>6. PICK x : x = Stream
  OBVIOUS
<1>7. PICK y : y = Stream'
  OBVIOUS
<1>8. x \in Seq(S) /\ Len(x) = p + q
  BY <1>3, <1>4, <1>6, Joined DEF Stream
<1>9. y = SubSeq(x, 1, p + n)
  <2>1. buffer \o SubSeq(wire, 1, n) = SubSeq(buffer \o wire, 1, p + n)
    BY <1>3, <1>4, LoseSecond
  <2>. QED  BY <1>1, <1>4, <1>6, <1>7, <2>1 DEF Stream
<1>10. p + n \in 0 .. Len(x)
  BY <1>3, <1>4, <1>8
<1>11. Len(y) = p + n /\ \A i \in 1 .. p + n : y[i] = x[i]
  BY <1>8, <1>9, <1>10, Pieces
<1>12. sent' = sent /\ delivered' = delivered /\ NextMessage' = NextMessage
  BY DEF PeerBreaksOff, NextMessage
<1>13. Blocks(y, sent)
  BY <1>6, <1>9, <1>10, PrefixBlocks DEF FrameInv, Typed, InStep
<1>14. Len(y) > 0 => At(y, 1, NextMessage, 0)
  <2>. SUFFICES ASSUME Len(y) > 0
                PROVE  At(y, 1, NextMessage, 0)
    OBVIOUS
  <2>1. 1 \in 1 .. p + n /\ Len(x) > 0
    BY <1>3, <1>4, <1>8, <1>11
  <2>2. At(x, 1, NextMessage, 0)
    BY <1>6, <2>1 DEF FrameInv, InStep
  <2>. QED  BY <1>11, <2>1, <2>2 DEF At
<1>15. InStep'
  BY <1>7, <1>12, <1>13, <1>14 DEF FrameInv, InStep
<1>16. Broken'
  BY DEF Broken, PeerBreaksOff, BreaksOff
<1>17. Typed'
  BY <1>2, <1>5, <1>12 DEF FrameInv, Typed, PeerBreaksOff
<1>18. LessThanOne'
  BY <1>12 DEF FrameInv, LessThanOne, PeerBreaksOff
<1>19. Closed'
  BY DEF FrameInv, Closed, PeerBreaksOff
<1>. QED  BY <1>15, <1>16, <1>17, <1>18, <1>19 DEF FrameInv, NothingLost

LEMMA CloseStep ==
  ASSUME FrameInv, PeerCloses
  PROVE  FrameInv'
<1>1. UNCHANGED <<sent, wire, buffer, delivered, parsing, open, links>> /\ peerOpen' = FALSE
  BY DEF PeerCloses
<1>2. Stream' = Stream /\ NextMessage' = NextMessage
  BY <1>1 DEF Stream, NextMessage
<1>3. Broken' \/ ~Broken
  BY DEF PeerCloses, Broken
<1>4. Typed' /\ InStep' /\ LessThanOne'
  BY <1>1, <1>2 DEF FrameInv, Typed, InStep, LessThanOne
<1>5. NothingLost'
  BY <1>1, <1>2, <1>3 DEF FrameInv, NothingLost
<1>6. Closed'
  BY <1>1 DEF FrameInv, Closed, PeerCloses
<1>. QED  BY <1>4, <1>5, <1>6 DEF FrameInv

LEMMA ReconnectStep ==
  ASSUME FrameInv, Reconnect
  PROVE  FrameInv'
<1>1. /\ UNCHANGED <<sent, wire, buffer, delivered, parsing>>
      /\ open' = TRUE /\ peerOpen' = TRUE /\ links' = links + 1 /\ links < MaxLinks
  BY DEF Reconnect, FrameInv, Closed
<1>2. Stream' = Stream /\ NextMessage' = NextMessage
  BY <1>1 DEF Stream, NextMessage
<1>3. links \in 1 .. MaxLinks /\ MaxLinks \in Nat
  BY BoundsAssumption DEF FrameInv, Typed
<1>4. ~Broken
  BY <1>1, <1>3 DEF Broken, BreaksOff
<1>5. links' \in 1 .. MaxLinks
  BY <1>1, <1>3
<1>6. Typed' /\ InStep' /\ LessThanOne' /\ NothingLost'
  BY <1>1, <1>2, <1>4, <1>5 DEF FrameInv, Typed, InStep, LessThanOne, NothingLost
<1>. QED  BY <1>1, <1>6 DEF FrameInv, Closed

(* recv() moves bytes from the wire to the end of the buffer. *)
LEMMA RecvStep ==
  ASSUME FrameInv, RecvData
  PROVE  FrameInv'
<1>1. PICK n \in 1 .. Len(wire) : /\ n <= Room
                                  /\ buffer' = buffer \o SubSeq(wire, 1, n)
                                  /\ wire' = SubSeq(wire, n + 1, Len(wire))
  BY DEF RecvData
<1>2. PICK S : S = Nat \X Nat
  OBVIOUS
<1>3. PICK p \in Nat, q \in Nat : p = Len(buffer) /\ q = Len(wire)
  BY DEF FrameInv, Typed
<1>4. buffer \in Seq(S) /\ wire \in Seq(S) /\ n \in 0 .. q
  BY <1>2, <1>3 DEF FrameInv, Typed
<1>5. PICK a, b : a = SubSeq(wire, 1, n) /\ b = SubSeq(wire, n + 1, Len(wire))
  OBVIOUS
<1>6. a \in Seq(S) /\ Len(a) = n /\ b \in Seq(S)
  BY <1>3, <1>4, <1>5, Pieces
<1>7. buffer' \in Seq(S) /\ Len(buffer') = p + n
  <2>1. n \in Nat /\ n = Len(a)
    BY <1>4, <1>6
  <2>. QED  BY <1>1, <1>3, <1>4, <1>5, <1>6, <2>1, Joined
<1>8. Len(buffer') <= BuffSize
  <2>1. p \in Nat /\ n \in Nat /\ BuffSize \in Nat /\ n <= BuffSize - p
    BY <1>1, <1>3, <1>4, BoundsAssumption DEF Room
  <2>. QED  BY <1>7, <2>1
<1>9. Stream' = Stream
  <2>1. (buffer \o SubSeq(wire, 1, n)) \o SubSeq(wire, n + 1, Len(wire)) = buffer \o wire
    BY <1>3, <1>4, CutSecond
  <2>. QED  BY <1>1, <2>1 DEF Stream
<1>10. UNCHANGED <<sent, delivered, peerOpen, open, links>> /\ open /\ parsing' = TRUE
  BY DEF RecvData
<1>11. NextMessage' = NextMessage /\ (Broken' <=> Broken)
  BY <1>10 DEF NextMessage, Broken, BreaksOff
<1>12. Typed'
  BY <1>1, <1>2, <1>5, <1>6, <1>7, <1>8, <1>10 DEF FrameInv, Typed
<1>13. InStep' /\ NothingLost'
  BY <1>9, <1>10, <1>11 DEF FrameInv, InStep, NothingLost
<1>. QED  BY <1>10, <1>12, <1>13 DEF FrameInv, LessThanOne, Closed

(* Between two calls there is room in the buffer, so that recv() returns 0 at *)
(* the end of the stream only.                                                *)
LEMMA RoomIsLeft ==
  ASSUME FrameInv, ~parsing, wire # <<>>
  PROVE  Room > 0
<1>1. PICK p \in Nat, q \in Nat : p = Len(buffer) /\ q = Len(wire) /\ q > 0
  <2>1. wire \in Seq(Nat \X Nat) /\ buffer \in Seq(Nat \X Nat)
    BY DEF FrameInv, Typed
  <2>2. Len(wire) \in Nat \ {0}
    BY <2>1, EmptySeq
  <2>. QED  BY <2>1, <2>2
<1>2. PICK x : x = Stream
  OBVIOUS
<1>3. Len(x) = p + q
  BY <1>1, <1>2, Joined DEF FrameInv, Typed, Stream
<1>4. NextMessage \in 1 .. Len(sent)
  BY <1>1, <1>2, <1>3, NextIsFirst DEF FrameInv
<1>5. PICK length \in Lengths : length = sent[NextMessage]
  BY <1>4 DEF FrameInv, Typed
<1>6. /\ length \in Nat /\ SentSize(length) \in Nat /\ SentSize(length) = Consumed(length)
      /\ 4 + length <= SentSize(length) /\ SentSize(length) <= BuffSize
  BY Sizes
<1>7. p >= 4 => p < SentSize(length)
  BY <1>1, <1>5, <1>6 DEF FrameInv, LessThanOne
<1>8. BuffSize \in Nat /\ p < BuffSize
  BY <1>6, <1>7, BoundsAssumption
<1>. QED  BY <1>1, <1>8 DEF Room

LEMMA NothingStep ==
  ASSUME FrameInv, RecvNothing
  PROVE  FrameInv'
<1>1. /\ UNCHANGED <<sent, wire, buffer, delivered, parsing, peerOpen, links>>
      /\ ~parsing /\ open' = FALSE /\ AtEnd
  BY DEF RecvNothing
<1>2. Stream' = Stream /\ NextMessage' = NextMessage /\ (Broken' <=> Broken)
  BY <1>1 DEF Stream, NextMessage, Broken, BreaksOff
<1>3. ~peerOpen /\ wire = <<>>
  <2>1. ~(wire # <<>> /\ Room = 0)
    BY <1>1, RoomIsLeft
  <2>. QED  BY <1>1, <2>1 DEF AtEnd
<1>4. Typed' /\ InStep' /\ NothingLost' /\ LessThanOne'
  BY <1>1, <1>2 DEF FrameInv, Typed, InStep, NothingLost, LessThanOne
<1>. QED  BY <1>1, <1>3, <1>4 DEF FrameInv, Closed

(* A message that is whole is cut out of the buffer, with its padding. *)
LEMMA ParseFacts ==
  ASSUME FrameInv, ParseMessage
  PROVE  /\ NextMessage \in 1 .. Len(sent)
         /\ delivered' = Append(delivered, Bytes(NextMessage, 4 + sent[NextMessage]))
         /\ SentSize(sent[NextMessage]) \in 0 .. Len(buffer)
         /\ buffer' = SubSeq(buffer, SentSize(sent[NextMessage]) + 1, Len(buffer))
         /\ Follows(Stream, SentSize(sent[NextMessage]), 1, NextMessage)
         /\ ~Broken => Ends(Stream, SentSize(sent[NextMessage]), 1, NextMessage = Len(sent))
         /\ Bytes(NextMessage, 4 + sent[NextMessage]) \in Seq(Nat \X Nat)
<1>1. PICK K \in Nat : K = NextMessage /\ K \in 1 .. Len(sent)
  BY HeaderIs DEF FrameInv, ParseMessage
<1>2. PICK length \in Lengths : length = sent[K]
  BY <1>1 DEF FrameInv, Typed
<1>3. HeaderLengths = {length}
  BY <1>1, <1>2, HeaderIs DEF FrameInv, ParseMessage
<1>4. /\ IsWhole(length)
      /\ delivered' = Append(delivered, SubSeq(buffer, 1, 4 + length))
      /\ buffer' = SubSeq(buffer, Consumed(length) + 1, Len(buffer))
  BY <1>3 DEF ParseMessage
<1>5. PICK size \in Nat : /\ size = SentSize(length) /\ size = Consumed(length)
                          /\ 4 + length <= size /\ length \in Nat
  <2>1. /\ SentSize(length) = Consumed(length) /\ SentSize(length) \in Nat
        /\ 4 + length <= SentSize(length) /\ length \in Nat
    BY Sizes
  <2>. QED  BY <2>1
<1>6. PICK p \in Nat, q \in Nat : p = Len(buffer) /\ q = Len(wire)
  BY DEF FrameInv, Typed
<1>7. size <= p
  BY <1>4, <1>5, <1>6 DEF IsWhole, Consumed
<1>8. PICK x : x = Stream
  OBVIOUS
<1>9. PICK S : S = Nat \X Nat
  OBVIOUS
<1>10. buffer \in Seq(S) /\ wire \in Seq(S)
  BY <1>9 DEF FrameInv, Typed
<1>11. Len(x) = p + q /\ \A i \in 1 .. p : x[i] = buffer[i]
  BY <1>6, <1>8, <1>10, Joined DEF Stream
<1>12. Len(x) > 0
  BY <1>5, <1>6, <1>7, <1>11
<1>13. Follows(x, size, 1, K) /\ (~Broken => Ends(x, size, 1, K = Len(sent)))
  BY <1>1, <1>2, <1>5, <1>8, <1>12, NextIsFirst DEF FrameInv
<1>14. PICK b : b = SubSeq(buffer, 1, 4 + length)
  OBVIOUS
<1>15. PICK r \in Nat : r = 4 + length /\ r \in 0 .. p
  BY <1>5, <1>7
<1>16. b \in Seq(S) /\ Len(b) = r /\ \A i \in 1 .. r : b[i] = buffer[i]
  BY <1>6, <1>10, <1>14, <1>15, Pieces
<1>17. ASSUME NEW i \in 1 .. r
       PROVE  b[i] = <<K, i - 1>>
  <2>1. i \in 1 .. p /\ i - 1 \in 0 .. (size - 1) /\ 1 + (i - 1) = i /\ i <= Len(x)
    BY <1>5, <1>7, <1>11, <1>15
  <2>2. At(x, i, K, i - 1)
    BY <1>13, <2>1 DEF Follows
  <2>. QED  BY <1>11, <1>16, <2>1, <2>2 DEF At
<1>18. b = Bytes(K, r)
  <2>1. DOMAIN b = 1 .. r /\ b \in [1 .. r -> S]
    BY <1>16, LenProperties
  <2>2. b = [i \in 1 .. r |-> b[i]]
    BY <2>1
  <2>. QED  BY <1>17, <2>2 DEF Bytes
<1>19. delivered' = Append(delivered, Bytes(K, 4 + length))
  BY <1>4, <1>14, <1>15, <1>18
<1>20. Bytes(K, 4 + length) \in Seq(Nat \X Nat)
  BY <1>9, <1>15, <1>16, <1>18
<1>21. size \in 0 .. Len(buffer) /\ buffer' = SubSeq(buffer, size + 1, Len(buffer))
  BY <1>4, <1>5, <1>6, <1>7
<1>. QED  BY <1>1, <1>2, <1>5, <1>8, <1>13, <1>19, <1>20, <1>21

LEMMA ParseStep ==
  ASSUME FrameInv, ParseMessage
  PROVE  FrameInv'
<1>1. PICK K \in Nat, L \in Nat : K = NextMessage /\ L = Len(sent) /\ K \in 1 .. L
  BY ParseFacts DEF FrameInv, Typed
<1>2. PICK D \in Nat : D = Len(delivered) /\ K = D + 1
  BY <1>1 DEF NextMessage, FrameInv, Typed
<1>3. PICK size \in Nat : size = SentSize(sent[K]) /\ size >= 4
  BY <1>1, SizeOf DEF FrameInv, Typed
<1>4. PICK message : message = Bytes(K, 4 + sent[K])
  OBVIOUS
<1>5. PICK S : S = Nat \X Nat
  OBVIOUS
<1>6. PICK p \in Nat, q \in Nat : p = Len(buffer) /\ q = Len(wire)
  BY DEF FrameInv, Typed
<1>7. /\ delivered' = Append(delivered, message) /\ message \in Seq(S)
      /\ size \in 0 .. p
      /\ buffer' = SubSeq(buffer, size + 1, Len(buffer))
      /\ Follows(Stream, size, 1, K)
      /\ ~Broken => Ends(Stream, size, 1, K = L)
  BY <1>1, <1>3, <1>4, <1>5, <1>6, ParseFacts
<1>8. UNCHANGED <<sent, wire, parsing, peerOpen, open, links>> /\ parsing
  BY DEF ParseMessage
<1>9. buffer \in Seq(S) /\ wire \in Seq(S)
  BY <1>5 DEF FrameInv, Typed
<1>10. buffer' \in Seq(S) /\ Len(buffer') = p - size
  BY <1>6, <1>7, <1>9, Pieces
<1>11. PICK x : x = Stream
  OBVIOUS
<1>12. PICK y : y = Stream'
  OBVIOUS
<1>13. x \in Seq(S) /\ Len(x) = p + q
  BY <1>6, <1>9, <1>11, Joined DEF Stream
<1>14. y = SubSeq(x, size + 1, Len(x))
  <2>1. SubSeq(buffer, size + 1, Len(buffer)) \o wire
          = SubSeq(buffer \o wire, size + 1, Len(buffer \o wire))
    BY <1>6, <1>7, <1>9, CutFirst
  <2>. QED  BY <1>7, <1>8, <1>11, <1>12, <2>1 DEF Stream
<1>15. size \in 0 .. Len(x)
  BY <1>6, <1>7, <1>13
<1>16. Len(y) = Len(x) - size /\ \A i \in 1 .. Len(x) - size : y[i] = x[size + i]
  BY <1>13, <1>14, <1>15, Pieces
<1>17. Blocks(x, sent)
  BY <1>11 DEF FrameInv, InStep
<1>18. Blocks(y, sent) /\ (Complete(x, sent) => Complete(y, sent))
  BY <1>14, <1>15, <1>17, SuffixBlocks DEF FrameInv, Typed
<1>19. Len(y) > 0 => At(y, 1, K + 1, 0)
  <2>. SUFFICES ASSUME Len(y) > 0
                PROVE  At(y, 1, K + 1, 0)
    OBVIOUS
  <2>1. 1 \in 1 .. Len(x) - size /\ 1 + size <= Len(x) /\ 1 + size = size + 1
    BY <1>13, <1>15, <1>16
  <2>2. At(x, 1 + size, K + 1, 0)
    BY <1>7, <1>11, <2>1 DEF Follows
  <2>. QED  BY <1>16, <2>1, <2>2 DEF At
<1>20. /\ delivered' \in Seq(Seq(S)) /\ Len(delivered') = K
       /\ \A k \in 1 .. D : delivered'[k] = delivered[k]
       /\ delivered'[K] = message
  <2>1. delivered \in Seq(Seq(S))
    BY <1>5 DEF FrameInv, Typed
  <2>. QED  BY <1>2, <1>7, <2>1, AppendProperties
<1>21. \A k \in 1 .. K : delivered'[k] = Bytes(k, 4 + sent[k])
  <2>. SUFFICES ASSUME NEW k \in 1 .. K
                PROVE  delivered'[k] = Bytes(k, 4 + sent[k])
    OBVIOUS
  <2>1. CASE k = K
    BY <1>4, <1>20, <2>1
  <2>2. CASE k # K
    <3>1. k \in 1 .. D
      BY <1>2, <2>2
    <3>2. delivered[k] = Bytes(k, 4 + sent[k])
      BY <1>2, <3>1 DEF FrameInv, InStep
    <3>. QED  BY <1>20, <3>1, <3>2
  <2>. QED  BY <2>1, <2>2
<1>22. InStep'
  <2>1. NextMessage' = K + 1 /\ K <= L
    BY <1>1, <1>20 DEF NextMessage
  <2>. QED  BY <1>1, <1>8, <1>12, <1>18, <1>19, <1>20, <1>21, <2>1 DEF InStep
<1>23. NothingLost'
  <2>. SUFFICES ASSUME ~Broken'
                PROVE  Complete(y, sent) /\ (Len(y) = 0 => K = L)
    BY <1>1, <1>8, <1>12, <1>20 DEF NothingLost
  <2>1. ~Broken
    BY <1>8 DEF Broken, BreaksOff
  <2>2. Complete(y, sent)
    BY <1>11, <1>18, <2>1 DEF FrameInv, NothingLost
  <2>3. ASSUME Len(y) = 0
        PROVE  K = L
    <3>1. 1 + size = Len(x) + 1
      BY <1>13, <1>16, <2>3
    <3>. QED  BY <1>7, <1>11, <2>1, <3>1 DEF Ends
  <2>. QED  BY <2>2, <2>3
<1>24. Typed'
  <2>1. Len(buffer') <= BuffSize
    <3>1. p <= BuffSize /\ BuffSize \in Nat
      BY <1>6, BoundsAssumption DEF FrameInv, Typed
    <3>. QED  BY <1>10, <3>1
  <2>. QED  BY <1>5, <1>8, <1>10, <1>20, <2>1 DEF FrameInv, Typed
<1>25. LessThanOne' /\ Closed'
  BY <1>8 DEF FrameInv, LessThanOne, Closed
<1>. QED  BY <1>22, <1>23, <1>24, <1>25 DEF FrameInv

LEMMA EndsMeansLess ==
  ASSUME FrameInv, LoopEnds, HasHeader
  PROVE  Len(buffer) < Consumed(sent[NextMessage])
<1>1. PICK length \in HeaderLengths : ~IsWhole(length)
  BY DEF LoopEnds
<1>2. length = sent[NextMessage] /\ length \in Lengths
  BY <1>1, HeaderIs DEF FrameInv
<1>3. SentSize(length) = Consumed(length) /\ SentSize(length) \in Nat
  BY <1>2, Sizes
<1>4. Len(buffer) \in Nat
  BY DEF FrameInv, Typed
<1>. QED  BY <1>1, <1>2, <1>3, <1>4 DEF IsWhole, Consumed

LEMMA EndsStep ==
  ASSUME FrameInv, ParseEnds
  PROVE  FrameInv'
<1>1. UNCHANGED <<sent, wire, buffer, delivered, peerOpen, open, links>>
      /\ parsing' = FALSE /\ LoopEnds /\ parsing
  BY DEF ParseEnds
<1>2. Stream' = Stream /\ NextMessage' = NextMessage /\ (Broken' <=> Broken)
  BY <1>1 DEF Stream, NextMessage, Broken, BreaksOff
<1>3. LessThanOne'
  BY <1>1, <1>2, EndsMeansLess DEF LessThanOne, HasHeader
<1>. QED  BY <1>1, <1>2, <1>3 DEF FrameInv, Typed, InStep, NothingLost, Closed

LEMMA NextFrames ==
  ASSUME FrameInv, [Next]_vars
  PROVE  FrameInv'
<1>1. CASE UNCHANGED vars
  BY <1>1 DEF vars, FrameInv, Typed, InStep, NothingLost, LessThanOne, Closed, Stream,
              NextMessage, Broken, BreaksOff
<1>2. CASE HandleTcpMessage
  BY <1>2, RecvStep, NothingStep, ParseStep, EndsStep DEF HandleTcpMessage
<1>3. CASE \E length \in Lengths : SendMessage(length)
  BY <1>3, SendStep
<1>4. CASE PeerCloses \/ PeerBreaksOff \/ Reconnect
  BY <1>4, CloseStep, BreakStep, ReconnectStep
<1>. QED  BY <1>1, <1>2, <1>3, <1>4 DEF Next

LEMMA AlwaysFrames == Spec => []FrameInv
<1>. QED  BY InitFrames, NextFrames, PTL DEF Spec

-----------------------------------------------------------------------------
(* The buffer of a connection is never written behind its end, and every byte *)
(* on the wire is one of a message that send_message was called for.          *)
THEOREM BufferIsNotOverrun == Spec => []TypeOK
<1>1. ASSUME FrameInv
      PROVE  TypeOK
  <2>1. PICK S : S = Nat \X Nat
    OBVIOUS
  <2>2. PICK p \in Nat, q \in Nat : p = Len(buffer) /\ q = Len(wire)
    BY <1>1 DEF FrameInv, Typed
  <2>3. PICK x : x = Stream
    OBVIOUS
  <2>4. buffer \in Seq(S) /\ wire \in Seq(S)
    BY <1>1, <2>1 DEF FrameInv, Typed
  <2>5. Len(x) = p + q /\ \A i \in 1 .. q : x[p + i] = wire[i]
    BY <2>2, <2>3, <2>4, Joined DEF Stream
  <2>6. ASSUME NEW i \in 1 .. q
        PROVE  wire[i][1] \in 1 .. Len(sent)
    <3>1. p + i \in 1 .. Len(x)
      BY <2>5
    <3>2. x[p + i][1] \in 1 .. Len(sent)
      BY <1>1, <2>3, <3>1 DEF FrameInv, InStep, Blocks
    <3>. QED  BY <2>5, <3>2
  <2>. QED  BY <1>1, <2>2, <2>6 DEF FrameInv, Typed, TypeOK
<1>. QED  BY <1>1, AlwaysFrames, PTL

(* handle_tcp_message reports the end of a connection only when the peer has *)
(* ended it and every message that was complete has been handled.            *)
THEOREM NothingIsLeftBehind == Spec => []ClosedAfterLast
<1>1. ASSUME FrameInv
      PROVE  ClosedAfterLast
  <2>. SUFFICES ASSUME ~open
                PROVE  /\ ~peerOpen /\ wire = <<>>
                       /\ LoopEnds
                       /\ ~BreaksOff => Len(delivered) = Len(sent)
    BY DEF ClosedAfterLast
  <2>1. ~peerOpen /\ wire = <<>> /\ ~parsing
    BY <1>1 DEF FrameInv, Closed
  <2>2. ASSUME HasHeader
        PROVE  /\ NextMessage \in 1 .. Len(sent)
               /\ HeaderLengths = {sent[NextMessage]} /\ ~IsWhole(sent[NextMessage])
    <3>1. NextMessage \in 1 .. Len(sent) /\ HeaderLengths = {sent[NextMessage]}
          /\ sent[NextMessage] \in Lengths
      BY <1>1, <2>2, HeaderIs DEF FrameInv
    <3>2. Len(buffer) < Consumed(sent[NextMessage])
      BY <1>1, <2>1, <2>2 DEF FrameInv, LessThanOne, HasHeader
    <3>3. PICK size \in Nat : size = Consumed(sent[NextMessage])
      <4>1. SentSize(sent[NextMessage]) = Consumed(sent[NextMessage])
            /\ SentSize(sent[NextMessage]) \in Nat
        BY <3>1, Sizes
      <4>. QED  BY <4>1
    <3>4. Len(buffer) \in Nat
      BY <1>1 DEF FrameInv, Typed
    <3>. QED  BY <3>1, <3>2, <3>3, <3>4 DEF IsWhole, Consumed
  <2>3. LoopEnds
    BY <2>2 DEF LoopEnds
  <2>4. ASSUME ~BreaksOff
        PROVE  Len(delivered) = Len(sent)
    <3>1. ~Broken
      BY <2>4 DEF Broken
    <3>2. PICK p \in Nat : p = Len(buffer)
      BY <1>1 DEF FrameInv, Typed
    <3>3. Len(Stream) = p
      <4>1. PICK S : S = Nat \X Nat
        OBVIOUS
      <4>2. PICK x : x = Stream
        OBVIOUS
      <4>3. buffer \in Seq(S) /\ wire \in Seq(S) /\ 0 = Len(wire) /\ 0 \in Nat
        BY <1>1, <2>1, <4>1 DEF FrameInv, Typed
      <4>4. Len(x) = p + 0
        BY <3>2, <4>2, <4>3, Joined DEF Stream
      <4>. QED  BY <4>2, <4>4
    <3>4. CASE p = 0
      BY <1>1, <3>1, <3>3, <3>4 DEF FrameInv, NothingLost
    <3>5. CASE p > 0
      <4>1. NextMessage \in 1 .. Len(sent)
            /\ Ends(Stream, SentSize(sent[NextMessage]), 1, NextMessage = Len(sent))
        BY <1>1, <3>1, <3>3, <3>5, NextIsFirst DEF FrameInv
      <4>2. PICK length \in Lengths : length = sent[NextMessage]
        BY <1>1, <4>1 DEF FrameInv, Typed
      <4>3. PICK size \in Nat : /\ size = SentSize(length) /\ size = Consumed(length)
                                /\ size >= 4
        <5>1. /\ SentSize(length) = Consumed(length) /\ SentSize(length) \in Nat
              /\ length \in Nat /\ 4 + length <= SentSize(length)
          BY Sizes
        <5>. QED  BY <5>1
      <4>4. 1 + size <= p + 1
        BY <3>3, <4>1, <4>2, <4>3 DEF Ends
      <4>5. p >= 4 /\ ~(p < size)
        BY <4>3, <4>4
      <4>. QED  BY <1>1, <2>1, <3>2, <4>2, <4>3, <4>5 DEF FrameInv, LessThanOne
    <3>. QED  BY <3>4, <3>5
  <2>. QED  BY <2>1, <2>3, <2>4
<1>. QED  BY <1>1, AlwaysFrames, PTL

(* However the stream is cut into pieces, the receiver gets the messages that *)
(* were sent, whole, in order and once each: the framing implements a channel.*)
THEOREM FramingImplementsChannel == Spec => IsChannel
<1>1. Init => Chan!CInit
  <2>. SUFFICES ASSUME Init
                PROVE  Chan!CInit
    OBVIOUS
  <2>1. 1 .. Len(sent) = {}
    BY DEF Init
  <2>2. Messages = <<>>
    BY <2>1 DEF Messages
  <2>. QED  BY <2>2 DEF Init, Chan!CInit
<1>2. FrameInv /\ [Next]_vars => [Chan!CNext]_(Chan!cvars)
  <2>. SUFFICES ASSUME FrameInv, [Next]_vars
                PROVE  [Chan!CNext]_(Chan!cvars)
    OBVIOUS
  <2>1. ASSUME sent' = sent
        PROVE  Messages' = Messages
    BY <2>1 DEF Messages
  <2>2. ASSUME sent' = sent, delivered' = delivered
        PROVE  UNCHANGED Chan!cvars
    BY <2>1, <2>2 DEF Chan!cvars
  <2>3. CASE UNCHANGED vars
    BY <2>2, <2>3 DEF vars
  <2>4. CASE RecvData \/ RecvNothing \/ ParseEnds \/ PeerCloses \/ PeerBreaksOff \/ Reconnect
    BY <2>2, <2>4 DEF RecvData, RecvNothing, ParseEnds, PeerCloses, PeerBreaksOff, Reconnect
  <2>5. CASE ParseMessage
    <3>1. PICK K \in Nat, L \in Nat : K = NextMessage /\ L = Len(sent) /\ K \in 1 .. L
      BY <2>5, ParseFacts DEF FrameInv, Typed
    <3>2. PICK message : message = Bytes(K, 4 + sent[K])
      OBVIOUS
    <3>3. delivered' = Append(delivered, message) /\ Messages[K] = message /\ sent' = sent
      BY <2>5, <3>1, <3>2, ParseFacts DEF Messages, ParseMessage
    <3>4. Messages \in [1 .. L -> {Bytes(k, 4 + sent[k]) : k \in 1 .. L}]
      BY <3>1 DEF Messages
    <3>5. Len(Messages) = L
      BY <3>1, <3>4 DEF Messages
    <3>6. Len(delivered) \in Nat /\ K = Len(delivered) + 1
      BY <3>1 DEF NextMessage, FrameInv, Typed
    <3>7. Len(delivered) < Len(Messages)
      BY <3>1, <3>5, <3>6
    <3>8. Chan!AcceptNext
      BY <2>1, <3>3, <3>6, <3>7 DEF Chan!AcceptNext
    <3>. QED  BY <3>8 DEF Chan!CNext
  <2>6. ASSUME NEW length \in Lengths, SendMessage(length)
        PROVE  Chan!CNext
    <3>1. PICK L \in Nat : L = Len(sent)
      BY DEF FrameInv, Typed
    <3>2. PICK message : message = Bytes(L + 1, 4 + length)
      OBVIOUS
    <3>3. L + 1 \in 1 .. MaxMessages
      BY <2>6, <3>1, BoundsAssumption DEF SendMessage
    <3>4. message \in {Bytes(k, 4 + l) : k \in 1 .. MaxMessages, l \in Lengths}
      BY <3>2, <3>3
    <3>5. /\ Len(sent') = L + 1 /\ sent'[L + 1] = length
          /\ \A k \in 1 .. L : sent'[k] = sent[k]
      BY <2>6, <3>1, AppendProperties DEF SendMessage, FrameInv, Typed
    <3>6. Messages' = Append(Messages, message)
      BY <3>1, <3>2, <3>5 DEF Messages
    <3>7. Chan!SendNext(message)
      BY <2>6, <3>6 DEF Chan!SendNext, SendMessage
    <3>. QED  BY <3>4, <3>7 DEF Chan!CNext
  <2>. QED  BY <2>3, <2>4, <2>5, <2>6 DEF Next, HandleTcpMessage
<1>. QED  BY <1>1, <1>2, AlwaysFrames, PTL DEF Spec, IsChannel, Chan!CSpec
=============================================================================
