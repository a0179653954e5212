----------------------------- MODULE RingArith -----------------------------
(***************************************************************************)
(* A ring buffer under counters that wrap: slots, the distance of two      *)
(* counters, and what putting and getting do to the sequence it holds.     *)
(* Pipes, the console and the disk driver keep their queues this way.      *)
(***************************************************************************)
EXTENDS Integers, Sequences, TLAPS

(* Sizes of buffers and moduli of counters.                                 *)
Size == Nat \ {0}

(* Unsigned counters modulo m.                                              *)
Counter(m) == 0 .. m - 1

(* Contents of a buffer of size s.                                          *)
Buffer(s, S) == [Counter(s) -> S]

(* The size of the buffer divides the modulus: indices wrap with counters.  *)
Divides(s, m) == m % s = 0

(* How far counter b is ahead of counter a.                                 *)
Ahead(a, b, m) == (b + m - a) % m

(* Sequences: length, equality, and what Append and Tail do.                *)
LEMMA SeqLen ==
  ASSUME NEW S, NEW q \in Seq(S)
  PROVE  Len(q) \in Nat /\ q \in [1 .. Len(q) -> S] /\ (q # <<>> => Len(q) # 0)
  OBVIOUS

(* Sequences with equal elements are equal.                                 *)
LEMMA SameSeq ==
  ASSUME NEW S, NEW p \in Seq(S), NEW q \in Seq(S), Len(p) = Len(q),
         \A k \in 1 .. Len(p) : p[k] = q[k]
  PROVE  p = q
  OBVIOUS

(* Append adds one element at the end.                                      *)
LEMMA SeqAppend ==
  ASSUME NEW S, NEW q \in Seq(S), NEW x \in S
  PROVE  /\ Append(q, x) \in Seq(S) /\ Len(Append(q, x)) = Len(q) + 1
         /\ \A k \in 1 .. Len(q) : Append(q, x)[k] = q[k]
         /\ Append(q, x)[Len(q) + 1] = x
  OBVIOUS

(* Tail drops the first element.                                            *)
LEMMA SeqTail ==
  ASSUME NEW S, NEW q \in Seq(S), q # <<>>
  PROVE  /\ Tail(q) \in Seq(S) /\ Len(Tail(q)) = Len(q) - 1
         /\ \A k \in 1 .. Len(Tail(q)) : Tail(q)[k] = q[k + 1]
  OBVIOUS

(* Concatenation.                                                           *)
LEMMA SeqConcat ==
  ASSUME NEW S, NEW p \in Seq(S), NEW q \in Seq(S)
  PROVE  /\ p \o q \in Seq(S) /\ Len(p \o q) = Len(p) + Len(q)
         /\ \A k \in 1 .. Len(p) : (p \o q)[k] = p[k]
         /\ \A k \in 1 .. Len(q) : (p \o q)[Len(p) + k] = q[k]
  OBVIOUS

(* What is left after k elements.                                           *)
LEMMA SeqRest ==
  ASSUME NEW S, NEW q \in Seq(S), NEW k \in 0 .. Len(q)
  PROVE  /\ SubSeq(q, k + 1, Len(q)) \in Seq(S)
         /\ Len(SubSeq(q, k + 1, Len(q))) = Len(q) - k
         /\ \A j \in 1 .. Len(q) - k : SubSeq(q, k + 1, Len(q))[j] = q[k + j]
  OBVIOUS

(* Quotient and remainder.                                                  *)
LEMMA Division ==
  ASSUME NEW a \in Nat, NEW m \in Size
  PROVE  \E q \in Nat, r \in Counter(m) : a = q * m + r /\ r = a % m
  <1> USE DEF Size, Counter
  <1>1. a = (a \div m) * m + (a % m)
    OBVIOUS
  <1>2. a \div m \in Nat /\ a % m \in 0 .. m - 1
    OBVIOUS
  <1> QED
    BY <1>1, <1>2, Zenon

(* The remainder is the only one.                                           *)
LEMMA Remainder ==
  ASSUME NEW m \in Size, NEW q \in Nat, NEW r \in Counter(m)
  PROVE  (q * m + r) % m = r
  BY DEF Size, Counter

(* A counter that has wrapped at most once.                                 *)
LEMMA Wrapped ==
  ASSUME NEW m \in Size, NEW a \in 0 .. 2 * m - 1
  PROVE  a % m = IF a < m THEN a ELSE a - m
  BY DEF Size

(* An index is within the buffer.                                           *)
LEMMA Slot ==
  ASSUME NEW m \in Size, NEW a \in Nat
  PROVE  a % m \in Counter(m)
  BY DEF Size, Counter

(* A multiple of the size does not change the index.                        *)
LEMMA SameSlot ==
  ASSUME NEW a \in Nat, NEW m \in Size, NEW u \in Nat, Divides(m, u)
  PROVE  (a + u) % m = a % m
  <1>1. PICK q \in Nat, r \in Counter(m) : a = q * m + r /\ r = a % m
    BY Division, Zenon
  <1>2. PICK k \in Nat, z \in Counter(m) : u = k * m + z /\ z = u % m
    BY Division, Zenon
  <1>3. a + u = (q + k) * m + r
    BY <1>1, <1>2 DEF Size, Counter, Divides
  <1>4. q + k \in Nat
    OBVIOUS
  <1>5. ((q + k) * m + r) % m = r
    BY Remainder, <1>4, Zenon
  <1> QED
    BY <1>1, <1>3, <1>5, Zenon

(* Counters less than the size apart have different indices.                *)
LEMMA OtherSlot ==
  ASSUME NEW a \in Nat, NEW b \in Nat, NEW m \in Size, a < b, b < a + m
  PROVE  a % m # b % m
  <1> USE DEF Size, Counter
  <1>1. PICK q \in Nat, r \in 0 .. m - 1 : a = q * m + r /\ r = a % m
    BY Division, Zenon
  <1>2. PICK k \in Nat, z \in 0 .. m - 1 : b = k * m + z /\ z = b % m
    BY Division, Zenon
  <1> SUFFICES ASSUME r = z PROVE FALSE
    BY <1>1, <1>2, Zenon
  <1>3. b - a = (k - q) * m
    <2>1. a \in Int /\ b \in Int /\ m \in Int /\ k \in Int /\ q \in Int /\ r \in Int
      BY <1>1, <1>2, SMTT(40)
    <2>2. a = q * m + r /\ b = k * m + r
      BY <1>1, <1>2, Zenon
    <2> QED
      BY <2>1, <2>2, SMTT(40)
  <1>4. CASE k <= q
    BY <1>4, <1>3
  <1>5. CASE k >= q + 1
    <2>1. (k - q) * m >= m
      BY <1>5
    <2> QED
      BY <1>3, <2>1
  <1> QED
    BY <1>4, <1>5

(* A counter is incremented.                                                *)
LEMMA Increment ==
  ASSUME NEW m \in Size, NEW a \in Counter(m)
  PROVE  /\ (a + 1) % m = IF a + 1 < m THEN a + 1 ELSE 0
         /\ (a + 1) % m \in Counter(m)
  <1> USE DEF Size, Counter
  <1>1. CASE a + 1 < m
    BY <1>1
  <1>2. CASE a + 1 = m
    <2>1. m % m = 0
      OBVIOUS
    <2> QED
      BY <1>2, <2>1
  <1> QED
    BY <1>1, <1>2

(* The distance of two counters.                                            *)
LEMMA Distance ==
  ASSUME NEW m \in Size, NEW a \in Counter(m), NEW b \in Counter(m)
  PROVE  /\ Ahead(a, b, m) = IF a <= b THEN b - a ELSE b + m - a
         /\ Ahead(a, b, m) \in Counter(m)
  <1>1. PICK c \in 0 .. 2 * m - 1 : c = b + m - a
    BY DEF Size, Counter
  <1>2. c % m = IF c < m THEN c ELSE c - m
    BY Wrapped, Zenon
  <1>3. c % m = IF a <= b THEN b - a ELSE b + m - a
    BY <1>1, <1>2 DEF Size, Counter
  <1>4. c % m \in Counter(m)
    BY DEF Size, Counter
  <1> QED
    BY <1>1, <1>3, <1>4, Zenon DEF Ahead

(* Counter b is k ahead of a if a, incremented k times, is b.               *)
LEMMA DistanceIs ==
  ASSUME NEW m \in Size, NEW a \in Counter(m), NEW b \in Counter(m), NEW k \in Counter(m)
  PROVE  b = (a + k) % m <=> Ahead(a, b, m) = k
  <1>1. PICK c \in 0 .. 2 * m - 1 : c = a + k
    BY DEF Size, Counter
  <1>2. c % m = IF c < m THEN c ELSE c - m
    BY Wrapped, Zenon
  <1>3. Ahead(a, b, m) = IF a <= b THEN b - a ELSE b + m - a
    BY Distance, Zenon
  <1>4. b = c % m <=> Ahead(a, b, m) = k
    BY <1>1, <1>2, <1>3 DEF Size, Counter
  <1> QED
    BY <1>1, <1>4, Zenon

(* The counter in front is incremented.                                     *)
LEMMA DistanceGrows ==
  ASSUME NEW m \in Size, NEW a \in Counter(m), NEW b \in Counter(m), Ahead(a, b, m) + 1 < m
  PROVE  Ahead(a, (b + 1) % m, m) = Ahead(a, b, m) + 1
  <1>1. Ahead(a, b, m) = IF a <= b THEN b - a ELSE b + m - a
    BY Distance, Zenon
  <1>2. PICK c \in Counter(m) : c = (b + 1) % m /\ c = IF b + 1 < m THEN b + 1 ELSE 0
    BY Increment, Zenon
  <1>3. Ahead(a, c, m) = IF a <= c THEN c - a ELSE c + m - a
    BY Distance, Zenon
  <1>4. Ahead(a, c, m) = Ahead(a, b, m) + 1
    BY <1>1, <1>2, <1>3 DEF Size, Counter
  <1> QED
    BY <1>2, <1>4, Zenon

(* The counter behind is incremented.                                       *)
LEMMA DistanceShrinks ==
  ASSUME NEW m \in Size, NEW a \in Counter(m), NEW b \in Counter(m), a # b
  PROVE  Ahead((a + 1) % m, b, m) = Ahead(a, b, m) - 1 /\ Ahead(a, b, m) # 0
  <1>1. Ahead(a, b, m) = IF a <= b THEN b - a ELSE b + m - a
    BY Distance, Zenon
  <1>2. PICK c \in Counter(m) : c = (a + 1) % m /\ c = IF a + 1 < m THEN a + 1 ELSE 0
    BY Increment, Zenon
  <1>3. Ahead(c, b, m) = IF c <= b THEN b - c ELSE b + m - c
    BY Distance, Zenon
  <1>4. Ahead(c, b, m) = Ahead(a, b, m) - 1 /\ Ahead(a, b, m) # 0
    BY <1>1, <1>2, <1>3 DEF Size, Counter
  <1> QED
    BY <1>2, <1>4, Zenon

(* A counter between two others.                                            *)
LEMMA DistanceSplits ==
  ASSUME NEW m \in Size, NEW a \in Counter(m), NEW b \in Counter(m), NEW c \in Counter(m),
         Ahead(a, b, m) <= Ahead(a, c, m)
  PROVE  Ahead(b, c, m) = Ahead(a, c, m) - Ahead(a, b, m)
  <1>1. Ahead(a, b, m) = IF a <= b THEN b - a ELSE b + m - a
    BY Distance, Zenon
  <1>2. Ahead(a, c, m) = IF a <= c THEN c - a ELSE c + m - a
    BY Distance, Zenon
  <1>3. Ahead(b, c, m) = IF b <= c THEN c - b ELSE c + m - b
    BY Distance, Zenon
  <1> QED
    BY <1>1, <1>2, <1>3 DEF Size, Counter

(* The counter behind is incremented k times.                               *)
LEMMA DistanceSkips ==
  ASSUME NEW m \in Size, NEW a \in Counter(m), NEW b \in Counter(m),
         NEW k \in 0 .. Ahead(a, b, m)
  PROVE  /\ (a + k) % m \in Counter(m) /\ Ahead(a, (a + k) % m, m) = k
         /\ Ahead((a + k) % m, b, m) = Ahead(a, b, m) - k
  <1>1. Ahead(a, b, m) \in Counter(m)
    BY Distance, Zenon
  <1>2. k \in Counter(m) /\ k <= Ahead(a, b, m)
    BY <1>1 DEF Size, Counter
  <1>3. PICK c \in Counter(m) : c = (a + k) % m
    BY DEF Size, Counter
  <1>4. Ahead(a, c, m) = k
    BY <1>2, <1>3, DistanceIs, SMTT(20)
  <1>5. Ahead(c, b, m) = Ahead(a, b, m) - k
    BY <1>2, <1>4, DistanceSplits, Zenon
  <1> QED
    BY <1>3, <1>4, <1>5, Zenon

(* The counter in front goes back k times.                                  *)
LEMMA DistanceBack ==
  ASSUME NEW m \in Size, NEW a \in Counter(m), NEW b \in Counter(m),
         NEW k \in 0 .. Ahead(a, b, m)
  PROVE  /\ (b - k + m) % m \in Counter(m)
         /\ Ahead(a, (b - k + m) % m, m) = Ahead(a, b, m) - k
  <1>1. Ahead(a, b, m) = IF a <= b THEN b - a ELSE b + m - a
    BY Distance, Zenon
  <1>2. PICK d \in 0 .. 2 * m - 1 : d = b - k + m
    BY <1>1 DEF Size, Counter
  <1>3. d % m = IF d < m THEN d ELSE d - m
    BY Wrapped, Zenon
  <1>4. PICK c \in Counter(m) : c = d % m
    BY DEF Size, Counter
  <1>5. Ahead(a, c, m) = IF a <= c THEN c - a ELSE c + m - a
    BY Distance, Zenon
  <1>6. Ahead(a, c, m) = Ahead(a, b, m) - k
    BY <1>1, <1>2, <1>3, <1>4, <1>5 DEF Size, Counter
  <1> QED
    BY <1>2, <1>4, <1>6, Zenon

(* The slot of the counter in front, from that of the one behind.           *)
LEMMA FrontSlot ==
  ASSUME NEW m \in Size, NEW a \in Counter(m), NEW b \in Counter(m), NEW s \in Size, Divides(s, m)
  PROVE  (a + Ahead(a, b, m)) % s = b % s
  <1>1. Ahead(a, b, m) = IF a <= b THEN b - a ELSE b + m - a
    BY Distance, Zenon
  <1>2. a + Ahead(a, b, m) = b \/ a + Ahead(a, b, m) = b + m
    BY <1>1 DEF Size, Counter
  <1>3. b \in Nat /\ m \in Nat
    BY DEF Size, Counter
  <1>4. (b + m) % s = b % s
    BY <1>3, SameSlot, Zenon
  <1> QED
    BY <1>2, <1>4, Zenon

(* Slots counted from an incremented counter.                               *)
LEMMA NextSlots ==
  ASSUME NEW m \in Size, NEW a \in Counter(m), NEW k \in Nat, NEW s \in Size, Divides(s, m)
  PROVE  (((a + 1) % m) + k) % s = (a + k + 1) % s
  <1>1. PICK c \in Counter(m) : c = (a + 1) % m /\ c = IF a + 1 < m THEN a + 1 ELSE 0
    BY Increment, Zenon
  <1>2. c + k = a + k + 1 \/ c + k + m = a + k + 1
    BY <1>1 DEF Size, Counter
  <1>3. c + k \in Nat /\ m \in Nat
    BY DEF Size, Counter
  <1>4. (c + k + m) % s = (c + k) % s
    BY <1>3, SameSlot, Zenon
  <1>5. (c + k) % s = (a + k + 1) % s
    BY <1>2, <1>4, Zenon
  <1> QED
    BY <1>1, <1>5, Zenon

-----------------------------------------------------------------------------
(* What a buffer d of size s holds between counters a and b modulo m.       *)
Held(d, a, b, m, s) == [k \in 1 .. Ahead(a, b, m) |-> d[(a + k - 1) % s]]

(* d is a buffer with counters of a ring.                                   *)
IsRing(S, d, a, b, m, s) ==
  /\ m \in Size /\ s \in Size /\ Divides(s, m) /\ s < m
  /\ d \in Buffer(s, S) /\ a \in Counter(m) /\ b \in Counter(m)

(* e is d with x stored at i.                                               *)
Stores(e, d, i, x) == e = [d EXCEPT ![i] = x]

(* It is a sequence as long as the counters are apart.                      *)
LEMMA HeldIsSeq ==
  ASSUME NEW S, NEW m \in Size, NEW s \in Size, NEW d \in Buffer(s, S),
         NEW a \in Counter(m), NEW b \in Counter(m)
  PROVE  /\ Held(d, a, b, m, s) \in Seq(S)
         /\ Len(Held(d, a, b, m, s)) = Ahead(a, b, m)
  <1>1. PICK n \in Counter(m) : n = Ahead(a, b, m)
    BY Distance, Zenon
  <1>2. ASSUME NEW k \in 1 .. n
        PROVE  d[(a + k - 1) % s] \in S
    <2>1. a + k - 1 \in Nat
      BY DEF Size, Counter
    <2>2. (a + k - 1) % s \in Counter(s)
      BY <2>1, Slot, Zenon
    <2> QED
      BY <2>2, Zenon DEF Buffer
  <1>3. [k \in 1 .. n |-> d[(a + k - 1) % s]] \in [1 .. n -> S]
    BY <1>2, Zenon
  <1>4. n \in Nat
    BY DEF Size, Counter
  <1>5. ASSUME NEW f \in [1 .. n -> S]
        PROVE  f \in Seq(S) /\ Len(f) = n
    BY <1>4
  <1> QED
    BY <1>1, <1>3, <1>5, Zenon DEF Held

(* A buffer is empty when its counters are equal.                           *)
LEMMA HeldEmpty ==
  ASSUME NEW s, NEW d, NEW m \in Size, NEW a \in Counter(m)
  PROVE  Held(d, a, a, m, s) = <<>>
  <1>1. Ahead(a, a, m) = IF a <= a THEN a - a ELSE a + m - a
    BY Distance, Zenon
  <1>2. Ahead(a, a, m) = 0
    BY <1>1 DEF Size, Counter
  <1> QED
    BY <1>2 DEF Held

(* Storing at the counter in front appends, unless the buffer is full: no   *)
(* other element is in that slot.                                           *)
LEMMA RingPut ==
  ASSUME NEW S, NEW m, NEW s, NEW d, NEW a, NEW b, IsRing(S, d, a, b, m, s),
         NEW x \in S, Ahead(a, b, m) < s, NEW e, Stores(e, d, b % s, x)
  PROVE  Held(e, a, (b + 1) % m, m, s) = Append(Held(d, a, b, m, s), x)
  <1> SUFFICES ASSUME m \in Size, s \in Size, d \in Buffer(s, S), a \in Counter(m),
                      b \in Counter(m), Divides(s, m), s < m
               PROVE  Held(e, a, (b + 1) % m, m, s) = Append(Held(d, a, b, m, s), x)
    BY Zenon DEF IsRing
  <1> DEFINE c == (b + 1) % m
             n == Ahead(a, b, m)
             old == Held(d, a, b, m, s)
             new == Held(e, a, c, m, s)
  <1>1. n \in Counter(m) /\ c \in Counter(m)
    BY Distance, Increment, Zenon
  <1>2. b \in Nat
    BY DEF Counter
  <1>3. b % s \in Counter(s)
    BY <1>2, Slot, Zenon
  <1>4. e \in Buffer(s, S) /\ e[b % s] = x
    BY <1>3, Zenon DEF Buffer, Stores
  <1>5. Ahead(a, c, m) = n + 1
    <2>1. n + 1 < m
      BY <1>1 DEF Size, Counter
    <2> QED
      BY <2>1, DistanceGrows, Zenon
  <1>6. (a + n) % s = b % s
    BY FrontSlot, Zenon
  <1>7. /\ old \in Seq(S) /\ Len(old) = n
        /\ \A k \in 1 .. n : old[k] = d[(a + k - 1) % s]
    <2>1. old \in Seq(S) /\ Len(old) = n
      BY HeldIsSeq, ZenonT(40)
    <2> QED
      BY <2>1, Zenon DEF Held
  <1>8. \A i \in Counter(s) \ {b % s} : e[i] = d[i]
    BY Zenon DEF Buffer, Stores
  <1> HIDE DEF c
  <1>9. /\ new \in Seq(S) /\ Len(new) = Ahead(a, c, m)
        /\ \A k \in 1 .. Ahead(a, c, m) : new[k] = e[(a + k - 1) % s]
    <2>1. new \in Seq(S) /\ Len(new) = Ahead(a, c, m)
      <3>1. e \in Buffer(s, S) /\ c \in Counter(m)
        BY <1>1, <1>4, Zenon
      <3> QED
        BY <3>1, HeldIsSeq, ZenonT(30)
    <2> QED
      BY <2>1, Zenon DEF Held
  <1> HIDE DEF n, old, new
  <1>10. /\ Append(old, x) \in Seq(S) /\ Len(Append(old, x)) = n + 1
         /\ \A k \in 1 .. n : Append(old, x)[k] = old[k]
         /\ Append(old, x)[n + 1] = x
    BY <1>7, SeqAppend
  <1>11. ASSUME NEW k \in 1 .. n + 1
         PROVE  new[k] = Append(old, x)[k]
    <2>1. CASE k = n + 1
      <3>1. a + k - 1 = a + n
        BY <1>1, <2>1 DEF Size, Counter
      <3>2. new[k] = e[(a + k - 1) % s]
        BY <1>5, <1>9, Zenon
      <3> QED
        BY <1>4, <1>6, <1>10, <2>1, <3>1, <3>2, Zenon
    <2>2. CASE k \in 1 .. n
      <3>1. PICK i \in Nat : i = a + k - 1 /\ i < a + n /\ a + n < i + s
        BY <1>1, <2>2 DEF Size, Counter, n
      <3>2. a + n \in Nat
        BY <1>1 DEF Size, Counter
      <3>3. i % s # (a + n) % s
        BY <3>1, <3>2, OtherSlot, Zenon
      <3>4. i % s \in Counter(s)
        BY Slot, Zenon
      <3>5. e[i % s] = d[i % s]
        BY <1>6, <1>8, <3>3, <3>4, Zenon
      <3>6. new[k] = e[i % s]
        BY <1>5, <1>9, <3>1, Zenon
      <3> QED
        BY <1>7, <1>10, <2>2, <3>1, <3>5, <3>6, Zenon
    <2>3. n \in Nat
      BY <1>1 DEF Counter
    <2>4. k = n + 1 \/ k \in 1 .. n
      BY <2>3
    <2> QED
      BY <2>1, <2>2, <2>4, Zenon
  <1>12. new = Append(old, x)
    BY <1>5, <1>9, <1>10, <1>11, SameSeq, Zenon
  <1> QED
    BY <1>12, Zenon DEF c, old, new

(* Incrementing the counter behind takes the first element.                 *)
LEMMA RingGet ==
  ASSUME NEW S, NEW m, NEW s, NEW d, NEW a, NEW b, IsRing(S, d, a, b, m, s), a # b
  PROVE  /\ Held(d, a, b, m, s) # <<>>
         /\ Held(d, (a + 1) % m, b, m, s) = Tail(Held(d, a, b, m, s))
  <1> SUFFICES ASSUME m \in Size, s \in Size, d \in Buffer(s, S), a \in Counter(m),
                      b \in Counter(m), Divides(s, m)
               PROVE  /\ Held(d, a, b, m, s) # <<>>
                      /\ Held(d, (a + 1) % m, b, m, s) = Tail(Held(d, a, b, m, s))
    BY Zenon DEF IsRing
  <1> DEFINE c == (a + 1) % m
             n == Ahead(a, b, m)
             old == Held(d, a, b, m, s)
             new == Held(d, c, b, m, s)
  <1>1. n \in Counter(m) /\ c \in Counter(m)
    BY Distance, Increment, Zenon
  <1>2. Ahead(c, b, m) = n - 1 /\ n # 0
    BY DistanceShrinks, Zenon
  <1>3. /\ old \in Seq(S) /\ Len(old) = n
        /\ \A k \in 1 .. n : old[k] = d[(a + k - 1) % s]
    <2>1. old \in Seq(S) /\ Len(old) = n
      BY HeldIsSeq, ZenonT(40)
    <2> QED
      BY <2>1, Zenon DEF Held
  <1>4. \A j \in Nat : (c + j) % s = (a + j + 1) % s
    BY NextSlots, Zenon
  <1> HIDE DEF c
  <1>5. /\ new \in Seq(S) /\ Len(new) = Ahead(c, b, m)
        /\ \A k \in 1 .. Ahead(c, b, m) : new[k] = d[(c + k - 1) % s]
    <2>1. new \in Seq(S) /\ Len(new) = Ahead(c, b, m)
      <3>1. c \in Counter(m)
        BY <1>1, Zenon
      <3> QED
        BY <3>1, HeldIsSeq, ZenonT(30)
    <2> QED
      BY <2>1, Zenon DEF Held
  <1> HIDE DEF old, new, n
  <1>6. n \in Nat \ {0}
    BY <1>1, <1>2 DEF Counter
  <1>7. old # <<>>
    BY <1>3, <1>6, Zenon
  <1>8. /\ Tail(old) \in Seq(S) /\ Len(Tail(old)) = n - 1
        /\ \A k \in 1 .. n - 1 : Tail(old)[k] = old[k + 1]
    BY <1>3, <1>7, SeqTail, ZenonT(40)
  <1>9. ASSUME NEW k \in 1 .. n - 1
        PROVE  new[k] = Tail(old)[k]
    <2>1. PICK j \in Nat : j = k - 1
      BY <1>6
    <2>2. c + k - 1 = c + j /\ a + j + 1 = a + (k + 1) - 1
      BY <1>1, <1>6, <2>1 DEF Size, Counter
    <2>3. k + 1 \in 1 .. n
      BY <1>6
    <2>4. new[k] = d[(c + j) % s]
      BY <1>2, <1>5, <2>2, Zenon
    <2>5. old[k + 1] = d[(a + j + 1) % s]
      BY <1>3, <2>2, <2>3, Zenon
    <2>6. Tail(old)[k] = old[k + 1]
      BY <1>8, Zenon
    <2> QED
      BY <1>4, <2>4, <2>5, <2>6, Zenon
  <1>10. new = Tail(old)
    BY <1>2, <1>5, <1>8, <1>9, SameSeq, Zenon
  <1> QED
    BY <1>7, <1>10, Zenon DEF c, old, new

(* What a ring holds is a sequence.                                         *)
LEMMA HeldLength ==
  ASSUME NEW S, NEW m, NEW s, NEW d, NEW a, NEW b, IsRing(S, d, a, b, m, s)
  PROVE  /\ Held(d, a, b, m, s) \in Seq(S)
         /\ Len(Held(d, a, b, m, s)) = Ahead(a, b, m)
         /\ Ahead(a, b, m) \in Counter(m)
  <1>1. /\ m \in Size /\ s \in Size /\ d \in Buffer(s, S)
        /\ a \in Counter(m) /\ b \in Counter(m)
    BY Zenon DEF IsRing
  <1>2. Held(d, a, b, m, s) \in Seq(S) /\ Len(Held(d, a, b, m, s)) = Ahead(a, b, m)
    BY <1>1, HeldIsSeq, ZenonT(30)
  <1>3. Ahead(a, b, m) \in Counter(m)
    BY <1>1, Distance, Zenon
  <1> QED
    BY <1>2, <1>3, Zenon

(* Its first element.                                                       *)
LEMMA HeldFirst ==
  ASSUME NEW S, NEW m, NEW s, NEW d, NEW a, NEW b, IsRing(S, d, a, b, m, s), a # b
  PROVE  Held(d, a, b, m, s)[1] = d[a % s]
  <1>1. m \in Size /\ a \in Counter(m) /\ b \in Counter(m)
    BY Zenon DEF IsRing
  <1>2. Ahead(a, b, m) # 0 /\ Ahead(a, b, m) \in Counter(m)
    BY <1>1, DistanceShrinks, Distance, Zenon
  <1>3. 1 \in 1 .. Ahead(a, b, m) /\ a + 1 - 1 = a
    BY <1>1, <1>2 DEF Counter, Size
  <1> QED
    BY <1>3, Zenon DEF Held

(* Slots counted from a counter in front.                                   *)
LEMMA LaterSlots ==
  ASSUME NEW m \in Size, NEW a \in Counter(m), NEW b \in Counter(m), NEW k \in Nat,
         NEW s \in Size, Divides(s, m)
  PROVE  (a + Ahead(a, b, m) + k) % s = (b + k) % s
  <1>1. Ahead(a, b, m) = IF a <= b THEN b - a ELSE b + m - a
    BY Distance, Zenon
  <1>2. a + Ahead(a, b, m) + k = b + k \/ a + Ahead(a, b, m) + k = (b + k) + m
    BY <1>1 DEF Size, Counter
  <1>3. b + k \in Nat /\ m \in Nat
    BY DEF Size, Counter
  <1>4. ((b + k) + m) % s = (b + k) % s
    BY <1>3, SameSlot, Zenon
  <1> QED
    BY <1>2, <1>4, Zenon

(* Storing at a counter in front changes nothing before a counter between.  *)
LEMMA RingKeeps ==
  ASSUME NEW S, NEW m, NEW s, NEW d, NEW a, NEW b, IsRing(S, d, a, b, m, s),
         NEW c \in Counter(m), Ahead(a, c, m) <= Ahead(a, b, m), Ahead(a, b, m) < s,
         NEW x, NEW e, Stores(e, d, b % s, x)
  PROVE  Held(e, a, c, m, s) = Held(d, a, c, m, s)
  <1>1. /\ m \in Size /\ s \in Size /\ Divides(s, m) /\ d \in Buffer(s, S)
        /\ a \in Counter(m) /\ b \in Counter(m)
    BY Zenon DEF IsRing
  <1>2. Ahead(a, b, m) \in Counter(m) /\ Ahead(a, c, m) \in Counter(m)
    BY <1>1, Distance, Zenon
  <1>3. (a + Ahead(a, b, m)) % s = b % s
    BY <1>1, FrontSlot, Zenon
  <1>4. \A i \in Counter(s) \ {b % s} : e[i] = d[i]
    BY <1>1, Zenon DEF Buffer, Stores
  <1>5. ASSUME NEW k \in 1 .. Ahead(a, c, m)
        PROVE  e[(a + k - 1) % s] = d[(a + k - 1) % s]
    <2>3. PICK l \in Nat : l = Ahead(a, b, m) /\ k <= l /\ l < s
      BY <1>2 DEF Counter
    <2>4. a \in Nat /\ k \in Nat \ {0} /\ s \in Nat
      BY <1>1, <1>2 DEF Size, Counter
    <2>5. a + k - 1 \in Nat /\ a + l \in Nat /\ a + k - 1 < a + l /\ a + l < (a + k - 1) + s
      BY <2>3, <2>4
    <2>1. PICK i, j \in Nat : i = a + k - 1 /\ j = a + Ahead(a, b, m) /\ i < j /\ j < i + s
      BY <2>3, <2>5, Zenon
    <2>2. i % s # j % s /\ i % s \in Counter(s)
      BY <1>1, <2>1, OtherSlot, Slot, Zenon
    <2> QED
      BY <1>3, <1>4, <2>1, <2>2, Zenon
  <1> QED
    BY <1>5, Zenon DEF Held

(* What a ring holds, cut at a counter between.                             *)
LEMMA RingJoin ==
  ASSUME NEW S, NEW m, NEW s, NEW d, NEW a, NEW b, IsRing(S, d, a, b, m, s),
         NEW c \in Counter(m), Ahead(a, c, m) <= Ahead(a, b, m)
  PROVE  Held(d, a, b, m, s) = Held(d, a, c, m, s) \o Held(d, c, b, m, s)
  <1>1. /\ m \in Size /\ s \in Size /\ Divides(s, m) /\ d \in Buffer(s, S)
        /\ a \in Counter(m) /\ b \in Counter(m)
    BY Zenon DEF IsRing
  <1> DEFINE all == Held(d, a, b, m, s)
             low == Held(d, a, c, m, s)
             high == Held(d, c, b, m, s)
             i == Ahead(a, c, m)
             j == Ahead(c, b, m)
  <1>2. /\ all \in Seq(S) /\ Len(all) = Ahead(a, b, m)
        /\ \A k \in 1 .. Ahead(a, b, m) : all[k] = d[(a + k - 1) % s]
    <2>1. all \in Seq(S) /\ Len(all) = Ahead(a, b, m)
      BY <1>1, HeldIsSeq, ZenonT(40)
    <2> QED
      BY <2>1, Zenon DEF Held
  <1>3. /\ low \in Seq(S) /\ Len(low) = i
        /\ \A k \in 1 .. i : low[k] = d[(a + k - 1) % s]
    <2>1. low \in Seq(S) /\ Len(low) = i
      BY <1>1, HeldIsSeq, ZenonT(40)
    <2> QED
      BY <2>1, Zenon DEF Held
  <1>4. /\ high \in Seq(S) /\ Len(high) = j
        /\ \A k \in 1 .. j : high[k] = d[(c + k - 1) % s]
    <2>1. high \in Seq(S) /\ Len(high) = j
      BY <1>1, HeldIsSeq, ZenonT(40)
    <2> QED
      BY <2>1, Zenon DEF Held
  <1>5. i \in Nat /\ j \in Nat /\ Ahead(a, b, m) = i + j
    <2>1. i \in Counter(m) /\ j \in Counter(m) /\ Ahead(a, b, m) \in Counter(m)
      BY <1>1, Distance, Zenon
    <2>2. j = Ahead(a, b, m) - i
      BY <1>1, DistanceSplits, Zenon
    <2> QED
      BY <2>1, <2>2 DEF Counter
  <1>6. ASSUME NEW k \in 1 .. j
        PROVE  all[i + k] = high[k]
    <2>1. PICK l \in Nat : l = k - 1
      BY <1>5
    <2>2. /\ i + k \in 1 .. Ahead(a, b, m) /\ a + (i + k) - 1 = a + i + l
          /\ c + k - 1 = c + l
      BY <1>1, <1>5, <2>1 DEF Counter
    <2>3. (a + i + l) % s = (c + l) % s
      BY <1>1, LaterSlots, Zenon
    <2>4. all[i + k] = d[(a + i + l) % s] /\ high[k] = d[(c + l) % s]
      BY <1>2, <1>4, <2>2, Zenon
    <2> QED
      BY <2>3, <2>4, Zenon
  <1> HIDE DEF all, low, high, i, j
  <1>7. /\ low \o high \in Seq(S) /\ Len(low \o high) = i + j
        /\ \A k \in 1 .. i : (low \o high)[k] = low[k]
        /\ \A k \in 1 .. j : (low \o high)[i + k] = high[k]
    <2>1. low \in Seq(S) /\ high \in Seq(S)
      BY <1>3, <1>4, Zenon
    <2>2. /\ low \o high \in Seq(S) /\ Len(low \o high) = Len(low) + Len(high)
          /\ \A k \in 1 .. Len(low) : (low \o high)[k] = low[k]
          /\ \A k \in 1 .. Len(high) : (low \o high)[Len(low) + k] = high[k]
      BY <2>1, SeqConcat, SMTT(20)
    <2> QED
      BY <1>3, <1>4, <2>2, Zenon
  <1>8. ASSUME NEW k \in 1 .. i + j
        PROVE  all[k] = (low \o high)[k]
    <2>1. CASE k \in 1 .. i
      <3>1. k \in 1 .. Ahead(a, b, m)
        BY <1>5
      <3> QED
        BY <1>2, <1>3, <1>7, <2>1, <3>1, Zenon
    <2>2. CASE k \notin 1 .. i
      <3>1. PICK l \in 1 .. j : k = i + l
        BY <1>5, <2>2
      <3> QED
        BY <1>6, <1>7, <3>1, Zenon
    <2> QED
      BY <2>1, <2>2, Zenon
  <1>9. all = low \o high
    BY <1>2, <1>5, <1>7, <1>8, SameSeq, Zenon
  <1> QED
    BY <1>9, Zenon DEF all, low, high

(* Incrementing the counter behind k times takes the first k elements.      *)
LEMMA RingSkip ==
  ASSUME NEW S, NEW m, NEW s, NEW d, NEW a, NEW b, IsRing(S, d, a, b, m, s),
         NEW k \in 0 .. Ahead(a, b, m)
  PROVE  Held(d, (a + k) % m, b, m, s)
           = SubSeq(Held(d, a, b, m, s), k + 1, Len(Held(d, a, b, m, s)))
  <1>1. /\ m \in Size /\ s \in Size /\ Divides(s, m) /\ d \in Buffer(s, S)
        /\ a \in Counter(m) /\ b \in Counter(m)
    BY Zenon DEF IsRing
  <1>2. PICK c \in Counter(m) : /\ c = (a + k) % m /\ Ahead(a, c, m) = k
                                /\ Ahead(c, b, m) = Ahead(a, b, m) - k
    BY <1>1, DistanceSkips, Zenon
  <1> DEFINE all == Held(d, a, b, m, s)
             low == Held(d, a, c, m, s)
             high == Held(d, c, b, m, s)
  <1>3. all = low \o high
    <2>1. Ahead(a, c, m) <= Ahead(a, b, m)
      <3>1. Ahead(a, b, m) \in Counter(m)
        BY <1>1, Distance, Zenon
      <3> QED
        BY <1>2, <3>1 DEF Counter
    <2> QED
      BY <2>1, RingJoin, SMTT(20)
  <1>4. low \in Seq(S) /\ Len(low) = k
    BY <1>1, <1>2, HeldIsSeq, ZenonT(40)
  <1>5. high \in Seq(S) /\ Len(high) = Ahead(a, b, m) - k
    BY <1>1, <1>2, HeldIsSeq, ZenonT(40)
  <1>6. all \in Seq(S) /\ Len(all) = Ahead(a, b, m) /\ Ahead(a, b, m) \in Nat
    <2>1. Ahead(a, b, m) \in Counter(m)
      BY <1>1, Distance, Zenon
    <2>2. all \in Seq(S) /\ Len(all) = Ahead(a, b, m)
      BY <1>1, HeldIsSeq, ZenonT(40)
    <2> QED
      BY <2>1, <2>2 DEF Counter
  <1> HIDE DEF all, low, high
  <1>7. /\ SubSeq(all, k + 1, Len(all)) \in Seq(S)
        /\ Len(SubSeq(all, k + 1, Len(all))) = Len(all) - k
        /\ \A i \in 1 .. Len(all) - k : SubSeq(all, k + 1, Len(all))[i] = all[k + i]
    BY <1>6, SeqRest, ZenonT(40)
  <1>8. \A i \in 1 .. Len(high) : all[k + i] = high[i]
    BY <1>3, <1>4, <1>5, SeqConcat, SMTT(20)
  <1>9. high = SubSeq(all, k + 1, Len(all))
    BY <1>5, <1>6, <1>7, <1>8, SameSeq, Zenon
  <1> QED
    BY <1>2, <1>9, Zenon DEF all, high

=============================================================================
