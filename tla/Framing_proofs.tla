---------------------------- MODULE Framing_proofs -----------------------------
(***************************************************************************)
(* Proofs about Codec and Framing: what one side encodes the other         *)
(* decodes; however the bytes are cut, the server executes the requests of *)
(* a connection whole, once and in order, and each call of a client that   *)
(* does not give up returns the answer to its own request.                 *)
(***************************************************************************)
EXTENDS Framing, SequenceTheorems, FiniteSetTheorems, WellFoundedInduction, TLAPS

(***************************************************************************)
(* Induction, as sets that hold 0 and the successors                       *)
(***************************************************************************)
LEMMA LeastOne ==
  ASSUME NEW T \in SUBSET Nat, T # {}
  PROVE  \E n \in T : \A m \in T : n <= m
<1>1. PICK n \in T : \A m \in T : ~ (<<m, n>> \in OpToRel(<, Nat))
  BY NatLessThanWellFounded, WFMin
<1>2. \A m \in T : ~ (m < n)
  BY <1>1 DEF OpToRel
<1> QED
  BY <1>2

LEMMA AllNat ==
  ASSUME NEW T, 0 \in T, \A n \in Nat : n \in T => n + 1 \in T
  PROVE  Nat \subseteq T
<1> SUFFICES ASSUME Nat \ T # {}
             PROVE  FALSE
  OBVIOUS
<1>1. PICK n \in Nat \ T : \A m \in Nat \ T : n <= m
  BY LeastOne
<1>2. n # 0 /\ n - 1 \in Nat /\ ~ (n <= n - 1)
  BY <1>1
<1>3. n - 1 \in T
  BY <1>1, <1>2
<1> QED
  BY <1>1, <1>2, <1>3

LEMMA AllUpTo ==
  ASSUME NEW N \in Nat, NEW T, 0 \in T, \A n \in 0 .. N - 1 : n \in T => n + 1 \in T
  PROVE  0 .. N \subseteq T
<1> DEFINE S == {n \in Nat : n <= N => n \in T}
<1>1. 0 \in S
  OBVIOUS
<1>2. \A n \in Nat : n \in S => n + 1 \in S
  <2> SUFFICES ASSUME NEW n \in Nat, n <= N => n \in T, n + 1 <= N
               PROVE  n + 1 \in T
    OBVIOUS
  <2>1. n \in 0 .. N - 1
    OBVIOUS
  <2> QED
    BY <2>1
<1>3. Nat \subseteq S
  <2> HIDE DEF S
  <2> QED
    BY <1>1, <1>2, AllNat
<1> QED
  BY <1>3

(***************************************************************************)
(* Streams grow                                                            *)
(***************************************************************************)
\* a, 2a, 4a, ...
Doublings(a) ==
    {m \in Nat : \A S \in SUBSET Nat : a \in S /\ (\A x \in S : 2 * x \in S) => m \in S}

LEMMA DoublingsUnfolded ==
  ASSUME NEW a \in Nat
  PROVE  Doublings(a) = {a} \cup Doublings(2 * a)
<1> DEFINE D == {a} \cup Doublings(2 * a)
<1>1. D \subseteq Doublings(a)
  BY DEF Doublings
<1>2. a \in D /\ \A x \in D : 2 * x \in D
  BY DEF Doublings
<1>3. D \in SUBSET Nat
  BY DEF Doublings
<1> HIDE DEF D
<1>4. \A m \in Doublings(a) : m \in D
  BY <1>2, <1>3 DEF Doublings
<1> QED
  BY <1>1, <1>4 DEF D

LEMMA DoublingsAbove ==
  ASSUME NEW a \in Nat
  PROVE  \A m \in Doublings(a) : m \in Nat /\ m >= a
<1> DEFINE S == {m \in Nat : m >= a}
<1>1. S \in SUBSET Nat /\ a \in S /\ \A x \in S : 2 * x \in S
  OBVIOUS
<1> HIDE DEF S
<1>2. \A m \in Doublings(a) : m \in S
  BY <1>1 DEF Doublings
<1> QED
  BY <1>2 DEF S

LEMMA DoublingsUnbounded ==
  ASSUME NEW a \in Nat \ {0}, NEW n \in Nat
  PROVE  \E m \in Doublings(a) : m >= n
<1> DEFINE T == {k \in Nat : \E m \in Doublings(a) : m >= k}
<1>1. 0 \in T
  BY DoublingsUnfolded, DoublingsAbove
<1>2. \A k \in Nat : k \in T => k + 1 \in T
  <2> SUFFICES ASSUME NEW k \in Nat, NEW m \in Doublings(a), m >= k
               PROVE  \E l \in Doublings(a) : l >= k + 1
    OBVIOUS
  <2>1. m \in Nat /\ m >= a
    BY DoublingsAbove
  <2>2. 2 * m \in Doublings(a)
    BY <2>1 DEF Doublings
  <2> QED
    BY <2>1, <2>2
<1> HIDE DEF T
<1>3. n \in T
  BY <1>1, <1>2, AllNat
<1> QED
  BY <1>3 DEF T

LEMMA MinOfNats ==
  ASSUME NEW T \in SUBSET Nat, T # {}
  PROVE  Min(T) \in T /\ \A m \in T : Min(T) <= m
  BY LeastOne DEF Min

DoublesTo(f, n) == f = [k \in Nat |-> IF n <= k THEN k ELSE f[2 * k]]

LEMMA DoubledExists ==
  ASSUME NEW n \in Nat
  PROVE  \E f : DoublesTo(f, n)
<1> DEFINE up(k) == {m \in Doublings(k) : m >= n}
           g(k) == IF n <= k THEN k ELSE IF k = 0 THEN 0 ELSE Min(up(k))
           f == [k \in Nat |-> g(k)]
<1>1. ASSUME NEW k \in Nat
      PROVE  g(k) = IF n <= k THEN k ELSE g(2 * k)
  <2>1. CASE n <= k \/ k = 0
    BY <2>1
  <2>2. CASE n > k /\ k > 0
    <3>1. up(k) = up(2 * k)
      BY <2>2, DoublingsUnfolded
    <3>2. CASE n > 2 * k
      <4> HIDE DEF up
      <4> QED
        BY <2>2, <3>1, <3>2
    <3>3. CASE n <= 2 * k
      <4>1. 2 * k \in up(2 * k)
        BY <3>3, DoublingsUnfolded
      <4>2. up(2 * k) \in SUBSET Nat /\ \A m \in up(2 * k) : m >= 2 * k
        BY DoublingsAbove
      <4> HIDE DEF up
      <4>3. Min(up(2 * k)) \in up(2 * k) /\ Min(up(2 * k)) <= 2 * k
        BY <4>1, <4>2, MinOfNats
      <4>4. Min(up(2 * k)) = 2 * k
        BY <4>2, <4>3
      <4> QED
        BY <2>2, <3>1, <3>3, <4>4
    <3> QED
      BY <3>2, <3>3
  <2> QED
    BY <2>1, <2>2
<1> HIDE DEF g
<1>2. \A k \in Nat : f[k] = g(k)
  OBVIOUS
<1>3. f = [k \in Nat |-> IF n <= k THEN k ELSE f[2 * k]]
  BY <1>1, <1>2
<1> HIDE DEF f
<1> QED
  BY <1>3 DEF DoublesTo

\* bin_stream_resize: doubling a size that is not 0 ends, with room for what is
\* asked and with less than twice that when it had to grow.
THEOREM DoubledEnough ==
  ASSUME NEW size \in Nat \ {0}, NEW n \in Nat
  PROVE  /\ Doubled(size, n) \in Nat \ {0}
         /\ Doubled(size, n) >= size /\ Doubled(size, n) >= n
         /\ n > size => Doubled(size, n) < 2 * n
<1> DEFINE f == CHOOSE h : DoublesTo(h, n)
<1>1. Doubled(size, n) = f[size]
  BY Zenon DEF Doubled, DoublesTo
<1>2. ASSUME NEW k \in Nat
      PROVE  f[k] = IF n <= k THEN k ELSE f[2 * k]
  <2>1. DoublesTo(f, n)
    BY DoubledExists
  <2> HIDE DEF f
  <2> QED
    BY <2>1 DEF DoublesTo
<1> HIDE DEF f
<1> DEFINE P(k) == /\ f[k] \in Nat \ {0} /\ f[k] >= k /\ f[k] >= n
                   /\ n > k => f[k] < 2 * n
           T == {d \in Nat : \A k \in Nat \ {0} : n <= k + d => P(k)}
<1>3. 0 \in T
  BY <1>2
<1>4. \A d \in Nat : d \in T => d + 1 \in T
  <2> HIDE DEF P
  <2> SUFFICES ASSUME NEW d \in Nat, \A k \in Nat \ {0} : n <= k + d => P(k),
                      NEW k \in Nat \ {0}, n <= k + (d + 1)
               PROVE  P(k)
    OBVIOUS
  <2> USE DEF P
  <2>1. CASE n <= k
    BY <1>2, <2>1
  <2>2. CASE n > k
    <3>1. 2 * k \in Nat \ {0} /\ n <= 2 * k + d
      OBVIOUS
    <3>2. P(2 * k)
      BY <3>1
    <3>3. n <= 2 * k => f[2 * k] = 2 * k
      BY <1>2
    <3>4. f[k] = f[2 * k]
      BY <1>2, <2>2
    <3> QED
      BY <2>2, <3>2, <3>3, <3>4
  <2> QED
    BY <2>1, <2>2
<1> HIDE DEF T
<1>5. n \in T
  BY <1>3, <1>4, AllNat
<1> QED
  BY <1>1, <1>5 DEF T

(***************************************************************************)
(* Reading back what was written                                           *)
(***************************************************************************)
Byte == 0 .. 255
HalfWord == 65536
Word == 4294967296

Stream == [data : Seq(Byte), rsize : Nat, size : Nat \ {0}]
Good(s) == s \in Stream /\ s.rsize <= Used(s)

\* The next bytes of s are those of b.
Ahead(s, b) ==
    /\ Good(s) /\ b \in Seq(Byte) /\ s.rsize + Len(b) <= Used(s)
    /\ \A p \in 1 .. Len(b) : s.data[s.rsize + p] = b[p]

Advance(s, n) == [s EXCEPT !.rsize = @ + n]

LEMMA AheadOfBoth ==
  ASSUME NEW s, NEW b \in Seq(Byte), NEW c \in Seq(Byte), Ahead(s, b \o c)
  PROVE  Ahead(s, b) /\ Ahead(Advance(s, Len(b)), c)
<1>1. /\ Len(b \o c) = Len(b) + Len(c) /\ Len(b) \in Nat /\ Len(c) \in Nat
      /\ \A p \in 1 .. Len(b) : (b \o c)[p] = b[p]
      /\ \A p \in 1 .. Len(c) : (b \o c)[Len(b) + p] = c[p]
  BY ConcatProperties
<1>2. s \in Stream /\ s.rsize \in Nat /\ Len(s.data) \in Nat
  BY DEF Ahead, Good, Stream
<1>3. /\ Advance(s, Len(b)) \in Stream
      /\ Advance(s, Len(b)).data = s.data /\ Advance(s, Len(b)).rsize = s.rsize + Len(b)
  BY <1>1, <1>2 DEF Advance, Stream
<1>4. s.rsize + (Len(b) + Len(c)) <= Used(s)
  BY <1>1 DEF Ahead
<1>5. \A p \in 1 .. Len(b) + Len(c) : s.data[s.rsize + p] = (b \o c)[p]
  BY <1>1 DEF Ahead
<1>6. Ahead(s, b)
  <2>1. \A p \in 1 .. Len(b) : p \in 1 .. Len(b) + Len(c)
    BY <1>1
  <2> QED
    BY <1>1, <1>2, <1>4, <1>5, <2>1 DEF Ahead, Good, Used
<1>7. Ahead(Advance(s, Len(b)), c)
  <2>1. \A p \in 1 .. Len(c) : /\ Len(b) + p \in 1 .. Len(b) + Len(c)
                               /\ s.rsize + (Len(b) + p) = (s.rsize + Len(b)) + p
    BY <1>1, <1>2
  <2>2. \A p \in 1 .. Len(c) : s.data[(s.rsize + Len(b)) + p] = c[p]
    BY <1>1, <1>5, <2>1
  <2> QED
    BY <1>1, <1>2, <1>3, <1>4, <2>2 DEF Ahead, Good, Used
<1> QED
  BY <1>6, <1>7

LEMMA AtAhead ==
  ASSUME NEW s, NEW b, Ahead(s, b)
  PROVE  At(s, s.rsize, Len(b)) = b
<1>1. s.rsize \in Nat /\ Len(b) \in Nat /\ b \in Seq(Byte)
  BY DEF Ahead, Good, Stream
<1> DEFINE x == SubSeq(s.data, s.rsize + 1, s.rsize + Len(b))
<1>2. \A i \in s.rsize + 1 .. s.rsize + Len(b) : s.data[i] \in Byte
  <2> SUFFICES ASSUME NEW i \in s.rsize + 1 .. s.rsize + Len(b)
               PROVE  s.data[i] \in Byte
    OBVIOUS
  <2>1. i \in 1 .. Len(s.data) /\ s.data \in Seq(Byte)
    BY <1>1 DEF Ahead, Good, Stream, Used
  <2> QED
    BY <2>1
<1>3. /\ x \in Seq(Byte) /\ Len(x) = Len(b)
      /\ \A i \in 1 .. Len(b) : x[i] = s.data[s.rsize + 1 + i - 1]
  <2> DEFINE m == s.rsize + 1
             n == s.rsize + Len(b)
  <2>1. m \in Int /\ n \in Int /\ n - m + 1 = Len(b)
    BY <1>1
  <2>2. \A i \in m .. n : s.data[i] \in Byte
    BY <1>2
  <2>3. m <= n \/ Len(b) = 0
    BY <1>1
  <2>4. x = SubSeq(s.data, m, n)
    OBVIOUS
  <2> HIDE DEF m, n, x
  <2>5. /\ x \in Seq(Byte)
        /\ Len(x) = IF m <= n THEN n - m + 1 ELSE 0
        /\ \A i \in 1 .. n - m + 1 : x[i] = s.data[m + i - 1]
    BY <2>1, <2>2, <2>4, SubSeqProperties
  <2>6. Len(x) = Len(b)
    BY <2>1, <2>3, <2>5
  <2> QED
    BY <2>1, <2>5, <2>6 DEF m
<1>4. \A i \in 1 .. Len(b) : x[i] = b[i]
  <2> SUFFICES ASSUME NEW i \in 1 .. Len(b)
               PROVE  x[i] = b[i]
    OBVIOUS
  <2>1. s.rsize + 1 + i - 1 = s.rsize + i
    BY <1>1
  <2> HIDE DEF x
  <2> QED
    BY <1>3, <2>1 DEF Ahead
<1> HIDE DEF x
<1>5. x = b
  BY <1>1, <1>3, <1>4, SeqEqual
<1> QED
  BY <1>5 DEF At, x

LEMMA Digits2 ==
  ASSUME NEW v \in Nat, v < HalfWord
  PROVE  /\ Put2(v) \in Seq(Byte) /\ Len(Put2(v)) = 2
         /\ Get2(Put2(v)) = v
<1> DEFINE q == v \div 256
           r == v % 256
<1>1. q \in Nat /\ r \in 0 .. 255 /\ 256 * q + r = v
  <2>1. q \in Nat
    BY SMT
  <2>2. r \in 0 .. 255
    BY SMT
  <2>3. 256 * q + r = v
    BY SMT
  <2> QED
    BY <2>1, <2>2, <2>3
<1>2. Put2(v) = <<q % 256, r>>
  BY DEF Put2
<1> HIDE DEF q, r
<1>3. q < 256
  BY SMT, <1>1 DEF HalfWord
<1>4. q % 256 = q
  BY SMT, <1>1, <1>3
<1>5. Put2(v) = <<q, r>>
  BY <1>2, <1>4
<1>6. q \in Byte /\ r \in Byte
  BY SMT, <1>1, <1>3 DEF Byte
<1>7. Put2(v) \in Seq(Byte) /\ Len(Put2(v)) = 2 /\ Put2(v)[1] = q /\ Put2(v)[2] = r
  BY SMT, <1>5, <1>6
<1> QED
  BY SMT, <1>1, <1>7 DEF Get2

LEMMA Digits4 ==
  ASSUME NEW v \in Nat, v < Word
  PROVE  /\ Put4(v) \in Seq(Byte) /\ Len(Put4(v)) = 4
         /\ Get4(Put4(v)) = v
<1> DEFINE h == v \div 65536
           l == v % 65536
<1>1. v < 4294967296
  BY SMT DEF Word
<1>2. h \in Nat /\ l \in Nat /\ l < 65536 /\ 65536 * h + l = v
  <2>1. h \in Nat
    BY SMT
  <2>2. l \in Nat /\ l < 65536
    BY SMT
  <2>3. 65536 * h + l = v
    BY SMT
  <2> HIDE DEF h, l
  <2> QED
    BY SMT, <2>1, <2>2, <2>3
<1>3. Put4(v) = Put2(h) \o Put2(v)
  BY DEF Put4
<1> HIDE DEF h, l
<1>4. h < 65536
  BY SMT, <1>1, <1>2
<1>5. Put2(v) = Put2(l)
  <2>1. v \div 256 = 256 * h + l \div 256
    BY SMT, <1>2
  <2>2. v \div 256 % 256 = l \div 256 % 256
    BY SMT, <1>2, <2>1
  <2>3. v % 256 = l % 256
    BY SMT, <1>2
  <2> QED
    BY <2>2, <2>3 DEF Put2
<1> DEFINE a == Put2(h)
           b == Put2(l)
<1>6. a \in Seq(Byte) /\ Len(a) = 2 /\ Get2(a) = h /\ b \in Seq(Byte) /\ Len(b) = 2 /\ Get2(b) = l
  BY SMT, <1>2, <1>4, Digits2 DEF HalfWord
<1>7. Put4(v) = a \o b
  BY <1>3, <1>5
<1> DEFINE f == Put4(v)
<1> HIDE DEF a, b, f
<1>8. /\ f \in Seq(Byte) /\ Len(f) = Len(a) + Len(b)
      /\ \A i \in 1 .. Len(a) + Len(b) : f[i] = IF i <= Len(a) THEN a[i] ELSE b[i - Len(a)]
  <2>1. /\ a \o b \in Seq(Byte) /\ Len(a \o b) = Len(a) + Len(b)
        /\ \A i \in 1 .. Len(a) + Len(b) :
              (a \o b)[i] = IF i <= Len(a) THEN a[i] ELSE b[i - Len(a)]
    BY <1>6, ConcatProperties
  <2>2. f = a \o b
    BY <1>7 DEF f
  <2> QED
    BY <2>1, <2>2
<1>9. /\ Len(f) = 4
      /\ f[1] = a[1] /\ f[2] = a[2] /\ f[3] = b[1] /\ f[4] = b[2]
  BY SMT, <1>6, <1>8
<1>10. SubSeq(f, 3, 4)[1] = f[3] /\ SubSeq(f, 3, 4)[2] = f[4]
  BY SMT, <1>8, <1>9
<1>11. Get2(f) = h /\ Get2(SubSeq(f, 3, 4)) = l
  BY <1>6, <1>9, <1>10 DEF Get2
<1>12. Get4(f) = v
  BY SMT, <1>2, <1>11 DEF Get4
<1> QED
  BY <1>8, <1>9, <1>12 DEF f

LEMMA AdvanceTwice ==
  ASSUME NEW s \in Stream, NEW m \in Nat, NEW n \in Nat
  PROVE  /\ Advance(s, m) \in Stream /\ Advance(s, m).data = s.data
         /\ Advance(s, m).rsize = s.rsize + m /\ Advance(s, m).size = s.size
         /\ Advance(Advance(s, m), n) = Advance(s, m + n)
<1>1. /\ Advance(s, m) \in Stream /\ Advance(s, m).data = s.data
      /\ Advance(s, m).rsize = s.rsize + m /\ Advance(s, m).size = s.size
  BY DEF Advance, Stream
<1>2. s.rsize + m + n = s.rsize + (m + n)
  BY DEF Stream
<1>3. Advance(Advance(s, m), n) = [s EXCEPT !.rsize = s.rsize + m + n]
  BY DEF Advance, Stream
<1> QED
  BY <1>1, <1>2, <1>3 DEF Advance

LEMMA ReadsU16 ==
  ASSUME NEW s, NEW v \in Nat, v < HalfWord, Ahead(s, Put2(v))
  PROVE  ReadU16(s) = [val |-> v, s |-> Advance(s, 2), ok |-> TRUE]
<1>1. Put2(v) \in Seq(Byte) /\ Len(Put2(v)) = 2 /\ Get2(Put2(v)) = v
  BY Digits2
<1>2. At(s, s.rsize, 2) = Put2(v)
  BY <1>1, AtAhead
<1>3. ~ (Used(s) < s.rsize + 2)
  BY <1>1 DEF Ahead, Good, Stream, Used
<1> QED
  BY <1>1, <1>2, <1>3 DEF ReadU16, Number, Advance

LEMMA ReadsU32 ==
  ASSUME NEW s, NEW v \in Nat, v < Word, Ahead(s, Put4(v))
  PROVE  ReadU32(s) = [val |-> v, s |-> Advance(s, 4), ok |-> TRUE]
<1>1. Put4(v) \in Seq(Byte) /\ Len(Put4(v)) = 4 /\ Get4(Put4(v)) = v
  BY Digits4
<1>2. At(s, s.rsize, 4) = Put4(v)
  BY <1>1, AtAhead
<1>3. ~ (Used(s) < s.rsize + 4)
  BY <1>1 DEF Ahead, Good, Stream, Used
<1> QED
  BY <1>1, <1>2, <1>3 DEF ReadU32, Number, Advance

LEMMA ReadsData ==
  ASSUME NEW s, NEW max \in Nat, NEW v \in Seq(Byte), Len(v) <= max, Len(v) < Word,
         Ahead(s, PutData(v))
  PROVE  ReadData(s, max) = [val |-> v, s |-> Advance(s, 4 + Len(v)), ok |-> TRUE]
<1> DEFINE n == Len(v)
           t == Advance(s, 4)
<1>1. n \in Nat
  BY LenProperties
<1>2. Put4(n) \in Seq(Byte) /\ Len(Put4(n)) = 4
  BY <1>1, Digits4
<1>3. Ahead(s, Put4(n)) /\ Ahead(t, v)
  <2>1. Ahead(s, Put4(n) \o v)
    BY DEF PutData
  <2>2. Ahead(s, Put4(n)) /\ Ahead(Advance(s, Len(Put4(n))), v)
    BY <1>2, <2>1, AheadOfBoth
  <2> QED
    BY <1>2, <2>2
<1>4. ReadU32(s) = [val |-> n, s |-> t, ok |-> TRUE]
  BY <1>1, <1>3, ReadsU32
<1>5. At(t, t.rsize, n) = v
  BY <1>3, AtAhead
<1>6. s \in Stream /\ Used(t) = Used(s) /\ t.data = s.data
  BY <1>3, AdvanceTwice DEF Ahead, Good, Used
<1>7. t.rsize + n <= Used(t)
  BY <1>3 DEF Ahead
<1>8. Advance(t, n) = Advance(s, 4 + n)
  BY <1>1, <1>6, AdvanceTwice
<1>9. ~ (n > max) /\ ~ (t.rsize + n > Used(s))
  <2>1. t.rsize \in Nat /\ Used(t) \in Nat
    BY <1>3 DEF Ahead, Good, Stream, Used
  <2> QED
    BY <1>1, <1>6, <1>7, <2>1
<1> HIDE DEF n, t
<1>10. ReadData(s, max) = [val |-> At(t, t.rsize, n), s |-> [t EXCEPT !.rsize = @ + n], ok |-> TRUE]
  <2> DEFINE r == ReadU32(s)
  <2>1. r.val = n /\ r.s = t
    BY <1>4
  <2>2. ReadData(s, max) = IF r.val > max \/ r.s.rsize + r.val > Used(s)
                           THEN [val |-> <<>>, s |-> r.s, ok |-> FALSE]
                           ELSE [val |-> At(s, r.s.rsize, r.val),
                                 s |-> [r.s EXCEPT !.rsize = @ + r.val], ok |-> TRUE]
    BY DEF ReadData
  <2>3. At(s, t.rsize, n) = At(t, t.rsize, n)
    BY <1>6 DEF At
  <2> HIDE DEF r
  <2> QED
    BY <1>9, <2>1, <2>2, <2>3
<1> QED
  BY <1>5, <1>8, <1>10 DEF n, Advance

(***************************************************************************)
(* Fields and messages                                                     *)
(***************************************************************************)
\* What field f writes, field g reads.
Alike(f, g) ==
    /\ f.kind \in {"u16", "u32", "str"}
    /\ f.kind = g.kind /\ f.name = g.name /\ g.max \in Nat

\* A value that field g can hold.
Fits(g, v) ==
    \/ g.kind = "u16" /\ v \in Nat /\ v < HalfWord
    \/ g.kind = "u32" /\ v \in Nat /\ v < Word
    \/ g.kind = "str" /\ v \in Seq(Byte) /\ Len(v) <= g.max /\ Len(v) < Word

LEMMA FieldBytes ==
  ASSUME NEW f, NEW g, Alike(f, g), NEW v, Fits(g, v)
  PROVE  PutField(f, v) \in Seq(Byte)
<1>1. CASE f.kind = "u16"
  <2>1. PutField(f, v) = Put2(v) /\ v \in Nat /\ v < HalfWord
    BY SMT, <1>1 DEF PutField, Alike, Fits
  <2> QED
    BY <2>1, Digits2
<1>2. CASE f.kind = "u32"
  <2>1. PutField(f, v) = Put4(v) /\ v \in Nat /\ v < Word
    BY SMT, <1>2 DEF PutField, Alike, Fits
  <2> QED
    BY <2>1, Digits4
<1>3. CASE f.kind = "str"
  <2>1. PutField(f, v) = Put4(Len(v)) \o v /\ v \in Seq(Byte) /\ Len(v) < Word
    BY SMT, <1>3 DEF PutField, Alike, Fits, PutData
  <2>2. Put4(Len(v)) \in Seq(Byte)
    BY <2>1, Digits4, LenProperties
  <2> QED
    BY <2>1, <2>2, ConcatProperties
<1> QED
  BY <1>1, <1>2, <1>3 DEF Alike

LEMMA FieldRead ==
  ASSUME NEW f, NEW g, Alike(f, g), NEW v, Fits(g, v), NEW s, Ahead(s, PutField(f, v))
  PROVE  GetField(g, s) = [val |-> v, s |-> Advance(s, Len(PutField(f, v))), ok |-> TRUE]
<1>1. CASE f.kind = "u16"
  <2>1. PutField(f, v) = Put2(v) /\ GetField(g, s) = ReadU16(s) /\ v \in Nat /\ v < HalfWord
    BY SMT, <1>1 DEF PutField, GetField, Alike, Fits
  <2>2. Len(Put2(v)) = 2
    BY <2>1, Digits2
  <2> QED
    BY <2>1, <2>2, ReadsU16
<1>2. CASE f.kind = "u32"
  <2>1. PutField(f, v) = Put4(v) /\ GetField(g, s) = ReadU32(s) /\ v \in Nat /\ v < Word
    BY SMT, <1>2 DEF PutField, GetField, Alike, Fits
  <2>2. Len(Put4(v)) = 4
    BY <2>1, Digits4
  <2> QED
    BY <2>1, <2>2, ReadsU32
<1>3. CASE f.kind = "str"
  <2>1. /\ PutField(f, v) = PutData(v) /\ GetField(g, s) = ReadData(s, g.max)
        /\ v \in Seq(Byte) /\ Len(v) <= g.max /\ Len(v) < Word /\ g.max \in Nat
    BY SMT, <1>3 DEF PutField, GetField, Alike, Fits
  <2>2. Len(PutData(v)) = 4 + Len(v)
    <3>1. Len(v) \in Nat
      BY <2>1, LenProperties
    <3>2. Put4(Len(v)) \in Seq(Byte) /\ Len(Put4(Len(v))) = 4
      BY <2>1, <3>1, Digits4
    <3>3. Len(Put4(Len(v)) \o v) = Len(Put4(Len(v))) + Len(v)
      BY <2>1, <3>2, ConcatProperties
    <3> QED
      BY <3>2, <3>3 DEF PutData
  <2> QED
    BY <2>1, <2>2, ReadsData
<1> QED
  BY <1>1, <1>2, <1>3 DEF Alike

\* f[i] is what the first i of N pieces g write.
Pieces(f, g, N) == f = [i \in 0 .. N |-> IF i = 0 THEN <<>> ELSE f[i - 1] \o g[i]]

LEMMA PiecesExist ==
  ASSUME NEW g, NEW N \in Nat
  PROVE  \E f : Pieces(f, g, N)
<1> DEFINE T == {n \in Nat : \E f : Pieces(f, g, n)}
<1>1. 0 \in T
  <2> DEFINE f == [i \in 0 .. 0 |-> <<>>]
  <2>1. f = [i \in 0 .. 0 |-> IF i = 0 THEN <<>> ELSE f[i - 1] \o g[i]]
    OBVIOUS
  <2> HIDE DEF f
  <2> QED
    BY <2>1 DEF Pieces
<1>2. \A n \in Nat : n \in T => n + 1 \in T
  <2> SUFFICES ASSUME NEW n \in Nat, NEW f, Pieces(f, g, n)
               PROVE  \E h : Pieces(h, g, n + 1)
    OBVIOUS
  <2> DEFINE h == [i \in 0 .. n + 1 |-> IF i <= n THEN f[i] ELSE f[n] \o g[n + 1]]
  <2>1. \A i \in 0 .. n : h[i] = f[i]
    OBVIOUS
  <2>2. h[n + 1] = f[n] \o g[n + 1]
    OBVIOUS
  <2>3. \A i \in 0 .. n : f[i] = IF i = 0 THEN <<>> ELSE f[i - 1] \o g[i]
    BY DEF Pieces
  <2>4. h = [i \in 0 .. n + 1 |-> h[i]]
    OBVIOUS
  <2> HIDE DEF h
  <2>5. \A i \in 0 .. n + 1 : h[i] = IF i = 0 THEN <<>> ELSE h[i - 1] \o g[i]
    <3> SUFFICES ASSUME NEW i \in 0 .. n + 1
                 PROVE  h[i] = IF i = 0 THEN <<>> ELSE h[i - 1] \o g[i]
      OBVIOUS
    <3>1. CASE i = n + 1
      <4>1. i # 0 /\ i - 1 = n /\ n \in 0 .. n
        BY <3>1
      <4> QED
        BY <2>1, <2>2, <3>1, <4>1
    <3>2. CASE i = 0
      <4>1. 0 \in 0 .. n
        OBVIOUS
      <4> QED
        BY <2>1, <2>3, <3>2, <4>1
    <3>3. CASE i \in 1 .. n
      <4>1. i \in 0 .. n /\ i - 1 \in 0 .. n /\ i # 0
        BY <3>3
      <4> QED
        BY <2>1, <2>3, <4>1
    <3> QED
      BY <3>1, <3>2, <3>3
  <2>6. Pieces(h, g, n + 1)
    BY <2>4, <2>5 DEF Pieces
  <2> QED
    BY <2>6
<1> HIDE DEF T
<1>3. N \in T
  BY <1>1, <1>2, AllNat
<1> QED
  BY <1>3 DEF T

\* What the first i fields write.
Written(fields, msg) ==
    CHOOSE f : f = [i \in 0 .. Len(fields) |->
                      IF i = 0 THEN <<>>
                      ELSE f[i - 1] \o PutField(fields[i], msg[fields[i].name])]

LEMMA WrittenSteps ==
  ASSUME NEW fields, Len(fields) \in Nat, NEW msg
  PROVE  /\ Encode(fields, msg) = Written(fields, msg)[Len(fields)]
         /\ Written(fields, msg)[0] = <<>>
         /\ \A i \in 1 .. Len(fields) :
               Written(fields, msg)[i] =
                  Written(fields, msg)[i - 1] \o PutField(fields[i], msg[fields[i].name])
<1> DEFINE N == Len(fields)
           g == [i \in 1 .. N |-> PutField(fields[i], msg[fields[i].name])]
           w == Written(fields, msg)
           IsW(f) == f = [i \in 0 .. N |->
                             IF i = 0 THEN <<>>
                             ELSE f[i - 1] \o PutField(fields[i], msg[fields[i].name])]
<1>1. Encode(fields, msg) = w[N]
  BY Zenon DEF Encode, Written
<1>2. \A i \in 1 .. N : g[i] = PutField(fields[i], msg[fields[i].name])
  OBVIOUS
<1>3. \E f : IsW(f)
  <2>1. PICK f : Pieces(f, g, N)
    BY PiecesExist
  <2>2. f = [i \in 0 .. N |-> IF i = 0 THEN <<>> ELSE f[i - 1] \o g[i]]
    BY <2>1 DEF Pieces
  <2> HIDE DEF g
  <2>3. \A i \in 0 .. N : i = 0 \/ i \in 1 .. N
    OBVIOUS
  <2>4. f = [i \in 0 .. N |->
               IF i = 0 THEN <<>>
               ELSE f[i - 1] \o PutField(fields[i], msg[fields[i].name])]
    BY <1>2, <2>2, <2>3
  <2> QED
    BY <2>4
<1>4. IsW(w)
  <2>1. w = CHOOSE f : IsW(f)
    BY Zenon DEF Written
  <2> HIDE DEF IsW, w
  <2> QED
    BY <1>3, <2>1
<1> HIDE DEF w
<1>5. w[0] = <<>>
  BY <1>4
<1>6. \A i \in 1 .. N : w[i] = w[i - 1] \o PutField(fields[i], msg[fields[i].name])
  <2>1. \A i \in 1 .. N : i \in 0 .. N /\ i # 0
    OBVIOUS
  <2> QED
    BY <1>4, <2>1
<1> QED
  BY <1>1, <1>5, <1>6 DEF w

\* One more field is read into the message.
Add(before, f) ==
    IF before.ok
    THEN [msg |-> With(before.msg, f.name, GetField(f, before.s).val),
          s |-> GetField(f, before.s).s, ok |-> GetField(f, before.s).ok]
    ELSE before

\* f[i] is what reading the first i fields gives.
IsRead(f, fields, s) ==
    f = [i \in 0 .. Len(fields) |->
            IF i = 0 THEN [msg |-> <<>>, s |-> s, ok |-> TRUE]
            ELSE Once(f[i - 1], LAMBDA before : Add(before, fields[i]))]

LEMMA DecodeUnfolded ==
  ASSUME NEW fields, NEW s
  PROVE  Decode(fields, s) = (CHOOSE f : IsRead(f, fields, s))[Len(fields)]
  BY Zenon DEF Decode, IsRead, Add

LEMMA OnceIs ==
  ASSUME NEW b, NEW f
  PROVE  Once(b, LAMBDA before : Add(before, f)) = Add(b, f)
  BY DEF Once

LEMMA EmptyMessage ==
  ASSUME NEW msg
  PROVE  [x \in {} |-> msg[x]] = <<>>
  OBVIOUS

\* The decoder dec reads the fields the encoder enc writes.
Matches(enc, dec) ==
    /\ Len(enc) \in Nat /\ Len(dec) = Len(enc)
    /\ \A i \in 1 .. Len(enc) : Alike(enc[i], dec[i])

\* A message of just the fields of dec, which fit.
Message(dec, msg) ==
    /\ msg = [x \in {dec[i].name : i \in 1 .. Len(dec)} |-> msg[x]]
    /\ \A i \in 1 .. Len(dec) : Fits(dec[i], msg[dec[i].name])

LEMMA WrittenBytes ==
  ASSUME NEW enc, NEW dec, Matches(enc, dec), NEW msg, Message(dec, msg)
  PROVE  /\ \A i \in 1 .. Len(enc) : PutField(enc[i], msg[enc[i].name]) \in Seq(Byte)
         /\ \A i \in 0 .. Len(enc) : Written(enc, msg)[i] \in Seq(Byte)
         /\ Encode(enc, msg) \in Seq(Byte)
<1> DEFINE N == Len(enc)
           w == Written(enc, msg)
           p == [i \in 1 .. N |-> PutField(enc[i], msg[enc[i].name])]
<1>0. N \in Nat
  BY DEF Matches
<1>1. \A i \in 1 .. N : p[i] \in Seq(Byte)
  <2> SUFFICES ASSUME NEW i \in 1 .. N
               PROVE  p[i] \in Seq(Byte)
    OBVIOUS
  <2>1. Alike(enc[i], dec[i]) /\ enc[i].name = dec[i].name /\ Fits(dec[i], msg[enc[i].name])
    BY DEF Alike, Matches, Message
  <2> QED
    BY <2>1, FieldBytes
<1>2. /\ Encode(enc, msg) = w[N] /\ w[0] = <<>>
      /\ \A i \in 1 .. N : w[i] = w[i - 1] \o p[i]
  BY <1>0, WrittenSteps
<1> HIDE DEF w, p, N
<1> USE <1>0
<1>3. \A i \in 0 .. N : w[i] \in Seq(Byte)
  <2> DEFINE T == {i \in Nat : w[i] \in Seq(Byte)}
  <2>1. 0 \in T
    BY <1>2, EmptySeq
  <2>2. \A i \in 0 .. N - 1 : i \in T => i + 1 \in T
    <3> SUFFICES ASSUME NEW i \in 0 .. N - 1, w[i] \in Seq(Byte)
                 PROVE  w[i + 1] \in Seq(Byte)
      OBVIOUS
    <3> DEFINE j == i + 1
    <3>1. j \in 1 .. N /\ j - 1 = i
      OBVIOUS
    <3> HIDE DEF j
    <3>2. w[j] = w[j - 1] \o p[j]
      BY <1>2, <3>1
    <3>3. p[j] \in Seq(Byte)
      BY <1>1, <3>1
    <3>4. w[i] \o p[j] \in Seq(Byte)
      BY <3>3, ConcatProperties
    <3> QED
      BY <3>1, <3>2, <3>4 DEF j
  <2> HIDE DEF T
  <2>3. 0 .. N \subseteq T
    BY <2>1, <2>2, AllUpTo, <1>0
  <2> QED
    BY <2>3 DEF T
<1>4. Encode(enc, msg) \in Seq(Byte)
  BY <1>2, <1>3
<1> QED
  BY <1>1, <1>3, <1>4 DEF N, w, p

\* The messages of cell_msg.c: what an encoder has written, the decoder with the
\* like fields reads back, whole and no byte further, for every message whose
\* values fit the buffers, wherever in a stream it stands.
THEOREM RoundTrip ==
  ASSUME NEW enc, NEW dec, Matches(enc, dec), NEW msg, Message(dec, msg),
         NEW s, Ahead(s, Encode(enc, msg))
  PROVE  Decode(dec, s) = [msg |-> msg, s |-> Advance(s, Len(Encode(enc, msg))), ok |-> TRUE]
<1> DEFINE N == Len(enc)
           w == Written(enc, msg)
           p == [i \in 1 .. N |-> PutField(enc[i], msg[enc[i].name])]
           names(i) == {dec[j].name : j \in 1 .. i}
           M(i) == [x \in names(i) |-> msg[x]]
           G(i) == [msg |-> M(i), s |-> Advance(s, Len(w[i])), ok |-> TRUE]
<1>0. N \in Nat
  BY DEF Matches
<1>1. \A i \in 1 .. N : p[i] \in Seq(Byte)
  BY WrittenBytes
<1>2. /\ Encode(enc, msg) = w[N] /\ w[0] = <<>>
      /\ \A i \in 1 .. N : w[i] = w[i - 1] \o p[i]
  BY <1>0, WrittenSteps
<1>3. \A i \in 0 .. N : w[i] \in Seq(Byte)
  BY WrittenBytes
<1> HIDE DEF w, p, N
<1> USE <1>0
<1>4. \A i \in 0 .. N : Ahead(s, w[i])
  <2> DEFINE T == {k \in Nat : Ahead(s, w[N - k])}
  <2>1. 0 \in T
    <3>1. N - 0 = N
      OBVIOUS
    <3> QED
      BY <1>2, <3>1
  <2>2. \A k \in 0 .. N - 1 : k \in T => k + 1 \in T
    <3> SUFFICES ASSUME NEW k \in 0 .. N - 1, Ahead(s, w[N - k])
                 PROVE  Ahead(s, w[N - (k + 1)])
      OBVIOUS
    <3>1. N - k \in 1 .. N /\ (N - k) - 1 = N - (k + 1) /\ N - (k + 1) \in 0 .. N
      OBVIOUS
    <3>2. w[N - k] = w[N - (k + 1)] \o p[N - k]
      BY <1>2, <3>1
    <3>3. p[N - k] \in Seq(Byte) /\ w[N - (k + 1)] \in Seq(Byte)
      BY <1>1, <1>3, <3>1
    <3> QED
      BY <3>2, <3>3, AheadOfBoth
  <2> HIDE DEF T
  <2>3. 0 .. N \subseteq T
    BY <2>1, <2>2, AllUpTo, <1>0
  <2> SUFFICES ASSUME NEW i \in 0 .. N
               PROVE  Ahead(s, w[i])
    OBVIOUS
  <2>4. N - i \in 0 .. N /\ N - (N - i) = i
    OBVIOUS
  <2>5. N - i \in T
    BY <2>3, <2>4
  <2> QED
    BY <2>4, <2>5 DEF T
<1>5. ASSUME NEW i \in 1 .. N
      PROVE  GetField(dec[i], Advance(s, Len(w[i - 1]))) =
                [val |-> msg[dec[i].name], s |-> Advance(s, Len(w[i])), ok |-> TRUE]
  <2>1. i \in 0 .. N /\ i - 1 \in 0 .. N
    OBVIOUS
  <2>2. /\ w[i] = w[i - 1] \o p[i] /\ Ahead(s, w[i])
        /\ p[i] \in Seq(Byte) /\ w[i - 1] \in Seq(Byte)
    BY <1>1, <1>2, <1>3, <1>4, <2>1
  <2> DEFINE a == w[i - 1]
             b == p[i]
             t == Advance(s, Len(a))
             f == enc[i]
             g == dec[i]
             v == msg[dec[i].name]
  <2>3. Ahead(t, b)
    BY <2>2, AheadOfBoth
  <2>4. Alike(f, g) /\ Fits(g, v)
    BY DEF Matches, Message, N
  <2>5. b = PutField(f, v)
    BY <2>4 DEF p, Alike
  <2>6. Len(a) \in Nat /\ Len(b) \in Nat /\ Len(w[i]) = Len(a) + Len(b)
    BY <2>2, ConcatProperties, LenProperties
  <2>7. s \in Stream
    BY <2>2 DEF Ahead, Good
  <2> HIDE DEF f, g, v, a, b
  <2>8. Advance(t, Len(b)) = Advance(s, Len(w[i]))
    BY <2>6, <2>7, AdvanceTwice
  <2> HIDE DEF t
  <2>9. GetField(g, t) = [val |-> v, s |-> Advance(t, Len(b)), ok |-> TRUE]
    BY <2>3, <2>4, <2>5, FieldRead
  <2> QED
    BY <2>8, <2>9 DEF t, a, g, v
<1>6. G(0) = [msg |-> <<>>, s |-> s, ok |-> TRUE]
  <2>1. names(0) = {}
    OBVIOUS
  <2>2. M(0) = <<>>
    BY <2>1, EmptyMessage
  <2>3. Advance(s, Len(w[0])) = s
    <3>1. s \in Stream /\ Len(w[0]) = 0
      BY <1>2, <1>4 DEF Ahead, Good
    <3> QED
      BY <3>1 DEF Advance, Stream
  <2> QED
    BY <2>2, <2>3
<1>7. ASSUME NEW i \in 1 .. N
      PROVE  Add(G(i - 1), dec[i]) = G(i)
  <2>1. names(i) = names(i - 1) \cup {dec[i].name}
    OBVIOUS
  <2>2. With(M(i - 1), dec[i].name, msg[dec[i].name]) = M(i)
    <3> DEFINE S == names(i - 1)
               x == dec[i].name
    <3>1. M(i - 1) = [y \in S |-> msg[y]] /\ M(i) = [y \in S \cup {x} |-> msg[y]]
      BY <2>1
    <3> HIDE DEF names, S, x, M
    <3>2. With([y \in S |-> msg[y]], x, msg[x]) = [y \in S \cup {x} |-> msg[y]]
      BY DEF With
    <3> QED
      BY <3>1, <3>2 DEF x
  <2> DEFINE got == GetField(dec[i], Advance(s, Len(w[i - 1])))
  <2>3. got.val = msg[dec[i].name] /\ got.s = Advance(s, Len(w[i])) /\ got.ok = TRUE
    <3>1. got = [val |-> msg[dec[i].name], s |-> Advance(s, Len(w[i])), ok |-> TRUE]
      BY <1>5
    <3> HIDE DEF got
    <3> QED
      BY <3>1
  <2>4. Add(G(i - 1), dec[i]) =
           [msg |-> With(M(i - 1), dec[i].name, got.val), s |-> got.s, ok |-> got.ok]
    <3> HIDE DEF M
    <3> QED
      BY DEF Add
  <2> HIDE DEF M, got
  <2> QED
    BY <2>2, <2>3, <2>4
<1>8. Decode(dec, s) = (CHOOSE f : IsRead(f, dec, s))[N]
  BY DecodeUnfolded DEF Matches, N
<1> DEFINE D == CHOOSE f : IsRead(f, dec, s)
<1>9. IsRead(D, dec, s)
  <2> DEFINE F == [i \in 0 .. N |-> G(i)]
  <2> HIDE DEF G
  <2>1. \A i \in 0 .. N : F[i] = G(i)
    OBVIOUS
  <2>2. \A i \in 1 .. N : i - 1 \in 0 .. N
    OBVIOUS
  <2>3. \A i \in 1 .. N : F[i] = Once(F[i - 1], LAMBDA before : Add(before, dec[i]))
    <3> SUFFICES ASSUME NEW i \in 1 .. N
                 PROVE  F[i] = Once(F[i - 1], LAMBDA before : Add(before, dec[i]))
      OBVIOUS
    <3>1. i \in 0 .. N /\ i - 1 \in 0 .. N
      OBVIOUS
    <3>2. F[i] = G(i) /\ F[i - 1] = G(i - 1)
      BY <2>1, <3>1
    <3>3. F[i] = Add(F[i - 1], dec[i])
      BY <1>7, <3>2
    <3> HIDE DEF F
    <3> QED
      BY <3>3, OnceIs
  <2>4. F[0] = [msg |-> <<>>, s |-> s, ok |-> TRUE]
    BY <1>6, <2>1
  <2>5. \A i \in 0 .. N : i = 0 \/ i \in 1 .. N
    OBVIOUS
  <2>6. F = [i \in 0 .. N |-> F[i]]
    OBVIOUS
  <2> HIDE DEF F
  <2>7. F = [i \in 0 .. N |->
               IF i = 0 THEN [msg |-> <<>>, s |-> s, ok |-> TRUE]
               ELSE Once(F[i - 1], LAMBDA before : Add(before, dec[i]))]
    BY <2>3, <2>4, <2>5, <2>6
  <2>8. IsRead(F, dec, s)
    BY <2>7 DEF IsRead, Matches, N
  <2> QED
    BY <2>8
<1> HIDE DEF D, G
<1>10. D[0] = G(0)
  BY <1>6, <1>9 DEF IsRead, Matches, N
<1>11. \A i \in 1 .. N : D[i] = Add(D[i - 1], dec[i])
  <2>1. \A i \in 1 .. N : D[i] = Once(D[i - 1], LAMBDA before : Add(before, dec[i]))
    BY <1>9 DEF IsRead, Matches, N
  <2> QED
    BY <2>1, OnceIs
<1>12. D[N] = G(N)
  <2> DEFINE T == {i \in Nat : D[i] = G(i)}
  <2>1. 0 \in T
    BY <1>10
  <2>2. \A i \in 0 .. N - 1 : i \in T => i + 1 \in T
    <3> SUFFICES ASSUME NEW i \in 0 .. N - 1, D[i] = G(i)
                 PROVE  D[i + 1] = G(i + 1)
      OBVIOUS
    <3>1. i + 1 \in 1 .. N /\ i + 1 - 1 = i
      OBVIOUS
    <3> QED
      BY <1>7, <1>11, <3>1
  <2> HIDE DEF T
  <2>3. 0 .. N \subseteq T
    BY <2>1, <2>2, AllUpTo, <1>0
  <2> QED
    BY <2>3 DEF T
<1>13. M(N) = msg
  BY DEF Matches, Message, N
<1> QED
  BY <1>2, <1>8, <1>12, <1>13 DEF D, G

(***************************************************************************)
(* The lists of fields                                                     *)
(***************************************************************************)
\* The encoder of the client and the decoder of the server name the same fields.
LEMMA ListsMatch ==
  ASSUME NEW kind \in DOMAIN ClientEncodes
  PROVE  kind \in Kinds /\ Matches(ClientEncodes[kind], ServerDecodes[kind])
<1> USE BufferAssumption DEF Matches, Alike, U32, Str, Buf
<1>1. Matches(add_meta_encode, add_meta_decode)
  BY SMT DEF add_meta_encode, add_meta_decode
<1>2. Matches(update_meta_encode, update_meta_decode)
  BY SMT DEF update_meta_encode, update_meta_decode
<1>3. Matches(add_life_cycle_encode, add_life_cycle_decode)
  BY SMT DEF add_life_cycle_encode, add_life_cycle_decode
<1>4. Matches(get_meta_encode, get_meta_decode)
  BY SMT DEF get_meta_encode, get_meta_decode
<1>5. Matches(del_meta_encode, del_meta_decode)
  BY SMT DEF del_meta_encode, del_meta_decode
<1>6. Matches(upload_file_encode, upload_file_decode)
  BY SMT DEF upload_file_encode, upload_file_decode
<1>7. Matches(add_log_encode, add_log_decode)
  BY SMT DEF add_log_encode, add_log_decode
<1>8. Matches(check_upload_encode, check_upload_decode)
  BY SMT DEF check_upload_encode, check_upload_decode
<1>9. Matches(user_flag_encode, user_flag_decode)
  BY SMT DEF user_flag_encode, user_flag_decode
<1>10. Matches(replace_meta_encode, replace_meta_decode)
  BY SMT DEF replace_meta_encode, replace_meta_decode
<1>11. Matches(clean_cache_encode, clean_cache_decode)
  BY SMT DEF clean_cache_encode, clean_cache_decode
<1> HIDE DEF Matches
<1> QED
  BY SMT, <1>1, <1>2, <1>3, <1>4, <1>5, <1>6, <1>7, <1>8, <1>9, <1>10, <1>11
     DEF Kinds, ClientEncodes, ServerDecodes

LEMMA IdsDiffer ==
  /\ \A k, l \in Kinds : MsgId[k] = MsgId[l] => k = l
  /\ \A k \in Kinds : MsgId[k] \in Nat /\ MsgId[k] < HalfWord
  BY SMT DEF Kinds, ServerDecodes, MsgId, HalfWord

(***************************************************************************)
(* Packets                                                                 *)
(***************************************************************************)
LEMMA Joined ==
  ASSUME NEW a \in Seq(Byte), NEW c \in Seq(Byte), NEW x, x = a \o c
  PROVE  /\ x \in Seq(Byte) /\ Len(x) = Len(a) + Len(c)
         /\ Len(x) \in Nat /\ Len(a) \in Nat /\ Len(c) \in Nat
<1>1. a \o c \in Seq(Byte) /\ Len(a \o c) = Len(a) + Len(c)
  BY ConcatProperties
<1>2. Len(a) \in Nat /\ Len(c) \in Nat
  BY LenProperties
<1> QED
  BY <1>1, <1>2

\* What a packet holds behind its length.
Inner(id, enc, msg) == Put2(id) \o Encode(enc, msg)

\* A message with an id that can be written and read, in a packet whose length
\* fits its head.
Packable(id, enc, dec, msg) ==
    /\ id \in Nat /\ id < HalfWord
    /\ Matches(enc, dec) /\ Message(dec, msg)
    /\ Len(Inner(id, enc, msg)) < Word

LEMMA AnyPacketBytes ==
  ASSUME NEW id, NEW enc, NEW dec, NEW msg, Packable(id, enc, dec, msg)
  PROVE  /\ Put2(id) \in Seq(Byte) /\ Len(Put2(id)) = 2
         /\ Encode(enc, msg) \in Seq(Byte) /\ Len(Encode(enc, msg)) \in Nat
         /\ Inner(id, enc, msg) \in Seq(Byte)
         /\ Len(Inner(id, enc, msg)) = 2 + Len(Encode(enc, msg))
         /\ Len(Inner(id, enc, msg)) \in Nat
         /\ Put4(Len(Inner(id, enc, msg))) \in Seq(Byte)
         /\ Len(Put4(Len(Inner(id, enc, msg)))) = 4
         /\ Packet(id, enc, msg) = Put4(Len(Inner(id, enc, msg))) \o Inner(id, enc, msg)
         /\ Packet(id, enc, msg) \in Seq(Byte)
         /\ Len(Packet(id, enc, msg)) = 4 + Len(Inner(id, enc, msg))
<1> DEFINE d == Put2(id)
           e == Encode(enc, msg)
           b == Inner(id, enc, msg)
           h == Put4(Len(b))
           q == Packet(id, enc, msg)
<1>1. id \in Nat /\ id < HalfWord /\ Matches(enc, dec) /\ Message(dec, msg) /\ Len(b) < Word
  BY DEF Packable
<1>2. d \in Seq(Byte) /\ Len(d) = 2
  BY <1>1, Digits2
<1>3. e \in Seq(Byte)
  BY <1>1, WrittenBytes
<1>4. b = d \o e
  BY DEF Inner
<1>5. q = h \o b
  BY DEF Packet, Inner
<1> HIDE DEF d, e, b
<1>6. b \in Seq(Byte) /\ Len(b) = 2 + Len(e) /\ Len(b) \in Nat /\ Len(e) \in Nat
  BY <1>2, <1>3, <1>4, Joined
<1>7. Len(h) = 4 /\ h \in Seq(Byte)
  BY <1>1, <1>6, Digits4
<1> HIDE DEF h, q
<1>8. q \in Seq(Byte) /\ Len(q) = 4 + Len(b)
  BY <1>5, <1>6, <1>7, Joined
<1> QED
  BY <1>2, <1>3, <1>5, <1>6, <1>7, <1>8 DEF h, b, e, d, q

\* A packet ahead is read back: its length, its id and its message.
LEMMA AnyPacketRead ==
  ASSUME NEW id, NEW enc, NEW dec, NEW msg, Packable(id, enc, dec, msg),
         NEW s, Ahead(s, Packet(id, enc, msg))
  PROVE  /\ Get4(At(s, s.rsize, 4)) = Len(Packet(id, enc, msg)) - 4
         /\ ReadU32(s).s = Advance(s, 4)
         /\ ReadU16(Advance(s, 4)).val = id
         /\ ReadU16(Advance(s, 4)).s = Advance(s, 6)
         /\ Decode(dec, Advance(s, 6)) =
               [msg |-> msg, s |-> Advance(s, Len(Packet(id, enc, msg))), ok |-> TRUE]
<1> DEFINE d == Put2(id)
           e == Encode(enc, msg)
           b == Inner(id, enc, msg)
           n == Len(b)
           h == Put4(n)
           q == Packet(id, enc, msg)
<1>1. /\ d \in Seq(Byte) /\ Len(d) = 2 /\ e \in Seq(Byte) /\ b \in Seq(Byte)
      /\ n = 2 + Len(e) /\ n \in Nat /\ Len(e) \in Nat
      /\ h \in Seq(Byte) /\ Len(h) = 4 /\ q = h \o b /\ Len(q) = 4 + n
  BY AnyPacketBytes
<1>2. b = d \o e
  BY DEF Inner
<1>3. n < Word /\ id \in Nat /\ id < HalfWord /\ Matches(enc, dec) /\ Message(dec, msg)
  BY DEF Packable
<1>4. Ahead(s, h \o b)
  BY <1>1
<1>5. s \in Stream
  BY DEF Ahead, Good
<1> HIDE DEF b, n, h, q
<1>6. Ahead(s, h) /\ Ahead(Advance(s, 4), b)
  BY <1>1, <1>4, AheadOfBoth
<1>7. Get4(h) = n
  BY <1>1, <1>3, Digits4 DEF h
<1>8. Get4(At(s, s.rsize, 4)) = n
  BY <1>1, <1>6, <1>7, AtAhead
<1>9. ReadU32(s).s = Advance(s, 4)
  <2>1. ReadU32(s) = [val |-> n, s |-> Advance(s, 4), ok |-> TRUE]
    BY <1>1, <1>3, <1>6, ReadsU32 DEF h
  <2> QED
    BY <2>1
<1>10. Ahead(Advance(s, 4), d) /\ Ahead(Advance(Advance(s, 4), 2), e)
  <2> HIDE DEF d, e
  <2> QED
    BY <1>1, <1>2, <1>6, AheadOfBoth
<1>11. ReadU16(Advance(s, 4)) = [val |-> id, s |-> Advance(Advance(s, 4), 2), ok |-> TRUE]
  BY <1>3, <1>10, ReadsU16
<1>12. Advance(Advance(s, 4), 2) = Advance(s, 6)
  BY <1>5, AdvanceTwice
<1>13. Decode(dec, Advance(s, 6)) = [msg |-> msg, s |-> Advance(Advance(s, 6), Len(e)), ok |-> TRUE]
  BY <1>3, <1>10, <1>12, RoundTrip
<1>14. Advance(Advance(s, 6), Len(e)) = Advance(s, Len(q))
  <2>1. Len(q) = 6 + Len(e)
    BY <1>1
  <2> HIDE DEF e
  <2>2. Advance(Advance(s, 6), Len(e)) = Advance(s, 6 + Len(e))
    BY <1>1, <1>5, AdvanceTwice
  <2> QED
    BY <2>1, <2>2
<1>15. n = Len(q) - 4
  BY <1>1
<1> HIDE DEF e, d
<1>16. ReadU16(Advance(s, 4)).val = id /\ ReadU16(Advance(s, 4)).s = Advance(s, 6)
  BY <1>11, <1>12
<1> QED
  BY <1>8, <1>9, <1>13, <1>14, <1>15, <1>16 DEF q

Body(r) == Inner(MsgId[r.kind], ClientEncodes[r.kind], r.msg)

\* A request of the library that fits the buffers of the server, in a packet
\* whose length fits its head.
Sendable(r) ==
    /\ r.kind \in DOMAIN ClientEncodes
    /\ r = [kind |-> r.kind, msg |-> r.msg]
    /\ Message(ServerDecodes[r.kind], r.msg)
    /\ Len(Body(r)) < Word

\* The clients send requests the servers can read.
WellSent ==
    /\ Scripts \subseteq Seq(Requests)
    /\ \A r \in Requests : Sendable(r)

LEMMA RequestPackable ==
  ASSUME NEW r \in Requests, Sendable(r)
  PROVE  /\ Packable(MsgId[r.kind], ClientEncodes[r.kind], ServerDecodes[r.kind], r.msg)
         /\ RequestBytes[r] = Packet(MsgId[r.kind], ClientEncodes[r.kind], r.msg)
<1>1. /\ r.kind \in Kinds
      /\ Matches(ClientEncodes[r.kind], ServerDecodes[r.kind])
      /\ Message(ServerDecodes[r.kind], r.msg) /\ Len(Body(r)) < Word
  BY ListsMatch DEF Sendable
<1>2. MsgId[r.kind] \in Nat /\ MsgId[r.kind] < HalfWord
  BY <1>1, IdsDiffer
<1> QED
  BY <1>1, <1>2 DEF Packable, Body, RequestBytes

LEMMA PacketBytes ==
  ASSUME NEW r \in Requests, Sendable(r)
  PROVE  /\ Put2(MsgId[r.kind]) \in Seq(Byte) /\ Len(Put2(MsgId[r.kind])) = 2
         /\ Encode(ClientEncodes[r.kind], r.msg) \in Seq(Byte)
         /\ Body(r) \in Seq(Byte)
         /\ Len(Body(r)) = 2 + Len(Encode(ClientEncodes[r.kind], r.msg))
         /\ Len(Body(r)) \in Nat /\ Len(Encode(ClientEncodes[r.kind], r.msg)) \in Nat
         /\ Put4(Len(Body(r))) \in Seq(Byte) /\ Len(Put4(Len(Body(r)))) = 4
         /\ RequestBytes[r] = Put4(Len(Body(r))) \o Body(r)
         /\ RequestBytes[r] \in Seq(Byte)
         /\ Len(RequestBytes[r]) = 4 + Len(Body(r))
  BY RequestPackable, AnyPacketBytes DEF Body

\* A request ahead is read back: its length, its id and its message.
LEMMA PacketRead ==
  ASSUME NEW r \in Requests, Sendable(r), NEW s, Ahead(s, RequestBytes[r])
  PROVE  /\ Get4(At(s, s.rsize, 4)) = Len(RequestBytes[r]) - 4
         /\ ReadU32(s).s = Advance(s, 4)
         /\ ReadU16(Advance(s, 4)).val = MsgId[r.kind]
         /\ ReadU16(Advance(s, 4)).s = Advance(s, 6)
         /\ Decode(ServerDecodes[r.kind], Advance(s, 6)) =
               [msg |-> r.msg, s |-> Advance(s, Len(RequestBytes[r])), ok |-> TRUE]
<1>1. /\ Packable(MsgId[r.kind], ClientEncodes[r.kind], ServerDecodes[r.kind], r.msg)
      /\ RequestBytes[r] = Packet(MsgId[r.kind], ClientEncodes[r.kind], r.msg)
  BY RequestPackable
<1> DEFINE id == MsgId[r.kind]
           enc == ClientEncodes[r.kind]
           dec == ServerDecodes[r.kind]
           msg == r.msg
           q == RequestBytes[r]
<1>2. Packable(id, enc, dec, msg) /\ q = Packet(id, enc, msg) /\ Ahead(s, q)
  BY <1>1
<1> HIDE DEF id, enc, dec, msg, q
<1>3. Ahead(s, Packet(id, enc, msg))
  BY <1>2
<1>4. /\ Get4(At(s, s.rsize, 4)) = Len(Packet(id, enc, msg)) - 4
      /\ ReadU32(s).s = Advance(s, 4)
      /\ ReadU16(Advance(s, 4)).val = id
      /\ ReadU16(Advance(s, 4)).s = Advance(s, 6)
      /\ Decode(dec, Advance(s, 6)) =
            [msg |-> msg, s |-> Advance(s, Len(Packet(id, enc, msg))), ok |-> TRUE]
  BY <1>2, <1>3, AnyPacketRead
<1>5. /\ Get4(At(s, s.rsize, 4)) = Len(q) - 4
      /\ ReadU32(s).s = Advance(s, 4)
      /\ ReadU16(Advance(s, 4)).val = id
      /\ ReadU16(Advance(s, 4)).s = Advance(s, 6)
      /\ Decode(dec, Advance(s, 6)) = [msg |-> msg, s |-> Advance(s, Len(q)), ok |-> TRUE]
  BY <1>2, <1>4
<1> QED
  BY <1>5 DEF id, enc, dec, msg, q

(***************************************************************************)
(* Where packets end                                                       *)
(***************************************************************************)
\* f[i] is the sum of the first i of N numbers g.
Totals(f, g, N) == f = [i \in 0 .. N |-> IF i = 0 THEN 0 ELSE f[i - 1] + g[i]]

LEMMA TotalsExist ==
  ASSUME NEW g, NEW N \in Nat
  PROVE  \E f : Totals(f, g, N)
<1> DEFINE T == {n \in Nat : \E f : Totals(f, g, n)}
<1>1. 0 \in T
  <2> DEFINE f == [i \in 0 .. 0 |-> 0]
  <2>1. f = [i \in 0 .. 0 |-> IF i = 0 THEN 0 ELSE f[i - 1] + g[i]]
    OBVIOUS
  <2> HIDE DEF f
  <2> QED
    BY <2>1 DEF Totals
<1>2. \A n \in Nat : n \in T => n + 1 \in T
  <2> SUFFICES ASSUME NEW n \in Nat, NEW f, Totals(f, g, n)
               PROVE  \E h : Totals(h, g, n + 1)
    OBVIOUS
  <2> DEFINE h == [i \in 0 .. n + 1 |-> IF i <= n THEN f[i] ELSE f[n] + g[n + 1]]
  <2>1. \A i \in 0 .. n : h[i] = f[i]
    OBVIOUS
  <2>2. h[n + 1] = f[n] + g[n + 1]
    OBVIOUS
  <2>3. \A i \in 0 .. n : f[i] = IF i = 0 THEN 0 ELSE f[i - 1] + g[i]
    BY DEF Totals
  <2>4. h = [i \in 0 .. n + 1 |-> h[i]]
    OBVIOUS
  <2> HIDE DEF h
  <2>5. \A i \in 0 .. n + 1 : h[i] = IF i = 0 THEN 0 ELSE h[i - 1] + g[i]
    <3> SUFFICES ASSUME NEW i \in 0 .. n + 1
                 PROVE  h[i] = IF i = 0 THEN 0 ELSE h[i - 1] + g[i]
      OBVIOUS
    <3>1. CASE i = n + 1
      <4>1. i # 0 /\ i - 1 = n /\ n \in 0 .. n
        BY <3>1
      <4> QED
        BY <2>1, <2>2, <3>1, <4>1
    <3>2. CASE i = 0
      <4>1. 0 \in 0 .. n
        OBVIOUS
      <4> QED
        BY <2>1, <2>3, <3>2, <4>1
    <3>3. CASE i \in 1 .. n
      <4>1. i \in 0 .. n /\ i - 1 \in 0 .. n /\ i # 0
        BY <3>3
      <4> QED
        BY <2>1, <2>3, <4>1
    <3> QED
      BY <3>1, <3>2, <3>3
  <2>6. Totals(h, g, n + 1)
    BY <2>4, <2>5 DEF Totals
  <2> QED
    BY <2>6
<1> HIDE DEF T
<1>3. N \in T
  BY <1>1, <1>2, AllNat
<1> QED
  BY <1>3 DEF T

LEMMA TotalsSteps ==
  ASSUME NEW g, NEW N \in Nat, NEW f, Totals(f, g, N)
  PROVE  f[0] = 0 /\ \A i \in 1 .. N : f[i] = f[i - 1] + g[i]
<1>1. \A i \in 0 .. N : f[i] = IF i = 0 THEN 0 ELSE f[i - 1] + g[i]
  BY DEF Totals
<1> QED
  BY <1>1

\* The sum of a prefix.
LEMMA SumIs ==
  ASSUME NEW g, NEW N \in Nat, NEW f, Totals(f, g, N),
         NEW n \in 0 .. N, NEW q, q = [i \in 1 .. n |-> g[i]], Len(q) = n
  PROVE  Sum(q) = f[n]
<1> DEFINE IsT(h) == h = [i \in 0 .. Len(q) |-> IF i = 0 THEN 0 ELSE h[i - 1] + q[i]]
           t == CHOOSE h : IsT(h)
<1>0. n \in Nat
  OBVIOUS
<1>1. Sum(q) = t[n]
  BY Zenon DEF Sum
<1>2. \A h : IsT(h) <=> Totals(h, q, n)
  BY DEF Totals
<1>3. Totals(t, q, n)
  <2>1. \E h : IsT(h)
    <3>1. PICK h : Totals(h, q, n)
      BY <1>0, TotalsExist
    <3> HIDE DEF IsT
    <3> QED
      BY <1>2, <3>1
  <2> HIDE DEF IsT
  <2> QED
    BY <1>2, <2>1
<1> HIDE DEF t, IsT
<1>4. /\ t[0] = 0 /\ \A i \in 1 .. n : t[i] = t[i - 1] + q[i]
      /\ f[0] = 0 /\ \A i \in 1 .. N : f[i] = f[i - 1] + g[i]
  <2>1. t[0] = 0 /\ \A i \in 1 .. n : t[i] = t[i - 1] + q[i]
    <3>1. \A i \in 0 .. n : t[i] = IF i = 0 THEN 0 ELSE t[i - 1] + q[i]
      BY <1>3 DEF Totals
    <3>2. 0 \in 0 .. n /\ \A i \in 1 .. n : i \in 0 .. n /\ i # 0
      BY <1>0
    <3> QED
      BY <3>1, <3>2
  <2>2. f[0] = 0 /\ \A i \in 1 .. N : f[i] = f[i - 1] + g[i]
    BY TotalsSteps
  <2> QED
    BY <2>1, <2>2
<1> DEFINE T == {i \in Nat : t[i] = f[i]}
<1>5. 0 \in T
  BY <1>4
<1>6. \A i \in 0 .. n - 1 : i \in T => i + 1 \in T
  <2> SUFFICES ASSUME NEW i \in 0 .. n - 1, t[i] = f[i]
               PROVE  t[i + 1] = f[i + 1]
    OBVIOUS
  <2>1. i + 1 \in 1 .. n /\ i + 1 \in 1 .. N /\ i + 1 - 1 = i
    OBVIOUS
  <2>2. q[i + 1] = g[i + 1]
    BY <2>1
  <2> QED
    BY <1>4, <2>1, <2>2
<1> HIDE DEF T
<1>7. n \in T
  <2>1. 0 .. n \subseteq T
    BY <1>0, <1>5, <1>6, AllUpTo
  <2> QED
    BY <1>0, <2>1
<1> QED
  BY <1>1, <1>7 DEF T

\* The n-th packet of a script is behind the first n - 1.
LEMMA EndsSteps ==
  ASSUME WellSent, NEW s \in Scripts
  PROVE  /\ Len(s) \in Nat /\ DOMAIN RequestEnds[s] = 0 .. Len(s)
         /\ RequestEnds[s][0] = 0
         /\ \A n \in 1 .. Len(s) :
               /\ s[n] \in Requests
               /\ Len(RequestBytes[s[n]]) \in Nat /\ Len(RequestBytes[s[n]]) >= 6
               /\ RequestEnds[s][n] = RequestEnds[s][n - 1] + Len(RequestBytes[s[n]])
         /\ \A n \in 0 .. Len(s) : RequestEnds[s][n] \in Nat
         /\ \A m, n \in 0 .. Len(s) : m <= n => RequestEnds[s][m] <= RequestEnds[s][n]
<1> DEFINE N == Len(s)
           g == [i \in 1 .. N |-> Len(RequestBytes[s[i]])]
           E == RequestEnds[s]
<1>1. N \in Nat /\ \A n \in 1 .. N : s[n] \in Requests
  BY LenProperties, ElementOfSeq DEF WellSent
<1>2. \A n \in 1 .. N : g[n] \in Nat /\ g[n] >= 6
  <2> SUFFICES ASSUME NEW n \in 1 .. N
               PROVE  g[n] \in Nat /\ g[n] >= 6
    OBVIOUS
  <2> DEFINE r == s[n]
             e == Encode(ClientEncodes[r.kind], r.msg)
  <2>1. r \in Requests /\ Sendable(r)
    BY <1>1 DEF WellSent
  <2>2. Len(RequestBytes[r]) = 4 + Len(Body(r)) /\ Len(Body(r)) = 2 + Len(e) /\ Len(e) \in Nat
    BY <2>1, PacketBytes
  <2>3. g[n] = Len(RequestBytes[r])
    OBVIOUS
  <2> HIDE DEF r, e, g, N
  <2> QED
    BY <2>2, <2>3
<1>3. E = [n \in 0 .. N |-> Sum([i \in 1 .. n |-> Len(RequestBytes[s[i]])])]
  BY DEF RequestEnds, Ends
<1>4. PICK f : Totals(f, g, N)
  BY <1>1, TotalsExist
<1>5. \A n \in 0 .. N : E[n] = f[n]
  <2> SUFFICES ASSUME NEW n \in 0 .. N
               PROVE  E[n] = f[n]
    OBVIOUS
  <2> DEFINE q == [i \in 1 .. n |-> Len(RequestBytes[s[i]])]
  <2>1. E[n] = Sum(q)
    BY <1>3
  <2>2. q = [i \in 1 .. n |-> g[i]]
    BY <1>1
  <2>3. q \in Seq(Nat) /\ Len(q) = n
    <3>1. \A i \in 1 .. n : q[i] \in Nat
      BY <1>1, <1>2, <2>2
    <3>2. n \in Nat /\ DOMAIN q = 1 .. n /\ q = [i \in 1 .. n |-> q[i]]
      BY <1>1
    <3> HIDE DEF q
    <3>3. q \in [1 .. n -> Nat]
      BY <3>1, <3>2
    <3>4. q \in Seq(Nat)
      BY <3>2, <3>3
    <3> QED
      BY <3>2, <3>4, LenProperties
  <2> HIDE DEF q, g
  <2> QED
    BY <1>1, <1>4, <2>1, <2>2, <2>3, SumIs
<1>6. f[0] = 0 /\ \A n \in 1 .. N : f[n] = f[n - 1] + g[n]
  <2> HIDE DEF g
  <2> QED
    BY <1>1, <1>4, TotalsSteps
<1>7. DOMAIN E = 0 .. N
  BY <1>3
<1> HIDE DEF E, N
<1>8. \A n \in 1 .. N : g[n] = Len(RequestBytes[s[n]])
  OBVIOUS
<1> HIDE DEF g
<1>9. E[0] = 0 /\ \A n \in 1 .. N : E[n] = E[n - 1] + g[n]
  BY <1>1, <1>5, <1>6
<1>10. \A n \in 0 .. N : E[n] \in Nat
  <2> DEFINE T == {n \in Nat : E[n] \in Nat}
  <2>1. 0 \in T
    BY <1>9
  <2>2. \A n \in 0 .. N - 1 : n \in T => n + 1 \in T
    <3> SUFFICES ASSUME NEW n \in 0 .. N - 1, E[n] \in Nat
                 PROVE  E[n + 1] \in Nat
      BY <1>1
    <3>1. n + 1 \in 1 .. N /\ n + 1 - 1 = n
      BY <1>1
    <3>2. E[n + 1] = E[n] + g[n + 1] /\ g[n + 1] \in Nat
      BY <1>2, <1>9, <3>1
    <3> QED
      BY <3>2
  <2> HIDE DEF T
  <2>3. 0 .. N \subseteq T
    BY <1>1, <2>1, <2>2, AllUpTo
  <2> QED
    BY <2>3 DEF T
<1>11. \A m, n \in 0 .. N : m <= n => E[m] <= E[n]
  <2> SUFFICES ASSUME NEW m \in 0 .. N
               PROVE  \A n \in 0 .. N : m <= n => E[m] <= E[n]
    OBVIOUS
  <2> DEFINE T == {n \in Nat : m <= n => E[m] <= E[n]}
  <2>1. 0 \in T
    BY <1>1, <1>10
  <2>2. \A n \in 0 .. N - 1 : n \in T => n + 1 \in T
    <3> SUFFICES ASSUME NEW n \in 0 .. N - 1, m <= n => E[m] <= E[n], m <= n + 1
                 PROVE  E[m] <= E[n + 1]
      BY <1>1
    <3>1. n + 1 \in 1 .. N /\ n + 1 - 1 = n /\ n \in 0 .. N /\ n + 1 \in 0 .. N
      BY <1>1
    <3>2. E[n + 1] = E[n] + g[n + 1] /\ g[n + 1] \in Nat /\ E[n] \in Nat /\ E[m] \in Nat
      BY <1>2, <1>9, <1>10, <3>1
    <3>3. CASE m <= n
      BY <3>2, <3>3
    <3>4. CASE m = n + 1
      BY <3>2, <3>4
    <3> QED
      BY <1>1, <3>3, <3>4
  <2> HIDE DEF T
  <2>3. 0 .. N \subseteq T
    BY <1>1, <2>1, <2>2, AllUpTo
  <2> QED
    BY <2>3 DEF T
<1> QED
  BY <1>1, <1>2, <1>7, <1>8, <1>9, <1>10, <1>11 DEF E, N

\* A position inside a packet is as far behind its start as it is partial.
LEMMA PartialIs ==
  ASSUME WellSent, NEW s \in Scripts, NEW k \in 0 .. Len(s), NEW pos \in Nat,
         RequestEnds[s][k] <= pos,
         k < Len(s) => pos < RequestEnds[s][k + 1]
  PROVE  Partial(pos, RequestEnds[s]) = pos - RequestEnds[s][k]
<1> DEFINE E == RequestEnds[s]
           N == Len(s)
           S == {E[n] : n \in DOMAIN E} \cap 0 .. pos
<1>1. /\ N \in Nat /\ DOMAIN E = 0 .. N /\ \A n \in 0 .. N : E[n] \in Nat
      /\ \A m, n \in 0 .. N : m <= n => E[m] <= E[n]
  BY EndsSteps
<1>2. E[k] <= pos /\ (k < N => pos < E[k + 1]) /\ k \in 0 .. N
  OBVIOUS
<1>3. Partial(pos, E) = pos - Max(S)
  BY DEF Partial
<1> HIDE DEF E, N
<1>4. E[k] \in S
  <2>1. E[k] \in 0 .. pos
    BY <1>1, <1>2
  <2>2. k \in DOMAIN E
    BY <1>1, <1>2
  <2> QED
    BY <2>1, <2>2
<1>5. \A x \in S : x \in Nat /\ x <= E[k]
  <2> SUFFICES ASSUME NEW n \in 0 .. N, E[n] <= pos
               PROVE  E[n] <= E[k]
    BY <1>1
  <2>1. CASE n <= k
    BY <1>1, <1>2, <2>1
  <2>2. CASE n > k
    <3>1. k < N /\ k + 1 \in 0 .. N /\ k + 1 <= n
      BY <1>1, <1>2, <2>2
    <3>2. E[k + 1] <= E[n] /\ E[k + 1] \in Nat /\ E[n] \in Nat
      BY <1>1, <3>1
    <3> QED
      BY <1>2, <3>1, <3>2
  <2> QED
    BY <1>1, <1>2, <2>1, <2>2
<1> HIDE DEF S
<1>6. Max(S) = E[k]
  <2>1. E[k] \in Nat
    BY <1>1, <1>2
  <2> QED
    BY <1>4, <1>5, <2>1 DEF Max
<1> QED
  BY <1>3, <1>6 DEF E, N

(***************************************************************************)
(* What is under way                                                       *)
(***************************************************************************)
Left(s) == Used(s) - s.rsize

\* z has the same bytes to read as s.
Keeps(s, z) ==
    /\ Good(z) /\ Left(z) = Left(s)
    /\ \A p \in 1 .. Left(s) : z.data[z.rsize + p] = s.data[s.rsize + p]

\* The p-th byte to come, from the stream s and, behind it, from t.
Coming(s, t, p) == IF p <= Left(s) THEN s.data[s.rsize + p] ELSE t[p - Left(s)]

\* What is to come are the packets k + 1 to n of the script sc.
Carries(sc, s, t, k, n) ==
    /\ k <= n /\ Left(s) + Len(t) = RequestEnds[sc][n] - RequestEnds[sc][k]
    /\ \A m \in k + 1 .. n : \A q \in 1 .. Len(RequestBytes[sc[m]]) :
          Coming(s, t, (RequestEnds[sc][m - 1] - RequestEnds[sc][k]) + q)
            = RequestBytes[sc[m]][q]

LEMMA GoodFields ==
  ASSUME NEW s, Good(s)
  PROVE  /\ s \in Stream /\ s.data \in Seq(Byte) /\ s.rsize \in Nat /\ s.size \in Nat \ {0}
         /\ Used(s) \in Nat /\ Left(s) \in Nat /\ Used(s) = s.rsize + Left(s)
  BY LenProperties DEF Good, Stream, Used, Left

LEMMA ResizeKeeps ==
  ASSUME NEW s, Good(s), NEW n \in Nat
  PROVE  Keeps(s, Resize(s, n))
<1> DEFINE z == Resize(s, n)
           d == Doubled(s.size, n)
<1>1. s \in Stream
  BY GoodFields
<1>2. d \in Nat \ {0}
  BY GoodFields, DoubledEnough
<1>3. z = [s EXCEPT !.size = d]
  BY DEF Resize
<1> HIDE DEF d, z
<1>4. z \in Stream /\ z.data = s.data /\ z.rsize = s.rsize
  BY <1>1, <1>2, <1>3 DEF Stream
<1>5. Keeps(s, z)
  BY <1>4 DEF Keeps, Good, Used, Left
<1> QED
  BY <1>5 DEF z

\* bin_stream_move drops what is read and keeps what is not.
LEMMA MoveKeeps ==
  ASSUME NEW s, Good(s)
  PROVE  Keeps(s, Move(s))
<1> DEFINE z == Move(s)
<1>1. /\ s \in Stream /\ s.data \in Seq(Byte) /\ s.rsize \in Nat /\ Used(s) \in Nat
      /\ Left(s) \in Nat /\ Used(s) = s.rsize + Left(s)
  BY GoodFields
<1>2. CASE Used(s) = s.rsize
  <2>1. z = [s EXCEPT !.data = <<>>, !.rsize = 0]
    BY <1>2 DEF Move, Rewind
  <2>2. <<>> \in Seq(Byte) /\ Len(<<>>) = 0
    BY EmptySeq
  <2> HIDE DEF z
  <2>3. z \in Stream /\ z.data = <<>> /\ z.rsize = 0
    BY <1>1, <2>1, <2>2 DEF Stream
  <2>4. Left(z) = 0 /\ Left(s) = 0 /\ Good(z)
    BY <1>1, <1>2, <2>2, <2>3 DEF Left, Good, Used
  <2>5. Keeps(s, z)
    BY <2>4 DEF Keeps
  <2> QED
    BY <2>5 DEF z
<1>3. CASE /\ Used(s) # s.rsize
           /\ s.rsize > s.size \div 2 /\ Used(s) + Slack >= s.size
  <2> DEFINE d == s.data
             m == s.rsize + 1
             u == Used(s)
             x == SubSeq(d, m, u)
  <2>1. z = [s EXCEPT !.data = x, !.rsize = 0]
    BY <1>3 DEF Move, Unread
  <2>2. m \in Nat /\ m >= 1 /\ u \in Nat /\ m <= u /\ u = Len(d) /\ d \in Seq(Byte)
    BY <1>1, <1>3 DEF Used
  <2>3. (u - m) + 1 = Left(s) /\ \A p \in Nat : m + p - 1 = s.rsize + p
    BY <1>1
  <2> HIDE DEF z, d, m, u
  <2>4. \A i \in m .. u : d[i] \in Byte
    <3> SUFFICES ASSUME NEW i \in m .. u
                 PROVE  d[i] \in Byte
      OBVIOUS
    <3>1. i \in 1 .. Len(d)
      BY <2>2
    <3> QED
      BY <2>2, <3>1, ElementOfSeq
  <2>5. /\ x \in Seq(Byte) /\ Len(x) = u - m + 1
        /\ \A i \in 1 .. u - m + 1 : x[i] = d[m + i - 1]
    <3>1. m \in Int /\ u \in Int
      BY <2>2
    <3> QED
      BY <2>2, <2>4, <3>1, SubSeqProperties
  <2> HIDE DEF x
  <2>6. Len(x) = Left(s)
    BY <2>3, <2>5
  <2>7. \A p \in 1 .. Left(s) : x[p] = d[s.rsize + p]
    <3> SUFFICES ASSUME NEW p \in 1 .. Left(s)
                 PROVE  x[p] = d[s.rsize + p]
      OBVIOUS
    <3>1. p \in Nat /\ p \in 1 .. u - m + 1
      BY <1>1, <2>2, <2>3
    <3>2. x[p] = d[m + p - 1]
      BY <2>5, <3>1
    <3>3. m + p - 1 = s.rsize + p
      BY <2>3, <3>1
    <3> QED
      BY <3>2, <3>3
  <2>8. z \in Stream /\ z.data = x /\ z.rsize = 0
    BY <1>1, <2>1, <2>5 DEF Stream
  <2>9. Left(z) = Left(s) /\ Good(z)
    BY <1>1, <2>6, <2>8 DEF Left, Good, Used
  <2>10. \A p \in 1 .. Left(s) : z.data[z.rsize + p] = s.data[s.rsize + p]
    <3> SUFFICES ASSUME NEW p \in 1 .. Left(s)
                 PROVE  z.data[z.rsize + p] = s.data[s.rsize + p]
      OBVIOUS
    <3>1. z.rsize + p = p
      BY <1>1, <2>8
    <3> QED
      BY <2>7, <2>8, <3>1 DEF d
  <2>11. Keeps(s, z)
    BY <2>9, <2>10 DEF Keeps
  <2> QED
    BY <2>11 DEF z
<1>4. CASE /\ Used(s) # s.rsize
           /\ ~ (s.rsize > s.size \div 2 /\ Used(s) + Slack >= s.size)
  <2>1. z = s
    BY <1>4 DEF Move
  <2> QED
    BY <2>1 DEF Keeps
<1> QED
  BY <1>2, <1>3, <1>4

LEMMA KeepsTwice ==
  ASSUME NEW s, NEW y, NEW z, Keeps(s, y), Keeps(y, z)
  PROVE  Keeps(s, z)
  BY DEF Keeps

LEMMA Inside ==
  ASSUME NEW a \in Nat, NEW b \in Nat, NEW c \in Nat, NEW len \in Nat, NEW q \in Nat,
         1 <= q, q <= len, b <= a, a + len <= c
  PROVE  (a - b) + q \in 1 .. c - b
  OBVIOUS

LEMMA KeepsCarries ==
  ASSUME NEW sc, NEW s, NEW z, NEW t, NEW k, NEW n, Good(s), t \in Seq(Byte),
         WellSent, sc \in Scripts, k \in 0 .. Len(sc), n \in 0 .. Len(sc),
         Good(z), NEW y \in Seq(Byte), Left(z) + Len(y) = Left(s) + Len(t),
         \A p \in 1 .. Left(s) + Len(t) : Coming(z, y, p) = Coming(s, t, p),
         Carries(sc, s, t, k, n)
  PROVE  Carries(sc, z, y, k, n)
<1> DEFINE E == RequestEnds[sc]
           N == Len(sc)
           B(m) == RequestBytes[sc[m]]
           X == Left(s) + Len(t)
<1>1. /\ N \in Nat /\ \A m \in 0 .. N : E[m] \in Nat
      /\ \A m \in 1 .. N : Len(B(m)) \in Nat /\ E[m] = E[m - 1] + Len(B(m))
      /\ \A m, l \in 0 .. N : m <= l => E[m] <= E[l]
  BY EndsSteps
<1>2. /\ k <= n /\ X = E[n] - E[k]
      /\ \A m \in k + 1 .. n : \A q \in 1 .. Len(B(m)) :
            Coming(s, t, (E[m - 1] - E[k]) + q) = B(m)[q]
  BY DEF Carries
<1>3. Left(z) + Len(y) = X /\ \A p \in 1 .. X : Coming(z, y, p) = Coming(s, t, p)
  OBVIOUS
<1>4. k \in 0 .. N /\ n \in 0 .. N
  OBVIOUS
<1>5. X \in Nat
  BY GoodFields, LenProperties
<1> HIDE DEF E, N, B, X
<1>6. ASSUME NEW m \in k + 1 .. n, NEW q \in 1 .. Len(B(m))
      PROVE  Coming(z, y, (E[m - 1] - E[k]) + q) = B(m)[q]
  <2>1. /\ m \in 1 .. N /\ m \in 0 .. N /\ m - 1 \in 0 .. N /\ k <= m - 1 /\ m <= n
    BY <1>1, <1>4
  <2>2. /\ E[m - 1] \in Nat /\ E[k] \in Nat /\ E[m] \in Nat /\ E[n] \in Nat
        /\ E[m] = E[m - 1] + Len(B(m)) /\ E[k] <= E[m - 1] /\ E[m] <= E[n] /\ Len(B(m)) \in Nat
    BY <1>1, <1>4, <2>1
  <2>3. (E[m - 1] - E[k]) + q \in 1 .. X
    <3>1. q \in Nat /\ q >= 1 /\ q <= Len(B(m))
      BY <2>2
    <3>2. X = E[n] - E[k]
      BY <1>2
    <3>3. (E[m - 1] - E[k]) + q \in 1 .. E[n] - E[k]
      <4>1. E[m - 1] + Len(B(m)) <= E[n]
        BY <2>2
      <4> QED
        BY <2>2, <3>1, <4>1, Inside
    <3> QED
      BY <3>2, <3>3
  <2> QED
    BY <1>2, <1>3, <2>3
<1>7. Left(z) + Len(y) = E[n] - E[k]
  BY <1>2, <1>3
<1> QED
  BY <1>2, <1>6, <1>7 DEF Carries, E, B

LEMMA ComingIs ==
  ASSUME NEW s, NEW t, NEW p, NEW d, NEW r, NEW l, s.data = d, s.rsize = r, Left(s) = l
  PROVE  Coming(s, t, p) = IF p <= l THEN d[r + p] ELSE t[p - l]
  BY DEF Coming

LEMMA KeepsComing ==
  ASSUME NEW s, Good(s), NEW z, Keeps(s, z), NEW t
  PROVE  \A p \in Nat \ {0} : Coming(z, t, p) = Coming(s, t, p)
<1>1. Left(s) \in Nat /\ Left(z) = Left(s)
  BY GoodFields DEF Keeps
<1>2. \A p \in 1 .. Left(s) : z.data[z.rsize + p] = s.data[s.rsize + p]
  BY DEF Keeps
<1> QED
  BY <1>1, <1>2 DEF Coming

\* A part of a sequence.
LEMMA PartOf ==
  ASSUME NEW t \in Seq(Byte), NEW m \in Nat, NEW n \in Nat, 1 <= m, m <= n + 1, n <= Len(t),
         NEW x, x = SubSeq(t, m, n)
  PROVE  /\ x \in Seq(Byte) /\ Len(x) = (n - m) + 1
         /\ \A p \in 1 .. (n - m) + 1 : x[p] = t[(m - 1) + p]
<1>1. Len(t) \in Nat /\ m \in Int /\ n \in Int
  BY LenProperties
<1>2. \A i \in m .. n : t[i] \in Byte
  <2> SUFFICES ASSUME NEW i \in m .. n
               PROVE  t[i] \in Byte
    OBVIOUS
  <2>1. i \in 1 .. Len(t)
    BY <1>1
  <2> QED
    BY <2>1, ElementOfSeq
<1>3. /\ x \in Seq(Byte)
      /\ Len(x) = IF m <= n THEN n - m + 1 ELSE 0
      /\ \A i \in 1 .. n - m + 1 : x[i] = t[m + i - 1]
  BY <1>1, <1>2, SubSeqProperties
<1>4. Len(x) = (n - m) + 1
  BY <1>3
<1>5. ASSUME NEW p \in 1 .. (n - m) + 1
      PROVE  x[p] = t[(m - 1) + p]
  <2>1. x[p] = t[m + p - 1]
    BY <1>3
  <2>2. m + p - 1 = (m - 1) + p
    OBVIOUS
  <2> QED
    BY <2>1, <2>2
<1> QED
  BY <1>3, <1>4, <1>5

\* The first n bytes of t go to the stream s, which is then z, and y is left.
Takes(s, t, n, z, y) ==
    /\ n \in 1 .. Len(t)
    /\ z = [s EXCEPT !.data = @ \o SubSeq(t, 1, n)]
    /\ y = SubSeq(t, n + 1, Len(t))

\* Reading moves bytes from the connection to the stream.
LEMMA ReadComing ==
  ASSUME NEW s, Good(s), NEW t \in Seq(Byte), NEW n, NEW z, NEW y, Takes(s, t, n, z, y)
  PROVE  /\ Good(z) /\ y \in Seq(Byte) /\ Left(z) + Len(y) = Left(s) + Len(t)
         /\ \A p \in 1 .. Left(s) + Len(t) : Coming(z, y, p) = Coming(s, t, p)
<1> DEFINE d == s.data
           r == s.rsize
           x == SubSeq(t, 1, n)
           L == Left(s)
           e == z.data
<1>1. /\ s \in Stream /\ d \in Seq(Byte) /\ r \in Nat /\ Used(s) \in Nat
      /\ L \in Nat /\ Used(s) = r + L /\ Len(d) = r + L
  BY GoodFields DEF Used
<1>2. Len(t) \in Nat /\ n \in Nat /\ 1 <= n /\ n <= Len(t) /\ y = SubSeq(t, n + 1, Len(t))
  BY LenProperties DEF Takes
<1> HIDE DEF x
<1>3. /\ x \in Seq(Byte) /\ Len(x) = n /\ \A p \in 1 .. n : x[p] = t[p]
  <2>1. /\ x \in Seq(Byte) /\ Len(x) = (n - 1) + 1
        /\ \A p \in 1 .. (n - 1) + 1 : x[p] = t[(1 - 1) + p]
    BY <1>2, PartOf DEF x
  <2> QED
    BY <1>2, <2>1
<1>4. /\ y \in Seq(Byte) /\ Len(y) = Len(t) - n
      /\ \A p \in 1 .. Len(t) - n : y[p] = t[n + p]
  <2>1. /\ y \in Seq(Byte) /\ Len(y) = (Len(t) - (n + 1)) + 1
        /\ \A p \in 1 .. (Len(t) - (n + 1)) + 1 : y[p] = t[((n + 1) - 1) + p]
    <3>1. n + 1 \in Nat /\ 1 <= n + 1 /\ n + 1 <= Len(t) + 1 /\ Len(t) <= Len(t)
      BY <1>2
    <3> QED
      BY <1>2, <3>1, PartOf
  <2>2. (Len(t) - (n + 1)) + 1 = Len(t) - n /\ (n + 1) - 1 = n
    BY <1>2
  <2> QED
    BY <2>1, <2>2
<1>5. z = [s EXCEPT !.data = d \o x]
  BY DEF x, Takes
<1> HIDE DEF d, e
<1>6. /\ d \o x \in Seq(Byte) /\ Len(d \o x) = Len(d) + n
      /\ \A i \in 1 .. Len(d) + n : (d \o x)[i] = IF i <= Len(d) THEN d[i] ELSE x[i - Len(d)]
  BY <1>1, <1>3, ConcatProperties
<1>7. z \in Stream /\ e = d \o x /\ z.rsize = r
  BY <1>1, <1>5, <1>6 DEF Stream, e
<1>8. Used(z) = (r + L) + n /\ Left(z) = L + n
  BY <1>1, <1>2, <1>6, <1>7 DEF Used, Left, e
<1>9. Good(z)
  BY <1>1, <1>2, <1>7, <1>8 DEF Good
<1>10. Left(z) + Len(y) = L + Len(t)
  BY <1>1, <1>2, <1>4, <1>8
<1>11. ASSUME NEW p \in 1 .. L + Len(t)
       PROVE  Coming(z, y, p) = Coming(s, t, p)
  <2>0. p \in Nat /\ 1 <= p /\ p <= L + Len(t)
    BY <1>1, <1>2
  <2> HIDE DEF L, r
  <2>4. Coming(s, t, p) = IF p <= L THEN d[r + p] ELSE t[p - L]
    BY ComingIs DEF d, L, r
  <2>5. Coming(z, y, p) = IF p <= L + n THEN e[r + p] ELSE y[p - (L + n)]
    <3> DEFINE a == z.rsize
               b == Left(z)
    <3>1. a = r /\ b = L + n
      BY <1>7, <1>8
    <3>2. Coming(z, y, p) = IF p <= b THEN e[a + p] ELSE y[p - b]
      BY DEF Coming, e
    <3> HIDE DEF a, b
    <3> QED
      BY <3>1, <3>2
  <2>1. CASE p <= L
    <3>1. r + p \in 1 .. Len(d) + n /\ r + p <= Len(d)
      BY <1>1, <1>2, <2>0, <2>1
    <3>2. e[r + p] = d[r + p]
      BY <1>6, <1>7, <3>1
    <3>3. p <= L + n
      BY <1>1, <1>2, <2>0, <2>1
    <3> QED
      BY <2>1, <2>4, <2>5, <3>2, <3>3
  <2>2. CASE L < p /\ p <= L + n
    <3>1. /\ r + p \in 1 .. Len(d) + n /\ ~ (r + p <= Len(d))
          /\ (r + p) - Len(d) = p - L /\ p - L \in 1 .. n
      BY <1>1, <1>2, <2>0, <2>2
    <3>2. e[r + p] = x[p - L]
      BY <1>6, <1>7, <3>1
    <3>3. x[p - L] = t[p - L]
      BY <1>3, <3>1
    <3> QED
      BY <1>1, <1>2, <2>0, <2>4, <2>5, <2>2, <3>2, <3>3
  <2>3. CASE p > L + n
    <3>1. /\ p - (L + n) \in 1 .. Len(t) - n /\ n + (p - (L + n)) = p - L
          /\ ~ (p <= L) /\ ~ (p <= L + n)
      BY <1>1, <1>2, <2>0, <2>3
    <3>2. y[p - (L + n)] = t[p - L]
      BY <1>4, <3>1
    <3> QED
      BY <2>4, <2>5, <3>1, <3>2
  <2> QED
    BY <1>1, <1>2, <2>0, <2>1, <2>2, <2>3
<1> QED
  BY <1>4, <1>9, <1>10, <1>11 DEF L

LEMMA Shifted ==
  ASSUME NEW a \in Nat, NEW b \in Nat, NEW c \in Nat, NEW d \in Nat, NEW e \in Nat,
         a + b = d - e, NEW f, f = d + c
  PROVE  a + (b + c) = f - e
  OBVIOUS

\* Sending puts a packet behind what is under way.
LEMMA SendCarries ==
  ASSUME NEW sc \in Scripts, WellSent, NEW s, Good(s), NEW t \in Seq(Byte),
         NEW k \in 0 .. Len(sc), NEW n \in 0 .. Len(sc), n < Len(sc),
         Carries(sc, s, t, k, n), NEW y, y = t \o RequestBytes[sc[n + 1]]
  PROVE  /\ y \in Seq(Byte) /\ Carries(sc, s, y, k, n + 1)
         /\ Len(y) = Len(t) + Len(RequestBytes[sc[n + 1]])
<1> DEFINE E == RequestEnds[sc]
           N == Len(sc)
           B(m) == RequestBytes[sc[m]]
           L == Left(s)
           c == B(n + 1)
<1>1. /\ N \in Nat /\ \A m \in 0 .. N : E[m] \in Nat
      /\ \A m \in 1 .. N : sc[m] \in Requests /\ Len(B(m)) \in Nat /\ E[m] = E[m - 1] + Len(B(m))
      /\ \A m, l \in 0 .. N : m <= l => E[m] <= E[l]
  BY EndsSteps
<1>2. /\ k <= n /\ L + Len(t) = E[n] - E[k]
      /\ \A m \in k + 1 .. n : \A q \in 1 .. Len(B(m)) :
            Coming(s, t, (E[m - 1] - E[k]) + q) = B(m)[q]
  BY DEF Carries
<1>3. k \in 0 .. N /\ n \in 0 .. N /\ n + 1 \in 1 .. N /\ n + 1 \in 0 .. N
      /\ k \in Nat /\ n \in Nat /\ k <= n + 1 /\ (n + 1) - 1 = n
  BY <1>1, <1>2
<1>4. L \in Nat /\ Len(t) \in Nat
  BY GoodFields, LenProperties
<1>5. c \in Seq(Byte) /\ Len(c) \in Nat
  <2>1. sc[n + 1] \in Requests /\ Sendable(sc[n + 1])
    BY <1>1, <1>3 DEF WellSent
  <2> QED
    BY <2>1, PacketBytes, LenProperties
<1>6. y = t \o c
  OBVIOUS
<1>7. E[n + 1] = E[n] + Len(c)
  BY <1>1, <1>3
<1> HIDE DEF c
<1>8. /\ y \in Seq(Byte) /\ Len(y) = Len(t) + Len(c)
      /\ \A i \in 1 .. Len(t) + Len(c) : y[i] = IF i <= Len(t) THEN t[i] ELSE c[i - Len(t)]
  <2>1. /\ t \o c \in Seq(Byte) /\ Len(t \o c) = Len(t) + Len(c)
        /\ \A i \in 1 .. Len(t) + Len(c) :
              (t \o c)[i] = IF i <= Len(t) THEN t[i] ELSE c[i - Len(t)]
    BY <1>5, ConcatProperties
  <2> QED
    BY <1>6, <2>1
<1> HIDE DEF E, N, B, L
<1>9. E[n] \in Nat /\ E[k] \in Nat /\ E[k] <= E[n]
  BY <1>1, <1>2, <1>3
<1>10. L + Len(y) = E[n + 1] - E[k]
  <2>1. L + (Len(t) + Len(c)) = E[n + 1] - E[k]
    <3>1. L + Len(t) = E[n] - E[k] /\ Len(t) \in Nat /\ L \in Nat /\ Len(c) \in Nat
      BY <1>2, <1>4, <1>5
    <3> DEFINE f == E[n + 1]
               d == E[n]
               e == E[k]
               b == Len(t)
               g == Len(c)
    <3>2. /\ L + b = d - e /\ b \in Nat /\ L \in Nat /\ g \in Nat /\ d \in Nat /\ e \in Nat
          /\ f = d + g
      BY <1>7, <1>9, <3>1
    <3> HIDE DEF f, d, e, b, g
    <3>3. L + (b + g) = f - e
      BY <3>2, Shifted
    <3> QED
      BY <3>3 DEF f, e, b, g
  <2> QED
    BY <1>8, <2>1
<1>11. \A p \in 1 .. L + Len(t) : Coming(s, y, p) = Coming(s, t, p)
  <2> SUFFICES ASSUME NEW p \in 1 .. L + Len(t)
               PROVE  Coming(s, y, p) = Coming(s, t, p)
    OBVIOUS
  <2>1. CASE p <= L
    BY <2>1 DEF Coming, L
  <2>2. CASE p > L
    <3>1. p - L \in 1 .. Len(t) + Len(c) /\ p - L <= Len(t) /\ ~ (p <= L)
      BY <1>4, <1>5, <2>2
    <3>2. y[p - L] = t[p - L]
      BY <1>8, <3>1
    <3>3. Coming(s, y, p) = y[p - L] /\ Coming(s, t, p) = t[p - L]
      BY <3>1 DEF Coming, L
    <3> QED
      BY <3>2, <3>3
  <2> QED
    BY <1>4, <2>1, <2>2
<1>12. ASSUME NEW m \in k + 1 .. n + 1, NEW q \in 1 .. Len(B(m))
       PROVE  Coming(s, y, (E[m - 1] - E[k]) + q) = B(m)[q]
  <2>1. m \in 1 .. N /\ m \in 0 .. N /\ m - 1 \in 0 .. N /\ k <= m - 1 /\ m \in Nat
    BY <1>1, <1>3
  <2>2. /\ E[m - 1] \in Nat /\ E[m] \in Nat /\ Len(B(m)) \in Nat
        /\ E[m] = E[m - 1] + Len(B(m)) /\ E[k] <= E[m - 1]
    BY <1>1, <1>3, <2>1
  <2>3. q \in Nat /\ 1 <= q /\ q <= Len(B(m))
    BY <2>2
  <2>4. CASE m <= n
    <3>1. m \in k + 1 .. n
      BY <1>3, <2>1, <2>4
    <3>2. E[m] <= E[n]
      BY <1>1, <1>3, <2>1, <2>4
    <3>3. E[m - 1] + Len(B(m)) <= E[n]
      BY <2>2, <3>2
    <3>4. (E[m - 1] - E[k]) + q \in 1 .. L + Len(t)
      <4>1. (E[m - 1] - E[k]) + q \in 1 .. E[n] - E[k]
        BY <1>9, <2>2, <2>3, <3>3, Inside
      <4> QED
        BY <1>2, <4>1
    <3> QED
      BY <1>2, <1>11, <3>1, <3>4
  <2>5. CASE m = n + 1
    <3>1. m - 1 = n /\ B(m) = c
      BY <1>3, <2>5 DEF B, c
    <3> DEFINE p == (E[n] - E[k]) + q
    <3>2. p = (L + Len(t)) + q
      BY <1>2
    <3> HIDE DEF p
    <3>3. p \in Nat /\ ~ (p <= L) /\ p - L = Len(t) + q
      BY <1>4, <2>3, <3>2
    <3>4. Len(t) + q \in 1 .. Len(t) + Len(c) /\ ~ (Len(t) + q <= Len(t)) /\ (Len(t) + q) - Len(t) = q
      BY <1>4, <1>5, <2>3, <3>1
    <3>5. y[Len(t) + q] = c[q]
      BY <1>8, <3>4
    <3>6. Coming(s, y, p) = y[Len(t) + q]
      BY <3>3 DEF Coming, L
    <3> QED
      BY <3>1, <3>5, <3>6 DEF p
  <2> QED
    BY <1>3, <2>1, <2>4, <2>5
<1>13. Carries(sc, s, y, k, n + 1)
  BY <1>3, <1>10, <1>12 DEF Carries, E, B, L
<1> QED
  BY <1>8, <1>13 DEF c

LEMMA EmptyCarries ==
  ASSUME NEW sc \in Scripts, WellSent, NEW s, Left(s) = 0
  PROVE  Carries(sc, s, <<>>, 0, 0)
<1>1. Len(<<>>) = 0 /\ RequestEnds[sc][0] = 0
  BY EmptySeq, EndsSteps
<1>2. 0 + 1 .. 0 = {}
  OBVIOUS
<1> QED
  BY <1>1, <1>2 DEF Carries

\* The next packet, or the part of it that has come, is ahead.
LEMMA CarriesAhead ==
  ASSUME NEW sc \in Scripts, WellSent, NEW s, Good(s), NEW t \in Seq(Byte),
         NEW k \in 0 .. Len(sc), NEW n \in 0 .. Len(sc), k < n, Carries(sc, s, t, k, n),
         NEW c \in Seq(Byte), Len(c) <= Left(s), Len(c) <= Len(RequestBytes[sc[k + 1]]),
         \A p \in 1 .. Len(c) : c[p] = RequestBytes[sc[k + 1]][p]
  PROVE  Ahead(s, c)
<1> DEFINE E == RequestEnds[sc]
           b == RequestBytes[sc[k + 1]]
<1>1. /\ Len(sc) \in Nat /\ E[k] \in Nat /\ Len(b) \in Nat
  <2>1. /\ Len(sc) \in Nat /\ \A m \in 0 .. Len(sc) : RequestEnds[sc][m] \in Nat
        /\ \A m \in 1 .. Len(sc) : Len(RequestBytes[sc[m]]) \in Nat
    BY EndsSteps
  <2>2. k + 1 \in 1 .. Len(sc)
    BY <2>1
  <2> QED
    BY <2>1, <2>2
<1>2. \A m \in k + 1 .. n : \A q \in 1 .. Len(RequestBytes[sc[m]]) :
         Coming(s, t, (E[m - 1] - E[k]) + q) = RequestBytes[sc[m]][q]
  BY DEF Carries
<1>3. k + 1 \in k + 1 .. n /\ (k + 1) - 1 = k
  <2>1. k \in Nat /\ n \in Nat /\ k < n
    BY <1>1
  <2> HIDE DEF E, b
  <2> QED
    BY <2>1
<1>4. \A q \in 1 .. Len(b) : Coming(s, t, (E[k] - E[k]) + q) = b[q]
  BY <1>2, <1>3
<1>5. s.rsize \in Nat /\ Left(s) \in Nat /\ Used(s) = s.rsize + Left(s) /\ Len(c) \in Nat
  BY GoodFields, LenProperties
<1> HIDE DEF E, b
<1>6. ASSUME NEW p \in 1 .. Len(c)
      PROVE  s.data[s.rsize + p] = c[p]
  <2>1. p \in 1 .. Len(b) /\ (E[k] - E[k]) + p = p /\ p <= Left(s)
    BY <1>1, <1>5 DEF b
  <2>2. Coming(s, t, p) = b[p]
    BY <1>4, <2>1
  <2>3. Coming(s, t, p) = s.data[s.rsize + p]
    BY <2>1 DEF Coming
  <2>4. c[p] = b[p]
    BY DEF b
  <2> QED
    BY <2>2, <2>3, <2>4
<1>7. s.rsize + Len(c) <= Used(s)
  BY <1>5
<1> QED
  BY <1>6, <1>7 DEF Ahead

\* When a packet is read the ones behind it are still to come.
LEMMA NextCarries ==
  ASSUME NEW sc \in Scripts, WellSent, NEW s, Good(s), NEW t \in Seq(Byte),
         NEW k \in 0 .. Len(sc), NEW n \in 0 .. Len(sc), k < n, Carries(sc, s, t, k, n),
         NEW l, l = Len(RequestBytes[sc[k + 1]]), l <= Left(s)
  PROVE  Good(Advance(s, l)) /\ Carries(sc, Advance(s, l), t, k + 1, n)
<1> DEFINE E == RequestEnds[sc]
           N == Len(sc)
           B(m) == RequestBytes[sc[m]]
           z == Advance(s, l)
           L == Left(s)
<1>1. /\ N \in Nat /\ \A m \in 0 .. N : E[m] \in Nat
      /\ \A m \in 1 .. N : Len(B(m)) \in Nat /\ E[m] = E[m - 1] + Len(B(m))
      /\ \A m, j \in 0 .. N : m <= j => E[m] <= E[j]
  BY EndsSteps
<1>2. /\ k <= n /\ L + Len(t) = E[n] - E[k]
      /\ \A m \in k + 1 .. n : \A q \in 1 .. Len(B(m)) :
            Coming(s, t, (E[m - 1] - E[k]) + q) = B(m)[q]
  BY DEF Carries
<1>3. k \in 0 .. N /\ n \in 0 .. N /\ k + 1 \in 1 .. N /\ k + 1 \in 0 .. N /\ (k + 1) - 1 = k
      /\ k + 1 <= n /\ k \in Nat /\ n \in Nat
  BY <1>1
<1>4. l \in Nat /\ E[k + 1] = E[k] + l /\ l <= L
  <2>1. Len(B(k + 1)) \in Nat /\ E[k + 1] = E[k] + Len(B(k + 1))
    BY <1>1, <1>3
  <2> QED
    BY <2>1
<1>5. /\ s \in Stream /\ s.rsize \in Nat /\ L \in Nat /\ Used(s) = s.rsize + L /\ Len(t) \in Nat
      /\ Used(s) \in Nat
  BY GoodFields, LenProperties
<1>6. z \in Stream /\ z.data = s.data /\ z.rsize = s.rsize + l
  BY <1>4, <1>5, AdvanceTwice
<1> HIDE DEF z
<1>7. Used(z) = Used(s) /\ Left(z) = L - l /\ Good(z)
  <2>1. Used(z) = Used(s)
    BY <1>6 DEF Used
  <2>2. Left(z) = Used(s) - (s.rsize + l)
    BY <1>6, <2>1 DEF Left
  <2>3. z.rsize <= Used(z)
    BY <1>4, <1>5, <1>6, <2>1
  <2> QED
    BY <1>4, <1>5, <1>6, <2>1, <2>2, <2>3 DEF Good
<1> HIDE DEF E, N, B, L
<1>8. Left(z) + Len(t) = E[n] - E[k + 1]
  <2> DEFINE a == E[n]
             b == E[k]
             c == E[k + 1]
             d == Len(t)
             e == Left(z)
  <2>1. /\ a \in Nat /\ b \in Nat /\ c \in Nat /\ d \in Nat /\ L \in Nat /\ l \in Nat
        /\ L + d = a - b /\ c = b + l /\ e = L - l
    BY <1>1, <1>2, <1>3, <1>4, <1>5, <1>7
  <2> HIDE DEF a, b, c, d, e
  <2>2. e + d = a - c
    BY <2>1
  <2> QED
    BY <2>2 DEF a, c, d, e
<1>9. \A p \in Nat \ {0} : Coming(z, t, p) = Coming(s, t, l + p)
  <2> SUFFICES ASSUME NEW p \in Nat \ {0}
               PROVE  Coming(z, t, p) = Coming(s, t, l + p)
    OBVIOUS
  <2> DEFINE d == s.data
             r == s.rsize
             a == z.rsize
             b == Left(z)
  <2>1. a = r + l /\ b = L - l /\ r \in Nat
    BY <1>5, <1>6, <1>7
  <2>2. Coming(z, t, p) = IF p <= b THEN d[a + p] ELSE t[p - b]
    BY <1>6 DEF Coming
  <2>3. Coming(s, t, l + p) = IF l + p <= L THEN d[r + (l + p)] ELSE t[(l + p) - L]
    BY DEF Coming, L
  <2> HIDE DEF a, b, r, d
  <2>4. a + p = r + (l + p) /\ p - b = (l + p) - L /\ (p <= b <=> l + p <= L)
    BY <1>4, <1>5, <2>1
  <2> QED
    BY <2>2, <2>3, <2>4
<1>10. ASSUME NEW m \in k + 1 + 1 .. n, NEW q \in 1 .. Len(B(m))
       PROVE  Coming(z, t, (E[m - 1] - E[k + 1]) + q) = B(m)[q]
  <2>1. m \in 1 .. N /\ m - 1 \in 0 .. N /\ k + 1 <= m - 1 /\ m \in k + 1 .. n
    BY <1>1, <1>3
  <2>2. /\ E[m - 1] \in Nat /\ E[k + 1] <= E[m - 1] /\ E[k + 1] \in Nat /\ E[k] \in Nat
        /\ Len(B(m)) \in Nat
    BY <1>1, <1>3, <2>1
  <2>3. q \in Nat \ {0}
    BY <2>2
  <2> DEFINE a == E[m - 1]
             c == E[k + 1]
             b == E[k]
  <2>4. Coming(s, t, (a - b) + q) = B(m)[q]
    BY <1>2, <2>1
  <2>5. a \in Nat /\ c \in Nat /\ b \in Nat /\ c <= a /\ c = b + l
    BY <1>4, <2>2
  <2> HIDE DEF a, b, c
  <2>6. (a - c) + q \in Nat \ {0} /\ l + ((a - c) + q) = (a - b) + q
    BY <1>4, <2>3, <2>5
  <2>7. Coming(z, t, (a - c) + q) = B(m)[q]
    BY <1>9, <2>4, <2>6
  <2> QED
    BY <2>7 DEF a, c
<1>11. Carries(sc, z, t, k + 1, n)
  BY <1>3, <1>8, <1>10 DEF Carries, E, B
<1> QED
  BY <1>7, <1>11 DEF z

\* Unless the bytes end with 1 to 3 of a packet, the bytes to read hold the
\* length of one.
LEMMA HeadHasCome ==
  ASSUME NEW sc \in Scripts, WellSent, NEW s, Good(s), NEW t \in Seq(Byte),
         NEW k \in 0 .. Len(sc), NEW n \in 0 .. Len(sc), Carries(sc, s, t, k, n),
         Left(s) > 0, Partial(RequestEnds[sc][n] - Len(t), RequestEnds[sc]) \notin 1 .. 3
  PROVE  k < n /\ Left(s) >= 4
<1> DEFINE E == RequestEnds[sc]
           N == Len(sc)
           L == Left(s)
           lt == Len(t)
           en == E[n]
           ek == E[k]
<1>1. /\ N \in Nat /\ \A m \in 0 .. N : E[m] \in Nat
      /\ \A m \in 1 .. N : /\ Len(RequestBytes[sc[m]]) \in Nat /\ Len(RequestBytes[sc[m]]) >= 6
                           /\ E[m] = E[m - 1] + Len(RequestBytes[sc[m]])
  BY EndsSteps
<1>2. k <= n /\ L + lt = en - ek
  BY DEF Carries
<1>3. L \in Nat /\ lt \in Nat
  BY GoodFields, LenProperties
<1>4. k \in 0 .. N /\ n \in 0 .. N
  OBVIOUS
<1>5. L > 0 /\ Partial(en - lt, E) \notin 1 .. 3
  OBVIOUS
<1>6. en \in Nat /\ ek \in Nat
  BY <1>1, <1>4
<1> HIDE DEF L, lt, N
<1>7. k < n
  <2>1. SUFFICES ASSUME k = n
                 PROVE  FALSE
    BY <1>1, <1>2, <1>4
  <2>2. en = ek
    BY <2>1
  <2> HIDE DEF en, ek
  <2> QED
    BY <1>2, <1>3, <1>5, <1>6, <2>2
<1>8. ASSUME L < 4
      PROVE  FALSE
  <2>1. k + 1 \in 1 .. N /\ (k + 1) - 1 = k
    BY <1>1, <1>4, <1>7
  <2>2. E[k + 1] \in Nat /\ ek + 6 <= E[k + 1]
    <3> DEFINE b == Len(RequestBytes[sc[k + 1]])
               e == E[k + 1]
    <3>1. b \in Nat /\ b >= 6 /\ e = ek + b
      BY <1>1, <2>1
    <3> HIDE DEF b, ek, e
    <3>2. e \in Nat /\ ek + 6 <= e
      BY <1>6, <3>1
    <3> QED
      BY <3>2 DEF e
  <2> DEFINE pos == en - lt
             e == E[k + 1]
  <2> HIDE DEF en, ek, e
  <2>3. pos = ek + L /\ pos \in Nat
    BY <1>2, <1>3, <1>6
  <2>4. ek <= pos /\ pos < e
    BY <1>3, <1>6, <1>8, <2>2, <2>3 DEF e
  <2> HIDE DEF pos
  <2>5. Partial(pos, E) = pos - ek
    BY <1>4, <2>3, <2>4, PartialIs DEF e, ek, N
  <2>6. pos - ek = L
    BY <1>3, <1>6, <2>3
  <2> QED
    BY <1>3, <1>5, <1>8, <2>5, <2>6 DEF pos
<1>9. L >= 4
  BY <1>3, <1>8
<1> QED
  BY <1>7, <1>9 DEF L

(***************************************************************************)
(* The inductive invariant                                                 *)
(***************************************************************************)
\* What is executed are the first of the requests sent, and what is under way
\* are the ones behind them; at the start of a turn of split_message the bytes
\* to read do not end with 1 to 3 of a packet.
FInv ==
    /\ script \in Scripts
    /\ asked \in 0 .. Len(script)
    /\ handled \in Seq(Requests) /\ Len(handled) <= asked
    /\ \A i \in 1 .. Len(handled) : handled[i] = script[i]
    /\ Good(rstrm) /\ toServer \in Seq(Byte)
    /\ link \in {"up", "hung", "dropped", "closed"}
    /\ pc \in {"idle", "read", "split", "write"}
    /\ link \in {"up", "hung"} => Carries(script, rstrm, toServer, Len(handled), asked)
    /\ link \in {"dropped", "closed"} => pc = "idle" /\ Left(rstrm) = 0 /\ toServer = <<>>
    /\ pc = "split" =>
          Left(rstrm) > 0 /\ Partial(Received(toServer), RequestEnds[script]) \notin 1 .. 3

LEMMA FieldsOfInv ==
  ASSUME WellSent, FInv
  PROVE  /\ script \in Scripts /\ Good(rstrm) /\ toServer \in Seq(Byte)
         /\ Len(script) \in Nat /\ asked \in Nat /\ asked <= Len(script)
         /\ Len(handled) \in Nat /\ Len(handled) <= asked
         /\ asked \in 0 .. Len(script) /\ Len(handled) \in 0 .. Len(script)
         /\ Left(rstrm) \in Nat /\ Len(toServer) \in Nat
<1>1. /\ script \in Scripts /\ Good(rstrm) /\ toServer \in Seq(Byte)
      /\ asked \in 0 .. Len(script) /\ Len(handled) <= asked /\ handled \in Seq(Requests)
  BY DEF FInv
<1>2. Len(script) \in Nat
  BY <1>1, EndsSteps
<1>3. Len(handled) \in Nat /\ Len(toServer) \in Nat
  BY <1>1, LenProperties
<1>4. Left(rstrm) \in Nat
  BY <1>1, GoodFields
<1> QED
  BY <1>1, <1>2, <1>3, <1>4

\* The head of a packet tells its length before the packet is there.
LEMMA HeadRead ==
  ASSUME NEW sc \in Scripts, WellSent, NEW s, Good(s), NEW t \in Seq(Byte),
         NEW k \in 0 .. Len(sc), NEW n \in 0 .. Len(sc), k < n, Carries(sc, s, t, k, n),
         Left(s) >= 4
  PROVE  /\ Lengths(s) = {Len(RequestBytes[sc[k + 1]]) - 4}
         /\ Whole(s, Len(RequestBytes[sc[k + 1]]) - 4) =>
               Len(RequestBytes[sc[k + 1]]) <= Left(s) /\ Ahead(s, RequestBytes[sc[k + 1]])
<1> DEFINE r == sc[k + 1]
           b == RequestBytes[r]
           n4 == Len(Body(r))
           h == Put4(n4)
<1>1. r \in Requests /\ Sendable(r)
  <2>1. k + 1 \in 1 .. Len(sc)
    BY EndsSteps
  <2> QED
    BY <2>1, EndsSteps DEF WellSent
<1>2. /\ h \in Seq(Byte) /\ Len(h) = 4 /\ b = h \o Body(r) /\ b \in Seq(Byte)
      /\ Body(r) \in Seq(Byte) /\ Len(b) = 4 + n4 /\ n4 \in Nat
  BY <1>1, PacketBytes
<1>3. n4 < Word
  BY <1>1 DEF Sendable
<1>4. Left(s) \in Nat /\ s.rsize \in Nat /\ Used(s) = s.rsize + Left(s)
  BY GoodFields
<1>5. \A p \in 1 .. 4 : h[p] = b[p]
  <2> DEFINE y == Body(r)
  <2>1. b = h \o y /\ y \in Seq(Byte) /\ h \in Seq(Byte) /\ Len(h) = 4
    BY <1>2
  <2> HIDE DEF h, y
  <2>2. \A i \in 1 .. Len(h) + Len(y) : (h \o y)[i] = IF i <= Len(h) THEN h[i] ELSE y[i - Len(h)]
    BY <2>1, ConcatProperties
  <2>3. \A p \in 1 .. 4 : p \in 1 .. Len(h) + Len(y) /\ p <= Len(h)
    BY <2>1, LenProperties
  <2> HIDE DEF b
  <2> QED
    BY <2>1, <2>2, <2>3
<1> HIDE DEF h, n4
<1>6. Ahead(s, h)
  <2>1. Len(h) <= Left(s) /\ Len(h) <= Len(b)
    BY <1>2
  <2>2. \A p \in 1 .. Len(h) : h[p] = b[p]
    BY <1>2, <1>5
  <2> QED
    BY <1>2, <2>1, <2>2, CarriesAhead
<1>7. Get4(At(s, s.rsize, 4)) = n4
  <2>1. At(s, s.rsize, 4) = h
    BY <1>2, <1>6, AtAhead
  <2>2. Get4(h) = n4
    BY <1>2, <1>3, Digits4 DEF h
  <2> QED
    BY <2>1, <2>2
<1>8. ~ (Used(s) < s.rsize + 4) /\ n4 = Len(b) - 4
  BY <1>2, <1>4
<1>9. Lengths(s) = {Len(b) - 4}
  BY <1>7, <1>8 DEF Lengths
<1>10. ASSUME Whole(s, Len(b) - 4)
       PROVE  Len(b) <= Left(s) /\ Ahead(s, b)
  <2>1. Left(s) < 4 \/ (Len(b) - 4) + 4 <= Left(s)
    BY <1>10 DEF Whole, Left
  <2>2. Len(b) <= Left(s)
    BY <1>2, <1>4, <2>1
  <2>3. b \in Seq(Byte) /\ Len(b) <= Len(b)
    BY <1>2
  <2>4. Ahead(s, b)
    BY <2>2, <2>3, CarriesAhead
  <2> QED
    BY <2>2, <2>4
<1> QED
  BY <1>9, <1>10

\* A turn of split_message closes the connection, waits for more, or executes
\* just the next request.
LEMMA SplitTurn ==
  ASSUME WellSent, FInv, Split
  PROVE  /\ link \in {"up", "hung"} /\ UNCHANGED <<script, asked>>
         /\ \/ Close
            \/ pc' = "read" /\ UNCHANGED <<toServer, link, rstrm, sstrm, handled>>
            \/ /\ Len(handled) < asked
               /\ Len(RequestBytes[script[Len(handled) + 1]]) <= Left(rstrm)
               /\ rstrm' = Advance(rstrm, Len(RequestBytes[script[Len(handled) + 1]]))
               /\ handled' = Append(handled, script[Len(handled) + 1])
               /\ Answer(script[Len(handled) + 1])
               /\ pc' = IF rstrm'.rsize >= Used(rstrm) THEN "read" ELSE "split"
               /\ UNCHANGED <<toServer, link>>
<1> DEFINE K == Len(handled)
           r == script[K + 1]
           b == RequestBytes[r]
<1>1. /\ script \in Scripts /\ Good(rstrm) /\ toServer \in Seq(Byte)
      /\ asked \in 0 .. Len(script) /\ K \in 0 .. Len(script) /\ K \in Nat /\ asked \in Nat
      /\ Left(rstrm) \in Nat /\ asked <= Len(script) /\ Len(script) \in Nat
  BY FieldsOfInv
<1>2. pc = "split" /\ UNCHANGED client
  BY DEF Split
<1>3. /\ link \in {"up", "hung"} /\ Carries(script, rstrm, toServer, K, asked)
      /\ Left(rstrm) > 0
      /\ Partial(RequestEnds[script][asked] - Len(toServer), RequestEnds[script]) \notin 1 .. 3
  BY <1>2 DEF FInv, Received
<1>4. K < asked /\ Left(rstrm) >= 4
  BY <1>1, <1>3, HeadHasCome
<1>5. /\ Lengths(rstrm) = {Len(b) - 4}
      /\ Whole(rstrm, Len(b) - 4) => Len(b) <= Left(rstrm) /\ Ahead(rstrm, b)
  BY <1>1, <1>3, <1>4, HeadRead
<1>6. r \in Requests /\ Sendable(r) /\ Len(b) \in Nat /\ Len(b) >= 6
  <2>1. K + 1 \in 1 .. Len(script)
    BY <1>1, <1>4
  <2> QED
    BY <1>1, <2>1, EndsSteps DEF WellSent
<1> DEFINE id == ReadU16(ReadU32(rstrm).s)
<1>7. \/ Close
      \/ pc' = "read" /\ UNCHANGED <<toServer, link, rstrm, sstrm, handled>>
      \/ /\ Whole(rstrm, Len(b) - 4)
         /\ Process(id.val, id.s)
         /\ pc' = IF rstrm'.rsize >= Used(rstrm) THEN "read"
                  ELSE IF rstrm' = rstrm THEN "stuck" ELSE "split"
         /\ UNCHANGED <<toServer, link>>
  <2> HIDE DEF b
  <2> QED
    BY <1>5 DEF Split
<1>8. ASSUME /\ Whole(rstrm, Len(b) - 4)
             /\ Process(id.val, id.s)
             /\ pc' = IF rstrm'.rsize >= Used(rstrm) THEN "read"
                      ELSE IF rstrm' = rstrm THEN "stuck" ELSE "split"
             /\ UNCHANGED <<toServer, link>>
      PROVE  /\ Len(b) <= Left(rstrm)
             /\ rstrm' = Advance(rstrm, Len(b))
             /\ handled' = Append(handled, r)
             /\ Answer(r)
             /\ pc' = IF rstrm'.rsize >= Used(rstrm) THEN "read" ELSE "split"
  <2> DEFINE z == Advance(rstrm, Len(b))
             s6 == Advance(rstrm, 6)
  <2>1. Len(b) <= Left(rstrm) /\ Ahead(rstrm, b)
    BY <1>5, <1>8
  <2>2. /\ ReadU32(rstrm).s = Advance(rstrm, 4)
        /\ ReadU16(Advance(rstrm, 4)).val = MsgId[r.kind]
        /\ ReadU16(Advance(rstrm, 4)).s = s6
        /\ Decode(ServerDecodes[r.kind], s6) = [msg |-> r.msg, s |-> z, ok |-> TRUE]
    BY <1>6, <2>1, PacketRead
  <2>3. id.val = MsgId[r.kind] /\ id.s = s6
    BY <2>2
  <2>4. r.kind \in Kinds /\ r = [kind |-> r.kind, msg |-> r.msg]
    BY <1>6, ListsMatch DEF Sendable
  <2>5. {k \in Kinds : MsgId[k] = MsgId[r.kind]} = {r.kind}
    BY <2>4, IdsDiffer
  <2>6. Process(MsgId[r.kind], s6)
    BY <1>8, <2>3
  <2> HIDE DEF r, z, s6, b, id
  <2>7. PICK body \in {Decode(ServerDecodes[r.kind], s6)} :
           /\ rstrm' = body.s
           /\ body.ok =>
                 /\ handled' = Append(handled, [kind |-> r.kind, msg |-> body.msg])
                 /\ Answer([kind |-> r.kind, msg |-> body.msg])
    BY <2>5, <2>6 DEF Process
  <2>8. rstrm' = z /\ handled' = Append(handled, r) /\ Answer(r)
    BY <2>2, <2>4, <2>7
  <2>9. z # rstrm
    <3>1. z.rsize = rstrm.rsize + Len(b) /\ rstrm.rsize \in Nat
      BY <1>1, <1>6, GoodFields, AdvanceTwice DEF z
    <3> QED
      BY <1>6, <3>1
  <2> QED
    BY <1>8, <2>1, <2>8, <2>9 DEF z, r
<1>9. UNCHANGED <<script, asked>>
  BY <1>2 DEF client
<1> HIDE DEF id, b, r
<1> QED
  BY <1>3, <1>4, <1>7, <1>8, <1>9 DEF b, r

LEMMA EmptyStream ==
  ASSUME NEW z, NEW n \in Nat \ {0}, z = [data |-> <<>>, rsize |-> 0, size |-> n]
  PROVE  Good(z) /\ Left(z) = 0
<1>1. <<>> \in Seq(Byte) /\ Len(<<>>) = 0
  BY EmptySeq
<1>2. z \in Stream /\ z.data = <<>> /\ z.rsize = 0
  BY <1>1 DEF Stream
<1> QED
  BY <1>1, <1>2 DEF Good, Left, Used

LEMMA FInvInit ==
  ASSUME WellSent, Init
  PROVE  FInv
<1>1. script \in Scripts /\ asked = 0 /\ handled = <<>> /\ toServer = <<>> /\ link = "up"
      /\ rstrm = Fresh /\ pc = "idle"
  BY DEF Init
<1>2. Good(rstrm) /\ Left(rstrm) = 0
  BY <1>1, EmptyStream, StreamAssumption DEF Fresh
<1>3. Len(handled) = 0 /\ handled \in Seq(Requests) /\ toServer \in Seq(Byte)
  BY <1>1, EmptySeq
<1>4. Len(script) \in Nat
  BY <1>1, EndsSteps
<1>5. Carries(script, rstrm, toServer, 0, 0)
  BY <1>1, <1>2, EmptyCarries
<1>6. asked \in 0 .. Len(script) /\ Len(handled) <= asked
  BY <1>1, <1>3, <1>4
<1>7. \A i \in 1 .. Len(handled) : handled[i] = script[i]
  BY <1>3
<1> QED
  BY <1>1, <1>2, <1>3, <1>5, <1>6, <1>7 DEF FInv

LEMMA CloseKeepsInv ==
  ASSUME WellSent, FInv, Close, link \in {"up", "hung"}, UNCHANGED <<script, asked>>
  PROVE  FInv'
<1>1. /\ link' \in {"dropped", "closed"} /\ pc' = "idle" /\ toServer' = <<>>
      /\ UNCHANGED <<handled, script, asked>>
      /\ rstrm' = Reduce(Rewind(rstrm))
  BY DEF Close
<1>2. Good(rstrm') /\ Left(rstrm') = 0
  <2> DEFINE y == Rewind(rstrm)
             z == rstrm'
  <2>1. rstrm \in Stream
    BY FieldsOfInv, GoodFields
  <2>2. y \in Stream /\ y.data = <<>> /\ y.rsize = 0
    BY <2>1, EmptySeq DEF Rewind, Stream
  <2>3. z = Fresh \/ z = y
    BY <1>1 DEF Reduce
  <2>4. Good(Fresh) /\ Left(Fresh) = 0
    BY EmptyStream, StreamAssumption DEF Fresh
  <2>5. Good(y) /\ Left(y) = 0
    <3> HIDE DEF y
    <3>1. Len(<<>>) = 0
      OBVIOUS
    <3> QED
      BY <2>2, <3>1 DEF Good, Left, Used
  <2> HIDE DEF y, z
  <2>6. Good(z) /\ Left(z) = 0
    BY <2>3, <2>4, <2>5
  <2> QED
    BY <2>6 DEF z
<1>3. toServer' \in Seq(Byte)
  BY <1>1, EmptySeq
<1>4. /\ script' \in Scripts /\ asked' \in 0 .. Len(script')
      /\ handled' \in Seq(Requests) /\ Len(handled') <= asked'
      /\ \A i \in 1 .. Len(handled') : handled'[i] = script'[i]
  BY <1>1 DEF FInv
<1> QED
  BY <1>1, <1>2, <1>3, <1>4 DEF FInv

\* A step that leaves what is under way alone.
LEMMA QuietKeepsInv ==
  ASSUME WellSent, FInv, UNCHANGED <<script, asked, handled, rstrm, toServer>>,
         \/ link' = link
         \/ link = "up" /\ link' = "hung"
         \/ link = "dropped" /\ link' = "closed",
         \/ pc' = pc
         \/ link \in {"up", "hung"} /\ pc' \in {"idle", "read", "write"}
  PROVE  FInv'
<1>1. Received(toServer)' = Received(toServer)
  BY DEF Received
<1>2. /\ script' = script /\ asked' = asked /\ handled' = handled /\ rstrm' = rstrm
      /\ toServer' = toServer
  OBVIOUS
<1> QED
  BY <1>1, <1>2 DEF FInv

LEMMA SendKeepsInv ==
  ASSUME WellSent, FInv, Send
  PROVE  FInv'
<1> DEFINE K == Len(handled)
           b == RequestBytes[script[asked + 1]]
           E == RequestEnds[script]
<1>1. /\ link = "up" /\ asked < Len(script) /\ asked' = asked + 1
      /\ toServer' = toServer \o b
      /\ UNCHANGED <<script, link, rstrm, handled, pc>>
  BY DEF Send, Calls, server
<1>2. /\ script \in Scripts /\ Good(rstrm) /\ toServer \in Seq(Byte)
      /\ asked \in 0 .. Len(script) /\ K \in 0 .. Len(script) /\ K \in Nat /\ asked \in Nat
      /\ asked <= Len(script) /\ Len(script) \in Nat /\ K <= asked /\ Len(toServer) \in Nat
  BY FieldsOfInv
<1>3. Carries(script, rstrm, toServer, K, asked)
  BY <1>1 DEF FInv
<1>4. /\ toServer' \in Seq(Byte) /\ Carries(script, rstrm, toServer', K, asked + 1)
      /\ Len(toServer') = Len(toServer) + Len(b)
  <2> DEFINE y == toServer'
  <2>1. y = toServer \o RequestBytes[script[asked + 1]]
    BY <1>1
  <2> HIDE DEF y
  <2>2. y \in Seq(Byte) /\ Carries(script, rstrm, y, K, asked + 1)
        /\ Len(y) = Len(toServer) + Len(RequestBytes[script[asked + 1]])
    <3>1. /\ script \in Scripts /\ Good(rstrm) /\ toServer \in Seq(Byte)
          /\ K \in 0 .. Len(script) /\ asked \in 0 .. Len(script) /\ asked < Len(script)
          /\ Carries(script, rstrm, toServer, K, asked)
      BY <1>1, <1>2, <1>3
    <3> HIDE DEF K, b, E
    <3>2. \A x : x = toServer \o RequestBytes[script[asked + 1]] =>
             /\ x \in Seq(Byte) /\ Carries(script, rstrm, x, K, asked + 1)
             /\ Len(x) = Len(toServer) + Len(RequestBytes[script[asked + 1]])
      BY <3>1, SendCarries
    <3> QED
      BY <2>1, <3>2
  <2> QED
    BY <2>2 DEF y
<1>5. asked' \in 0 .. Len(script) /\ K <= asked'
  BY <1>1, <1>2
<1>6. Received(toServer)' = Received(toServer)
  <2>1. asked + 1 \in 1 .. Len(script) /\ (asked + 1) - 1 = asked
    BY <1>1, <1>2
  <2>2. E[asked + 1] = E[asked] + Len(b) /\ E[asked] \in Nat /\ Len(b) \in Nat
    BY <1>2, <2>1, EndsSteps
  <2>3. Received(toServer)' = E[asked + 1] - (Len(toServer) + Len(b))
    BY <1>1, <1>4 DEF Received
  <2>4. Received(toServer) = E[asked] - Len(toServer)
    BY DEF Received
  <2> DEFINE c == Len(b)
             d == E[asked]
             e == E[asked + 1]
             l == Len(toServer)
  <2>5. e = d + c /\ d \in Nat /\ c \in Nat /\ l \in Nat
    BY <1>2, <2>2
  <2> HIDE DEF c, d, e, l
  <2>6. e - (l + c) = d - l
    BY <2>5
  <2> QED
    BY <2>3, <2>4, <2>6 DEF c, d, e, l
<1> HIDE DEF b, E
<1> QED
  BY <1>1, <1>4, <1>5, <1>6 DEF FInv

LEMMA ConnectKeepsInv ==
  ASSUME WellSent, FInv, Connect
  PROVE  FInv'
<1>1. /\ link = "closed" /\ link' = "up" /\ asked' = 0 /\ toServer' = <<>> /\ handled' = <<>>
      /\ UNCHANGED <<script, rstrm, pc>>
  BY DEF Connect
<1>2. pc = "idle" /\ Left(rstrm) = 0 /\ script \in Scripts /\ Good(rstrm)
  BY <1>1 DEF FInv
<1>3. Len(handled') = 0 /\ handled' \in Seq(Requests) /\ toServer' \in Seq(Byte)
  BY <1>1, EmptySeq
<1>4. Len(script) \in Nat
  BY <1>2, EndsSteps
<1>5. Carries(script, rstrm, <<>>, 0, 0)
  BY <1>2, EmptyCarries
<1>6. asked' \in 0 .. Len(script) /\ Len(handled') <= asked'
  BY <1>1, <1>3, <1>4
<1>7. \A i \in 1 .. Len(handled') : handled'[i] = script'[i]
  BY <1>3
<1> QED
  BY <1>1, <1>2, <1>3, <1>5, <1>6, <1>7 DEF FInv

LEMMA PreparedKeeps ==
  ASSUME Good(rstrm)
  PROVE  Keeps(rstrm, Prepared)
<1> DEFINE m == Move(rstrm)
<1>1. Keeps(rstrm, m)
  BY MoveKeeps
<1>2. Good(m) /\ 2 * m.size \in Nat
  <2>1. Good(m)
    BY <1>1 DEF Keeps
  <2> HIDE DEF m
  <2>2. m.size \in Nat \ {0}
    BY <2>1, GoodFields
  <2> QED
    BY <2>1, <2>2
<1>3. Prepared = IF Used(m) >= m.size THEN Resize(m, 2 * m.size) ELSE m
  BY DEF Prepared
<1> HIDE DEF m
<1>4. Keeps(m, Resize(m, 2 * m.size))
  BY <1>2, ResizeKeeps
<1> QED
  BY <1>1, <1>3, <1>4, KeepsTwice

\* The stream is tidied and grown without a byte lost.
LEMMA PreparedCarries ==
  ASSUME WellSent, FInv, link \in {"up", "hung"}
  PROVE  /\ Good(Prepared) /\ Left(Prepared) = Left(rstrm)
         /\ Carries(script, Prepared, toServer, Len(handled), asked)
<1> DEFINE z == Prepared
<1>1. /\ script \in Scripts /\ Good(rstrm) /\ toServer \in Seq(Byte)
      /\ asked \in 0 .. Len(script) /\ Len(handled) \in 0 .. Len(script)
      /\ Left(rstrm) \in Nat /\ Len(toServer) \in Nat
  BY FieldsOfInv
<1>2. Keeps(rstrm, z)
  BY <1>1, PreparedKeeps
<1>3. Carries(script, rstrm, toServer, Len(handled), asked)
  BY DEF FInv
<1> HIDE DEF z
<1>4. Good(z) /\ Left(z) = Left(rstrm)
  BY <1>2 DEF Keeps
<1>5. \A p \in 1 .. Left(rstrm) + Len(toServer) : Coming(z, toServer, p) = Coming(rstrm, toServer, p)
  <2>1. \A p \in Nat \ {0} : Coming(z, toServer, p) = Coming(rstrm, toServer, p)
    BY <1>1, <1>2, KeepsComing
  <2>2. 1 .. Left(rstrm) + Len(toServer) \subseteq Nat \ {0}
    BY <1>1
  <2> QED
    BY <2>1, <2>2
<1>6. Left(z) + Len(toServer) = Left(rstrm) + Len(toServer)
  BY <1>4
<1>7. Carries(script, z, toServer, Len(handled), asked)
  BY <1>1, <1>3, <1>4, <1>5, <1>6, KeepsCarries
<1> QED
  BY <1>4, <1>7 DEF z

(***************************************************************************)
(* What has happened so far                                                *)
(***************************************************************************)
CountInv == count \in [DOMAIN Bounds -> Nat]

LEMMA UseCounts ==
  ASSUME CountInv, NEW b \in DOMAIN Bounds, Use(b)
  PROVE  /\ CountInv' /\ count'[b] > 0
         /\ \A d \in DOMAIN Bounds : count[d] <= count'[d]
<1> DEFINE D == DOMAIN Bounds
           c == count
<1>1. c \in [D -> Nat] /\ count' = [c EXCEPT ![b] = @ + 1] /\ b \in D
  BY DEF Use, CountInv
<1> HIDE DEF D, c
<1>2. count' \in [D -> Nat] /\ count'[b] = c[b] + 1 /\ c[b] \in Nat
  BY <1>1
<1>3. \A d \in D : c[d] \in Nat /\ (d # b => count'[d] = c[d])
  BY <1>1
<1>4. \A d \in D : c[d] <= count'[d]
  BY <1>2, <1>3
<1> QED
  BY <1>2, <1>4 DEF CountInv, D, c

\* A step adds to what has happened.
LEMMA NextCounts ==
  ASSUME CountInv, [Next]_vars
  PROVE  CountInv' /\ \A d \in DOMAIN Bounds : count[d] <= count'[d]
<1>1. count' = count \/ \E b \in DOMAIN Bounds : Use(b)
  <2>1. CASE UNCHANGED vars
    BY <2>1 DEF vars
  <2>2. CASE Send \/ Connect \/ Event \/ Drained \/ ReadEnd \/ WriteSome \/ WriteEnd
    BY <2>2 DEF Send, Connect, Event, Drained, ReadEnd, WriteSome, WriteEnd
  <2>3. CASE Recv
    BY <2>3, Zenon DEF Recv, Bounds
  <2>4. CASE GiveUp
    BY <2>4 DEF GiveUp, Bounds
  <2>5. CASE HangUp
    BY <2>5 DEF HangUp, Bounds
  <2>6. CASE Read
    BY <2>6, Zenon DEF Read, Bounds
  <2>7. CASE Split
    <3>1. PICK len \in Lengths(rstrm) :
             \/ UNCHANGED count
             \/ Process(ReadU16(ReadU32(rstrm).s).val, ReadU16(ReadU32(rstrm).s).s)
      BY <2>7, Zenon DEF Split
    <3>2. ASSUME NEW i, NEW s, Process(i, s)
          PROVE  UNCHANGED count \/ Use("move")
      BY <3>2, Zenon DEF Process, Answer
    <3> QED
      BY <3>1, <3>2 DEF Bounds
  <2> QED
    BY <2>1, <2>2, <2>3, <2>4, <2>5, <2>6, <2>7 DEF Next, Serve
<1>2. ASSUME count' = count
      PROVE  CountInv' /\ \A d \in DOMAIN Bounds : count[d] <= count'[d]
  <2>1. \A d \in DOMAIN Bounds : count[d] \in Nat
    BY DEF CountInv
  <2> QED
    BY <1>2, <2>1 DEF CountInv
<1> QED
  BY <1>1, <1>2, UseCounts

LEMMA CountInit ==
  ASSUME Init
  PROVE  CountInv
BY DEF Init, CountInv

LEMMA ReadKeepsInv ==
  ASSUME WellSent, CountInv, FInv, Read, count'.request = 0
  PROVE  FInv'
<1> DEFINE s == Prepared
           K == Len(handled)
<1>1. pc = "read" /\ toServer # <<>> /\ UNCHANGED <<script, asked, handled, link>>
  BY DEF Read, client
<1>2. link \in {"up", "hung"}
  BY <1>1 DEF FInv
<1>3. /\ script \in Scripts /\ toServer \in Seq(Byte) /\ asked \in 0 .. Len(script)
      /\ K \in 0 .. Len(script) /\ Len(toServer) \in Nat
  BY FieldsOfInv
<1>4. Good(s) /\ Carries(script, s, toServer, K, asked)
  BY <1>2, PreparedCarries
<1>5. PICK n \in 1 .. Least(Len(toServer), Room(s)) :
         /\ rstrm' = [s EXCEPT !.data = @ \o SubSeq(toServer, 1, n)]
         /\ toServer' = SubSeq(toServer, n + 1, Len(toServer))
         /\ IF CutsHead(rstrm', toServer') THEN Use("request") ELSE UNCHANGED count
         /\ pc' = IF Splits(rstrm') THEN "split" ELSE "read"
  BY DEF Read
<1> HIDE DEF s
<1>6. n \in 1 .. Len(toServer)
  <2>1. Used(s) \in Int /\ s.size \in Int
    BY <1>4, GoodFields
  <2>2. Room(s) \in Int
    BY <2>1 DEF Room
  <2> DEFINE l == Len(toServer)
             r == Room(s)
  <2>3. l \in Nat /\ r \in Int /\ n \in 1 .. (IF l < r THEN l ELSE r)
    BY <1>3, <2>2 DEF Least
  <2> HIDE DEF l, r
  <2>4. n \in 1 .. l
    BY <2>3
  <2> QED
    BY <2>4 DEF l
<1> DEFINE z == rstrm'
           y == toServer'
<1>7. /\ z = [s EXCEPT !.data = @ \o SubSeq(toServer, 1, n)]
      /\ y = SubSeq(toServer, n + 1, Len(toServer))
  BY <1>5
<1> HIDE DEF z, y
<1>8. /\ Good(z) /\ y \in Seq(Byte) /\ Left(z) + Len(y) = Left(s) + Len(toServer)
      /\ \A p \in 1 .. Left(s) + Len(toServer) : Coming(z, y, p) = Coming(s, toServer, p)
  <2> DEFINE t == toServer
  <2>1. Good(s) /\ t \in Seq(Byte) /\ n \in 1 .. Len(t)
    BY <1>3, <1>4, <1>6
  <2>2. z = [s EXCEPT !.data = @ \o SubSeq(t, 1, n)] /\ y = SubSeq(t, n + 1, Len(t))
    BY <1>7
  <2> HIDE DEF t
  <2>3. /\ Good(z) /\ y \in Seq(Byte) /\ Left(z) + Len(y) = Left(s) + Len(t)
        /\ \A p \in 1 .. Left(s) + Len(t) : Coming(z, y, p) = Coming(s, t, p)
    <3>1. Takes(s, t, n, z, y)
      BY <2>1, <2>2 DEF Takes
    <3> QED
      BY <2>1, <3>1, ReadComing
  <2> QED
    BY <2>3 DEF t
<1>9. Carries(script, z, y, K, asked)
  BY <1>3, <1>4, <1>8, KeepsCarries
<1>10. ~ CutsHead(z, y)
  <2>1. Use("request") => count'["request"] > 0
    BY UseCounts DEF Bounds
  <2>2. ~ Use("request")
    BY <2>1
  <2> QED
    BY <1>5, <2>2 DEF z, y
<1>11. ASSUME Splits(z)
       PROVE  Left(z) > 0 /\ Partial(Received(y), RequestEnds[script]) \notin 1 .. 3
  <2>1. z.rsize \in Nat /\ Left(z) \in Nat /\ Used(z) = z.rsize + Left(z)
    BY <1>8, GoodFields
  <2>2. Left(z) > 4
    BY <1>11, <2>1 DEF Splits
  <2> DEFINE d == Partial(Received(y), RequestEnds[script])
  <2>3. ~ (d \in 1 .. 3 /\ d < Left(z))
    BY <1>10 DEF CutsHead, Left
  <2> HIDE DEF d
  <2>4. d \notin 1 .. 3
    BY <2>1, <2>2, <2>3
  <2>5. Left(z) > 0
    BY <2>1, <2>2
  <2> QED
    BY <2>4, <2>5 DEF d
<1>12. (pc' = "split" /\ Splits(z)) \/ pc' = "read"
  BY <1>5 DEF z
<1>13. /\ handled \in Seq(Requests) /\ K <= asked /\ \A i \in 1 .. K : handled[i] = script[i]
  BY DEF FInv
<1>14. Received(toServer)' = Received(y)
  BY <1>1 DEF Received, y
<1>15. /\ script' \in Scripts /\ asked' \in 0 .. Len(script')
       /\ handled' \in Seq(Requests) /\ Len(handled') <= asked'
       /\ \A i \in 1 .. Len(handled') : handled'[i] = script'[i]
       /\ link' \in {"up", "hung"} /\ pc' \in {"split", "read"}
  BY <1>1, <1>2, <1>3, <1>12, <1>13
<1>16. Good(rstrm') /\ toServer' \in Seq(Byte)
  BY <1>8 DEF z, y
<1>17. Carries(script', rstrm', toServer', Len(handled'), asked')
  BY <1>1, <1>9 DEF z, y
<1>18. pc' = "split" => Left(rstrm') > 0 /\ Partial(Received(toServer)', RequestEnds[script']) \notin 1 .. 3
  BY <1>1, <1>11, <1>12, <1>14 DEF z
<1> HIDE DEF K
<1> QED
  BY <1>15, <1>16, <1>17, <1>18 DEF FInv

LEMMA DrainedKeepsInv ==
  ASSUME WellSent, FInv, Drained
  PROVE  FInv'
<1>1. /\ link = "up" /\ rstrm' = Prepared /\ pc' \in {"write", "idle"}
      /\ UNCHANGED <<script, asked, handled, toServer, link>>
  BY DEF Drained, client
<1> DEFINE z == Prepared
<1>2. Good(z) /\ Carries(script, z, toServer, Len(handled), asked)
  BY <1>1, PreparedCarries
<1> HIDE DEF z
<1>3. rstrm' = z
  BY <1>1 DEF z
<1>4. Good(rstrm') /\ Carries(script', rstrm', toServer', Len(handled'), asked')
  BY <1>1, <1>2, <1>3
<1> QED
  BY <1>1, <1>4 DEF FInv

LEMMA SplitKeepsInv ==
  ASSUME WellSent, FInv, Split
  PROVE  FInv'
<1> DEFINE K == Len(handled)
           r == script[K + 1]
           l == Len(RequestBytes[r])
<1>1. link \in {"up", "hung"} /\ UNCHANGED <<script, asked>>
  BY SplitTurn
<1>2. CASE Close
  BY <1>1, <1>2, CloseKeepsInv
<1>3. CASE pc' = "read" /\ UNCHANGED <<toServer, link, rstrm, handled>>
  BY <1>1, <1>3, QuietKeepsInv
<1>4. CASE /\ K < asked /\ l <= Left(rstrm)
           /\ rstrm' = Advance(rstrm, l)
           /\ handled' = Append(handled, r)
           /\ pc' = IF rstrm'.rsize >= Used(rstrm) THEN "read" ELSE "split"
           /\ UNCHANGED <<toServer, link>>
  <2>1. /\ script \in Scripts /\ Good(rstrm) /\ toServer \in Seq(Byte)
        /\ asked \in 0 .. Len(script) /\ K \in 0 .. Len(script)
        /\ K \in Nat /\ asked \in Nat /\ Len(script) \in Nat /\ asked <= Len(script)
    BY FieldsOfInv
  <2>2. /\ Carries(script, rstrm, toServer, K, asked) /\ pc = "split"
        /\ Partial(Received(toServer), RequestEnds[script]) \notin 1 .. 3
        /\ handled \in Seq(Requests) /\ \A i \in 1 .. K : handled[i] = script[i]
    BY <1>1 DEF FInv, Split
  <2>3. K + 1 \in 1 .. Len(script)
    BY <1>4, <2>1
  <2>4. r \in Requests /\ l \in Nat /\ l >= 6
    BY <2>1, <2>3, EndsSteps
  <2> DEFINE z == Advance(rstrm, l)
  <2>5. Good(z) /\ Carries(script, z, toServer, K + 1, asked)
    BY <1>4, <2>1, <2>2, NextCarries
  <2>6. z.data = rstrm.data
    BY <2>1, <2>4, GoodFields, AdvanceTwice
  <2>7. handled' \in Seq(Requests) /\ Len(handled') = K + 1
        /\ \A i \in 1 .. K + 1 : handled'[i] = IF i = K + 1 THEN r ELSE handled[i]
    <3> HIDE DEF r
    <3>1. /\ Append(handled, r) \in Seq(Requests) /\ Len(Append(handled, r)) = Len(handled) + 1
          /\ \A i \in 1 .. Len(handled) : Append(handled, r)[i] = handled[i]
          /\ Append(handled, r)[Len(handled) + 1] = r
      BY <2>2, <2>4, AppendProperties
    <3>2. \A i \in 1 .. K + 1 : i = K + 1 \/ i \in 1 .. K
      BY <2>1
    <3> QED
      BY <1>4, <2>1, <3>1, <3>2
  <2>8. \A i \in 1 .. K + 1 : handled'[i] = script[i]
    <3> SUFFICES ASSUME NEW i \in 1 .. K + 1
                 PROVE  handled'[i] = script[i]
      OBVIOUS
    <3>1. CASE i = K + 1
      BY <2>7, <3>1
    <3>2. CASE i # K + 1
      <4>1. i \in 1 .. K
        BY <2>1, <3>2
      <4> QED
        BY <2>2, <2>7, <3>2, <4>1
    <3> QED
      BY <3>1, <3>2
  <2> HIDE DEF z, r, l
  <2>9. rstrm' = z /\ K + 1 <= asked
    BY <1>4, <2>1 DEF z
  <2>10. pc' = "split" => Left(z) > 0
    <3>1. /\ z.rsize \in Nat /\ Left(z) \in Nat /\ Used(z) = z.rsize + Left(z)
      BY <2>5, GoodFields
    <3>2. Used(z) = Used(rstrm)
      BY <2>6 DEF Used
    <3>3. pc' = "split" => ~ (z.rsize >= Used(z))
      BY <1>4, <2>9, <3>2
    <3> QED
      BY <3>1, <3>3
  <2>11. Received(toServer)' = Received(toServer)
    BY <1>1, <1>4 DEF Received
  <2>12. /\ Good(rstrm') /\ Carries(script', rstrm', toServer', Len(handled'), asked')
         /\ pc' \in {"read", "split"} /\ (pc' = "split" => Left(rstrm') > 0)
    BY <1>1, <1>4, <2>5, <2>7, <2>9, <2>10
  <2>13. /\ script' \in Scripts /\ asked' \in 0 .. Len(script') /\ toServer' \in Seq(Byte)
         /\ handled' \in Seq(Requests) /\ Len(handled') <= asked'
         /\ \A i \in 1 .. Len(handled') : handled'[i] = script'[i]
         /\ link' \in {"up", "hung"}
    BY <1>1, <1>4, <2>1, <2>7, <2>8, <2>9
  <2>14. Partial(Received(toServer)', RequestEnds[script']) \notin 1 .. 3
    BY <1>1, <2>2, <2>11
  <2> HIDE DEF K
  <2> QED
    BY <2>12, <2>13, <2>14 DEF FInv
<1> QED
  BY <1>2, <1>3, <1>4, SplitTurn

LEMMA NextKeepsInv ==
  ASSUME WellSent, CountInv, FInv, [Next]_vars, count'.request = 0
  PROVE  FInv'
<1>1. CASE UNCHANGED vars
  BY <1>1, QuietKeepsInv DEF vars, client, server
<1>2. CASE Send
  BY <1>2, SendKeepsInv
<1>3. CASE Recv
  BY <1>3, QuietKeepsInv DEF Recv, server
<1>4. CASE GiveUp
  <2>1. /\ UNCHANGED <<script, asked, handled, rstrm, toServer, pc>>
        /\ link' = link \/ (link = "dropped" /\ link' = "closed")
    BY <1>4 DEF GiveUp, server
  <2> QED
    BY <2>1, QuietKeepsInv
<1>5. CASE HangUp
  BY <1>5, QuietKeepsInv DEF HangUp, server
<1>6. CASE Connect
  BY <1>6, ConnectKeepsInv
<1>7. CASE Event
  <2>1. /\ UNCHANGED <<script, asked, handled, rstrm, toServer, link>>
        /\ link \in {"up", "hung"} /\ pc' \in {"read", "write"}
    BY <1>7 DEF Event, client
  <2> QED
    BY <2>1, QuietKeepsInv
<1>8. CASE Read
  BY <1>8, ReadKeepsInv
<1>9. CASE Drained
  BY <1>9, DrainedKeepsInv
<1>10. CASE ReadEnd
  BY <1>10, CloseKeepsInv DEF ReadEnd, client
<1>11. CASE Split
  BY <1>11, SplitKeepsInv
<1>12. CASE WriteSome
  <2>1. /\ UNCHANGED <<script, asked, handled, rstrm, toServer, link>>
        /\ link = "up" /\ pc' = "idle"
    BY <1>12 DEF WriteSome, client
  <2> QED
    BY <2>1, QuietKeepsInv
<1>13. CASE WriteEnd
  BY <1>13, CloseKeepsInv DEF WriteEnd, client
<1> QED
  BY <1>1, <1>2, <1>3, <1>4, <1>5, <1>6, <1>7, <1>8, <1>9, <1>10, <1>11, <1>12, <1>13
     DEF Next, Serve

LEMMA RequestsMonotone ==
  ASSUME CountInv, [Next]_vars, count'.request = 0
  PROVE  count.request = 0
<1>1. count["request"] <= count'["request"] /\ count["request"] \in Nat
  BY NextCounts DEF CountInv, Bounds
<1> QED
  BY <1>1

\* Until the server has once seen 1 to 3 bytes of a request behind a whole one:
\* however the bytes are cut, the stream grown, moved and used again, what is
\* executed are the first requests sent, what is unread continues them, and
\* split_message does not loop (handler_on_read, split_message, process).
THEOREM FInvariance ==
  ASSUME WellSent
  PROVE  Spec => [](CountInv /\ (count.request = 0 => FInv))
<1> DEFINE I == CountInv /\ (count.request = 0 => FInv)
<1>1. Init => I
  BY FInvInit, CountInit
<1>2. ASSUME I, [Next]_vars
      PROVE  I'
  <2>1. CountInv'
    BY <1>2, NextCounts
  <2>2. count'.request = 0 => count.request = 0
    BY <1>2, RequestsMonotone
  <2>3. count'.request = 0 => FInv'
    BY <1>2, <2>2, NextKeepsInv
  <2> QED
    BY <2>1, <2>3
<1>3. I /\ [Next]_vars => I'
  BY <1>2
<1> QED
  BY <1>1, <1>3, PTL DEF Spec

(***************************************************************************)
(* The exchange                                                            *)
(***************************************************************************)
LEMMA Prefix ==
  ASSUME NEW S, NEW s \in Seq(S), NEW n \in 0 .. Len(s), NEW x, x = SubSeq(s, 1, n)
  PROVE  /\ x \in Seq(S) /\ Len(x) = n
         /\ \A i \in 1 .. n : x[i] = s[i]
<1>1. Len(s) \in Nat /\ 1 \in Int /\ n \in Int /\ n \in Nat
  BY LenProperties
<1>2. \A i \in 1 .. n : s[i] \in S
  <2> SUFFICES ASSUME NEW i \in 1 .. n
               PROVE  s[i] \in S
    OBVIOUS
  <2>1. i \in 1 .. Len(s)
    BY <1>1
  <2> QED
    BY <2>1, ElementOfSeq
<1>3. /\ x \in Seq(S) /\ Len(x) = IF 1 <= n THEN n - 1 + 1 ELSE 0
      /\ \A i \in 1 .. n - 1 + 1 : x[i] = s[1 + i - 1]
  BY <1>1, <1>2, SubSeqProperties
<1>4. Len(x) = n /\ n - 1 + 1 = n
  BY <1>1, <1>3
<1>5. \A i \in 1 .. n : x[i] = s[i]
  <2> SUFFICES ASSUME NEW i \in 1 .. n
               PROVE  x[i] = s[i]
    OBVIOUS
  <2>1. 1 + i - 1 = i
    OBVIOUS
  <2> QED
    BY <1>3, <1>4, <2>1
<1> QED
  BY <1>3, <1>4, <1>5

LEMMA PrefixGrows ==
  ASSUME NEW S, NEW s \in Seq(S), NEW n \in Nat, n + 1 \in 1 .. Len(s)
  PROVE  s[n + 1] \in S /\ SubSeq(s, 1, n + 1) = Append(SubSeq(s, 1, n), s[n + 1])
<1> DEFINE x == SubSeq(s, 1, n)
           y == SubSeq(s, 1, n + 1)
           e == s[n + 1]
           a == Append(x, e)
<1>1. Len(s) \in Nat /\ n \in 0 .. Len(s) /\ n + 1 \in 0 .. Len(s)
  BY LenProperties
<1>2. e \in S
  BY ElementOfSeq
<1>3. x \in Seq(S) /\ Len(x) = n /\ \A i \in 1 .. n : x[i] = s[i]
  BY <1>1, Prefix
<1>4. y \in Seq(S) /\ Len(y) = n + 1 /\ \A i \in 1 .. n + 1 : y[i] = s[i]
  BY <1>1, Prefix
<1> HIDE DEF x, y, e
<1>5. /\ a \in Seq(S) /\ Len(a) = Len(x) + 1
      /\ \A i \in 1 .. Len(x) : a[i] = x[i] /\ a[Len(x) + 1] = e
  BY <1>2, <1>3, AppendProperties
<1>6. a[Len(x) + 1] = e
  BY <1>2, <1>3, AppendProperties
<1> HIDE DEF a
<1>7. \A i \in 1 .. n + 1 : y[i] = a[i]
  <2> SUFFICES ASSUME NEW i \in 1 .. n + 1
               PROVE  y[i] = a[i]
    OBVIOUS
  <2>1. CASE i = n + 1
    BY <1>3, <1>4, <1>6, <2>1 DEF e
  <2>2. CASE i # n + 1
    <3>1. i \in 1 .. n
      BY <2>2
    <3> QED
      BY <1>3, <1>4, <1>5, <3>1
  <2> QED
    BY <2>1, <2>2
<1>8. Len(y) = n + 1 /\ Len(a) = n + 1
  BY <1>3, <1>4, <1>5
<1>9. y = a
  BY <1>4, <1>5, <1>7, <1>8, SeqEqual
<1> QED
  BY <1>2, <1>9 DEF a, x, y, e

\* What Exchange calls its state.
Asked == SubSeq(script, 1, asked)
Open == link \in {"up", "dropped"}

LEMMA InitExchange ==
  ASSUME WellSent, Init
  PROVE  EX!Init
<1>1. script \in Seq(Requests) /\ asked = 0 /\ handled = <<>> /\ link = "up"
  BY DEF Init, WellSent
<1>2. SubSeq(script, 1, 0) = <<>>
  BY SMT
<1> QED
  BY <1>1, <1>2 DEF EX!Init

LEMMA QuietExchange ==
  ASSUME UNCHANGED <<script, asked, handled>>, Open' = Open
  PROVE  UNCHANGED EX!vars
  BY DEF EX!vars, Open

LEMMA CloseExchange ==
  ASSUME Close, link \in {"up", "hung"}, UNCHANGED <<script, asked>>
  PROVE  UNCHANGED EX!vars
<1>1. UNCHANGED handled /\ link' = IF link = "up" THEN "dropped" ELSE "closed"
  BY DEF Close
<1>2. Open' = Open
  BY <1>1 DEF Open
<1> QED
  BY <1>1, <1>2, QuietExchange

LEMMA SendExchange ==
  ASSUME WellSent, FInv, Send
  PROVE  EX!Ask
<1>1. /\ link = "up" /\ asked < Len(script) /\ asked' = asked + 1
      /\ UNCHANGED <<script, link, handled>>
  BY DEF Send, Calls, server
<1>2. /\ script \in Seq(Requests) /\ asked \in Nat /\ asked + 1 \in 1 .. Len(script)
  <2>1. script \in Scripts /\ asked \in Nat /\ Len(script) \in Nat
    BY FieldsOfInv
  <2> QED
    BY <1>1, <2>1 DEF WellSent
<1>3. /\ script[asked + 1] \in Requests
      /\ SubSeq(script, 1, asked + 1) = Append(SubSeq(script, 1, asked), script[asked + 1])
  BY <1>2, PrefixGrows
<1>4. SubSeq(script, 1, asked)' = Append(SubSeq(script, 1, asked), script[asked + 1])
  BY <1>1, <1>3
<1>5. link \in {"up", "dropped"} /\ (link \in {"up", "dropped"})' = (link \in {"up", "dropped"})
  BY <1>1
<1> QED
  BY <1>1, <1>3, <1>4, <1>5 DEF EX!Ask

LEMMA ConnectExchange ==
  ASSUME Connect
  PROVE  EX!Again
<1>1. link = "closed" /\ link' = "up" /\ asked' = 0 /\ handled' = <<>> /\ script' = script
  BY DEF Connect
<1>2. SubSeq(script', 1, asked') = <<>>
  BY <1>1, SMT
<1> QED
  BY <1>1, <1>2 DEF EX!Again

LEMMA GiveUpExchange ==
  ASSUME GiveUp
  PROVE  EX!HangUp \/ UNCHANGED EX!vars
<1>1. UNCHANGED <<script, asked, handled>>
  BY DEF GiveUp, server
<1>2. CASE link = "dropped" /\ link' = "closed"
  BY <1>1, <1>2 DEF EX!HangUp
<1>3. CASE link' = link
  BY <1>1, <1>3, QuietExchange DEF Open
<1> QED
  BY <1>2, <1>3 DEF GiveUp

LEMMA HangUpExchange ==
  ASSUME HangUp
  PROVE  EX!HangUp
<1>1. link = "up" /\ link' = "hung" /\ UNCHANGED <<script, asked, handled>>
  BY DEF HangUp, server
<1> QED
  BY <1>1 DEF EX!HangUp

LEMMA SplitExchange ==
  ASSUME WellSent, FInv, Split
  PROVE  EX!Do \/ UNCHANGED EX!vars
<1>1. link \in {"up", "hung"} /\ UNCHANGED <<script, asked>>
  BY SplitTurn
<1>2. CASE Close
  BY <1>1, <1>2, CloseExchange
<1>3. CASE UNCHANGED <<link, handled>>
  BY <1>1, <1>3, QuietExchange DEF Open
<1>4. CASE /\ Len(handled) < asked /\ link' = link
           /\ handled' = Append(handled, script[Len(handled) + 1])
  <2>1. /\ script \in Seq(Requests) /\ asked \in 0 .. Len(script) /\ Len(handled) \in Nat
        /\ asked \in Nat
    BY FieldsOfInv DEF WellSent
  <2> DEFINE a == SubSeq(script, 1, asked)
             n == Len(handled) + 1
  <2>2. Len(a) = asked /\ \A i \in 1 .. asked : a[i] = script[i]
    BY <2>1, Prefix
  <2>3. n \in 1 .. asked
    BY <1>4, <2>1
  <2>4. a[n] = script[n]
    BY <2>2, <2>3
  <2>5. Len(handled) < Len(a) /\ handled' = Append(handled, a[n])
    BY <1>4, <2>2, <2>4
  <2>6. SubSeq(script, 1, asked)' = SubSeq(script, 1, asked)
    BY <1>1
  <2> QED
    BY <1>4, <2>5, <2>6 DEF EX!Do
<1> QED
  BY <1>2, <1>3, <1>4, SplitTurn

LEMMA NextExchange ==
  ASSUME WellSent, FInv, [Next]_vars
  PROVE  [EX!Next]_(EX!vars)
<1>1. CASE UNCHANGED vars
  BY <1>1, QuietExchange DEF vars, client, server, Open
<1>2. CASE Send
  BY <1>2, SendExchange DEF EX!Next
<1>3. CASE Recv
  BY <1>3, QuietExchange DEF Recv, server, Open
<1>4. CASE GiveUp
  BY <1>4, GiveUpExchange DEF EX!Next
<1>5. CASE HangUp
  BY <1>5, HangUpExchange DEF EX!Next
<1>6. CASE Connect
  BY <1>6, ConnectExchange DEF EX!Next
<1>7. CASE Event
  BY <1>7, QuietExchange DEF Event, client, Open
<1>8. CASE Read
  BY <1>8, QuietExchange DEF Read, client, Open
<1>9. CASE Drained
  BY <1>9, QuietExchange DEF Drained, client, Open
<1>10. CASE ReadEnd
  BY <1>10, CloseExchange DEF ReadEnd, client
<1>11. CASE Split
  BY <1>11, SplitExchange DEF EX!Next
<1>12. CASE WriteSome
  BY <1>12, QuietExchange DEF WriteSome, client, Open
<1>13. CASE WriteEnd
  BY <1>13, CloseExchange DEF WriteEnd, client
<1> QED
  BY <1>1, <1>2, <1>3, <1>4, <1>5, <1>6, <1>7, <1>8, <1>9, <1>10, <1>11, <1>12, <1>13
     DEF Next, Serve

\* A connection is the exchange of Exchange, but for its fairness, until the
\* server has once seen 1 to 3 bytes of a request behind a whole one: it executes
\* the requests sent, whole, once each and in order.
ExchangeStep == [EX!Next]_(EX!vars)

THEOREM ExchangeSteps ==
  ASSUME WellSent
  PROVE  Spec => EX!Init /\ [][count'.request = 0 => ExchangeStep]_vars
<1>1. Init => EX!Init
  BY InitExchange
<1> DEFINE I == CountInv /\ (count.request = 0 => FInv)
<1>2. I /\ [Next]_vars => [count'.request = 0 => ExchangeStep]_vars
  BY NextExchange, RequestsMonotone DEF ExchangeStep
<1>3. Spec => []I
  BY FInvariance
<1> HIDE DEF I
<1> QED
  BY <1>1, <1>2, <1>3, PTL DEF Spec

(***************************************************************************)
(* Answers                                                                 *)
(***************************************************************************)
\* The lists of the client name the fields the server writes, and the first
\* field of a request is its sid.
LEMMA AnswerListsMatch ==
  ASSUME NEW kind \in DOMAIN ClientEncodes, kind # "CLEAN_CACHE"
  PROVE  /\ Matches(ServerEncodes(kind), ClientDecodes(kind))
         /\ Len(ServerEncodes(kind)) <= 8
         /\ AnswerId(kind) \in Nat /\ AnswerId(kind) < HalfWord
         /\ kind = "GET_META" => AnswerId(kind) = MsgId["GET_META_ACK"]
         /\ kind # "GET_META" => /\ ServerEncodes(kind) = ack_encode
                                 /\ ClientDecodes(kind) = ack_decode
         /\ ServerDecodes[kind][1] = U32("sid") /\ 1 \in 1 .. Len(ServerDecodes[kind])
<1>1. Matches(ack_encode, ack_decode) /\ Len(ack_encode) <= 8
  BY BufferAssumption, SMT DEF Matches, Alike, U32, Str, Buf, ack_encode, ack_decode
<1>2. Matches(get_meta_ack_encode, get_meta_ack_decode) /\ Len(get_meta_ack_encode) <= 8
  BY BufferAssumption, SMT
     DEF Matches, Alike, U32, Str, Buf, get_meta_ack_encode, get_meta_ack_decode
<1>3. /\ kind # "GET_META" => ServerEncodes(kind) = ack_encode /\ ClientDecodes(kind) = ack_decode
      /\ kind = "GET_META" => /\ ServerEncodes(kind) = get_meta_ack_encode
                              /\ ClientDecodes(kind) = get_meta_ack_decode
  BY SMT DEF ServerEncodes, ClientDecodes, ClientEncodes
<1>4. /\ AnswerId(kind) \in Nat /\ AnswerId(kind) < HalfWord
      /\ kind = "GET_META" => AnswerId(kind) = MsgId["GET_META_ACK"]
  BY SMT DEF AnswerId, ClientEncodes, MsgId, HalfWord
<1>5. ServerDecodes[kind][1] = U32("sid") /\ 1 \in 1 .. Len(ServerDecodes[kind])
  BY SMT DEF ClientEncodes, ServerDecodes, add_meta_decode, update_meta_decode,
     add_life_cycle_decode, get_meta_decode, del_meta_decode, upload_file_decode, add_log_decode,
     check_upload_decode, user_flag_decode, replace_meta_decode
<1> QED
  BY <1>1, <1>2, <1>3, <1>4, <1>5

\* What the client reads answers into holds them, a packet holds two names of
\* files, and the library does not call CLEAN_CACHE, whose answer is empty.
AnswersFit ==
    /\ USERNAME_SIZE > 0 /\ MAX_INFO_SIZE > 0 /\ MAX_FILE_NAME < HalfWord
    /\ \A r \in Requests : r.kind # "CLEAN_CACHE"

\* No string of the message is longer than 65535 bytes.
Short(dec, msg) ==
    \A i \in 1 .. Len(dec) : dec[i].kind = "str" => Len(msg[dec[i].name]) < HalfWord

LEMMA ShortFields ==
  ASSUME NEW f, NEW g, Alike(f, g), NEW v, Fits(g, v), g.kind = "str" => Len(v) < HalfWord
  PROVE  Len(PutField(f, v)) \in Nat /\ Len(PutField(f, v)) < 4 + HalfWord
<1>1. CASE f.kind = "u16"
  <2>1. PutField(f, v) = Put2(v) /\ v \in Nat /\ v < HalfWord
    BY SMT, <1>1 DEF PutField, Alike, Fits
  <2>2. Len(Put2(v)) = 2
    BY <2>1, Digits2
  <2> QED
    BY <2>1, <2>2 DEF HalfWord
<1>2. CASE f.kind = "u32"
  <2>1. PutField(f, v) = Put4(v) /\ v \in Nat /\ v < Word
    BY SMT, <1>2 DEF PutField, Alike, Fits
  <2>2. Len(Put4(v)) = 4
    BY <2>1, Digits4
  <2> QED
    BY <2>1, <2>2 DEF HalfWord
<1>3. CASE f.kind = "str"
  <2>1. /\ PutField(f, v) = PutData(v) /\ v \in Seq(Byte) /\ Len(v) < Word /\ Len(v) < HalfWord
    BY SMT, <1>3 DEF PutField, Alike, Fits
  <2>2. Len(v) \in Nat
    BY <2>1, LenProperties
  <2>3. Put4(Len(v)) \in Seq(Byte) /\ Len(Put4(Len(v))) = 4
    BY <2>1, <2>2, Digits4
  <2> DEFINE h == Put4(Len(v))
             x == PutData(v)
  <2>4. x = h \o v /\ h \in Seq(Byte) /\ Len(h) = 4
    BY <2>3 DEF PutData
  <2> HIDE DEF h, x
  <2>5. Len(x) = Len(h) + Len(v)
    BY <2>1, <2>4, Joined
  <2>6. Len(x) \in Nat /\ Len(x) < 4 + HalfWord
    BY <2>1, <2>2, <2>4, <2>5 DEF HalfWord
  <2> QED
    BY <2>1, <2>6 DEF x
<1> QED
  BY <1>1, <1>2, <1>3 DEF Alike

LEMMA ShortMessage ==
  ASSUME NEW enc, NEW dec, Matches(enc, dec), NEW msg, Message(dec, msg), Short(dec, msg),
         Len(enc) <= 8
  PROVE  Len(Encode(enc, msg)) <= 8 * (4 + HalfWord)
<1> DEFINE N == Len(enc)
           w == Written(enc, msg)
           p(i) == PutField(enc[i], msg[enc[i].name])
           M == 4 + HalfWord
<1>0. N \in Nat /\ N <= 8 /\ M \in Nat
  BY DEF Matches, HalfWord
<1>1. \A i \in 1 .. N : p(i) \in Seq(Byte) /\ Len(p(i)) \in Nat /\ Len(p(i)) < M
  <2> SUFFICES ASSUME NEW i \in 1 .. N
               PROVE  p(i) \in Seq(Byte) /\ Len(p(i)) \in Nat /\ Len(p(i)) < M
    OBVIOUS
  <2>1. /\ Alike(enc[i], dec[i]) /\ enc[i].name = dec[i].name /\ Fits(dec[i], msg[enc[i].name])
        /\ dec[i].kind = "str" => Len(msg[enc[i].name]) < HalfWord
    BY DEF Alike, Matches, Message, Short
  <2> QED
    BY <2>1, ShortFields, FieldBytes
<1>2. /\ Encode(enc, msg) = w[N] /\ w[0] = <<>>
      /\ \A i \in 1 .. N : w[i] = w[i - 1] \o p(i)
  BY <1>0, WrittenSteps
<1>3. \A i \in 0 .. N : w[i] \in Seq(Byte)
  BY WrittenBytes
<1> HIDE DEF w, p, N, M
<1> DEFINE T == {i \in Nat : Len(w[i]) <= i * M}
<1>4. 0 \in T
  <2>1. Len(w[0]) = 0
    BY <1>2, EmptySeq
  <2> QED
    BY <1>0, <2>1
<1>5. \A i \in 0 .. N - 1 : i \in T => i + 1 \in T
  <2> SUFFICES ASSUME NEW i \in 0 .. N - 1, Len(w[i]) <= i * M
               PROVE  Len(w[i + 1]) <= (i + 1) * M
    BY <1>0
  <2> DEFINE j == i + 1
  <2>1. j \in 1 .. N /\ j - 1 = i /\ i \in 0 .. N /\ i \in Nat
    BY <1>0
  <2> HIDE DEF j
  <2>2. w[j] = w[i] \o p(j) /\ p(j) \in Seq(Byte) /\ w[i] \in Seq(Byte)
    BY <1>1, <1>2, <1>3, <2>1
  <2>3. Len(w[j]) = Len(w[i]) + Len(p(j)) /\ Len(w[i]) \in Nat /\ Len(p(j)) \in Nat
    BY <2>2, Joined
  <2>4. Len(p(j)) < M
    BY <1>1, <2>1
  <2> DEFINE a == Len(w[i])
             b == Len(p(j))
             c == i * M
  <2>5. c \in Nat /\ a \in Nat /\ b \in Nat /\ a <= c /\ b < M
    BY <1>0, <2>1, <2>3, <2>4
  <2> HIDE DEF a, b, c
  <2>6. a + b <= c + M
    BY <1>0, <2>5
  <2>7. (i + 1) * M = c + M
    BY <1>0, <2>1 DEF c
  <2> QED
    BY <2>3, <2>6, <2>7 DEF j, a, b
<1> HIDE DEF T
<1>6. N \in T
  <2>1. 0 .. N \subseteq T
    BY <1>0, <1>4, <1>5, AllUpTo
  <2> QED
    BY <1>0, <2>1
<1>7. Len(w[N]) <= N * M
  BY <1>6 DEF T
<1>8. N * M <= 8 * M
  BY <1>0
<1>9. Len(w[N]) \in Nat /\ N * M \in Nat /\ 8 * M \in Nat
  BY <1>0, <1>3, LenProperties
<1>10. Len(w[N]) <= 8 * M
  BY <1>7, <1>8, <1>9
<1> QED
  BY <1>2, <1>10 DEF M

LEMMA OneByte ==
  ASSUME NEW b \in Byte
  PROVE  <<b>> \in Seq(Byte) /\ Len(<<b>>) = 1
  OBVIOUS

LEMMA SidFits ==
  ASSUME NEW r, Sendable(r), r.kind # "CLEAN_CACHE"
  PROVE  r.msg.sid \in Nat /\ r.msg.sid < Word
<1>1. /\ ServerDecodes[r.kind][1] = U32("sid") /\ 1 \in 1 .. Len(ServerDecodes[r.kind])
      /\ \A i \in 1 .. Len(ServerDecodes[r.kind]) :
            Fits(ServerDecodes[r.kind][i], r.msg[ServerDecodes[r.kind][i].name])
  BY AnswerListsMatch DEF Sendable, Message
<1>2. Fits(U32("sid"), r.msg["sid"])
  <2>1. U32("sid").name = "sid"
    BY DEF U32
  <2> QED
    BY <1>1, <2>1
<1> QED
  BY <1>2 DEF Fits, U32

\* What the handlers say, the client's decoder can hold.
LEMMA AnswerMessage ==
  ASSUME NEW r \in Requests, Sendable(r), AnswersFit
  PROVE  /\ Message(ClientDecodes(r.kind), AnswerTo(r))
         /\ Short(ClientDecodes(r.kind), AnswerTo(r))
         /\ AnswerTo(r).sid = r.msg.sid
<1> DEFINE a == AnswerTo(r)
<1>1. r.kind \in DOMAIN ClientEncodes /\ r.kind # "CLEAN_CACHE"
  BY DEF Sendable, AnswersFit
<1>2. r.msg.sid \in Nat /\ r.msg.sid < Word
  BY <1>1, SidFits
<1>3. /\ <<0>> \in Seq(Byte) /\ Len(<<0>>) = 1 /\ <<>> \in Seq(Byte) /\ Len(<<>>) = 0
  BY OneByte, EmptySeq DEF Byte
<1>4. /\ USERNAME_SIZE \in Nat /\ USERNAME_SIZE >= 1 /\ MAX_INFO_SIZE \in Nat /\ MAX_INFO_SIZE >= 1
      /\ MAX_FILE_NAME \in Nat /\ MAX_FILE_NAME < HalfWord /\ CRPYT_CODE_SIZE \in Nat
  BY BufferAssumption DEF AnswersFit
<1>5. CASE r.kind = "GET_META"
  <2> DEFINE sid == r.msg.sid
             path == r.msg.path
             d == get_meta_ack_decode
  <2>1. path \in Seq(Byte) /\ Len(path) <= MAX_FILE_NAME
    <3>1. /\ ServerDecodes[r.kind] = get_meta_decode
          /\ \A i \in 1 .. Len(get_meta_decode) :
                Fits(get_meta_decode[i], r.msg[get_meta_decode[i].name])
      BY <1>5 DEF Sendable, Message, ServerDecodes
    <3>2. 2 \in 1 .. Len(get_meta_decode) /\ get_meta_decode[2] = Buf("path", MAX_FILE_NAME)
      BY SMT DEF get_meta_decode
    <3>3. Buf("path", MAX_FILE_NAME).name = "path"
      BY DEF Buf
    <3>4. Fits(Buf("path", MAX_FILE_NAME), r.msg["path"])
      BY <3>1, <3>2, <3>3
    <3> QED
      BY <3>4 DEF Fits, Buf
  <2>2. a = [sid |-> sid, result |-> 0, path |-> path, url |-> path,
             uploader |-> <<0>>, pwd |-> <<0>>, crpyt_key |-> <<>>, opened |-> 1]
    BY <1>5 DEF AnswerTo
  <2>3. ClientDecodes(r.kind) = d
    BY <1>5 DEF ClientDecodes
  <2>4. Len(path) \in Nat
    BY <2>1, LenProperties
  <2>5. sid \in Nat /\ sid < Word
    BY <1>2
  <2> HIDE DEF sid, path, a
  <2>6. /\ d[1] = U32("sid") /\ d[2] = U32("result") /\ d[3] = Buf("path", MAX_FILE_NAME)
        /\ d[4] = Buf("url", MAX_FILE_NAME) /\ d[5] = Buf("uploader", USERNAME_SIZE)
        /\ d[6] = Buf("pwd", USERNAME_SIZE) /\ d[7] = Buf("crpyt_key", CRPYT_CODE_SIZE)
        /\ d[8] = U32("opened") /\ Len(d) = 8
    BY SMT DEF get_meta_ack_decode
  <2>7. /\ DOMAIN a = {"sid", "result", "path", "url", "uploader", "pwd", "crpyt_key", "opened"}
        /\ a.sid = sid /\ a.result = 0 /\ a.path = path /\ a.url = path /\ a.uploader = <<0>>
        /\ a.pwd = <<0>> /\ a.crpyt_key = <<>> /\ a.opened = 1
        /\ a = [x \in DOMAIN a |-> a[x]]
    BY <2>2
  <2> HIDE DEF d
  <2>8. {d[i].name : i \in 1 .. Len(d)} =
           {"sid", "result", "path", "url", "uploader", "pwd", "crpyt_key", "opened"}
    BY <2>6 DEF U32, Buf
  <2>9. \A i \in 1 .. Len(d) : /\ Fits(d[i], a[d[i].name])
                               /\ d[i].kind = "str" => Len(a[d[i].name]) < HalfWord
    <3>1. \A i \in 1 .. 8 : i = 1 \/ i = 2 \/ i = 3 \/ i = 4 \/ i = 5 \/ i = 6 \/ i = 7 \/ i = 8
      OBVIOUS
    <3>2. Fits(U32("sid"), a.sid) /\ Fits(U32("result"), a.result) /\ Fits(U32("opened"), a.opened)
      BY <2>5, <2>7 DEF Fits, U32, Word
    <3>3. Fits(Buf("path", MAX_FILE_NAME), path) /\ Fits(Buf("url", MAX_FILE_NAME), path)
      BY <1>4, <2>1, <2>4 DEF Fits, Buf, Word, HalfWord
    <3>4. Fits(Buf("uploader", USERNAME_SIZE), <<0>>) /\ Fits(Buf("pwd", USERNAME_SIZE), <<0>>)
      BY <1>3, <1>4 DEF Fits, Buf, Word
    <3>5. Fits(Buf("crpyt_key", CRPYT_CODE_SIZE), <<>>)
      BY <1>3, <1>4 DEF Fits, Buf, Word
    <3>6. Len(path) < HalfWord /\ Len(<<0>>) < HalfWord /\ Len(<<>>) < HalfWord
      BY <1>3, <1>4, <2>1, <2>4 DEF HalfWord
    <3>7. /\ \A n : U32(n).name = n /\ U32(n).kind = "u32"
          /\ \A n, m : Buf(n, m).name = n /\ Buf(n, m).kind = "str"
      BY DEF U32, Buf
    <3> SUFFICES ASSUME NEW i \in 1 .. 8
                 PROVE  /\ Fits(d[i], a[d[i].name])
                        /\ d[i].kind = "str" => Len(a[d[i].name]) < HalfWord
      BY <2>6
    <3>8. CASE i \in {1, 2, 8}
      BY <2>6, <2>7, <3>2, <3>7, <3>8
    <3>9. CASE i \in {3, 4}
      BY <2>6, <2>7, <3>3, <3>6, <3>7, <3>9
    <3>10. CASE i \in {5, 6}
      <4>1. d[i].kind = "str" /\ a[d[i].name] = <<0>>
        BY <2>6, <2>7, <3>7, <3>10
      <4>2. Fits(d[i], <<0>>)
        BY <2>6, <3>4, <3>10
      <4> QED
        BY <3>6, <4>1, <4>2
    <3>11. CASE i = 7
      BY <2>6, <2>7, <3>5, <3>6, <3>7, <3>11
    <3> QED
      BY <3>1, <3>8, <3>9, <3>10, <3>11
  <2>10. a = [x \in {d[i].name : i \in 1 .. Len(d)} |-> a[x]]
    BY <2>7, <2>8
  <2>11. Message(d, a) /\ Short(d, a)
    BY <2>9, <2>10 DEF Message, Short
  <2> QED
    BY <2>3, <2>7, <2>11 DEF a, sid
<1>6. CASE r.kind # "GET_META"
  <2> DEFINE sid == r.msg.sid
             d == ack_decode
  <2>1. a = [sid |-> sid, result |-> 0, err |-> <<0>>]
    BY <1>1, <1>6, SMT DEF AnswerTo, ClientEncodes
  <2>2. ClientDecodes(r.kind) = d
    BY <1>6 DEF ClientDecodes
  <2>3. sid \in Nat /\ sid < Word
    BY <1>2
  <2> HIDE DEF sid, a
  <2>4. /\ d[1] = U32("sid") /\ d[2] = U32("result") /\ d[3] = Buf("err", MAX_INFO_SIZE)
        /\ Len(d) = 3
    BY SMT DEF ack_decode
  <2>5. /\ DOMAIN a = {"sid", "result", "err"}
        /\ a.sid = sid /\ a.result = 0 /\ a.err = <<0>>
        /\ a = [x \in DOMAIN a |-> a[x]]
    BY <2>1
  <2> HIDE DEF d
  <2>6. {d[i].name : i \in 1 .. Len(d)} = {"sid", "result", "err"}
    BY <2>4 DEF U32, Buf
  <2>7. \A i \in 1 .. Len(d) : /\ Fits(d[i], a[d[i].name])
                               /\ d[i].kind = "str" => Len(a[d[i].name]) < HalfWord
    <3>1. \A i \in 1 .. 3 : i = 1 \/ i = 2 \/ i = 3
      OBVIOUS
    <3>2. Fits(U32("sid"), a.sid) /\ Fits(U32("result"), a.result)
      BY <2>3, <2>5 DEF Fits, U32, Word
    <3>3. Fits(Buf("err", MAX_INFO_SIZE), <<0>>) /\ Len(<<0>>) < HalfWord
      BY <1>3, <1>4 DEF Fits, Buf, Word, HalfWord
    <3>4. /\ \A n : U32(n).name = n /\ U32(n).kind = "u32"
          /\ \A n, m : Buf(n, m).name = n /\ Buf(n, m).kind = "str"
      BY DEF U32, Buf
    <3> SUFFICES ASSUME NEW i \in 1 .. 3
                 PROVE  /\ Fits(d[i], a[d[i].name])
                        /\ d[i].kind = "str" => Len(a[d[i].name]) < HalfWord
      BY <2>4
    <3>5. CASE i = 1
      BY <2>4, <2>5, <3>2, <3>4, <3>5
    <3>6. CASE i = 2
      BY <2>4, <2>5, <3>2, <3>4, <3>6
    <3>7. CASE i = 3
      <4>1. d[i] = Buf("err", MAX_INFO_SIZE) /\ d[i].name = "err" /\ a[d[i].name] = <<0>>
        BY <2>4, <2>5, <3>4, <3>7
      <4> QED
        BY <3>3, <4>1
    <3> QED
      BY <3>1, <3>5, <3>6, <3>7
  <2>8. a = [x \in {d[i].name : i \in 1 .. Len(d)} |-> a[x]]
    BY <2>5, <2>6
  <2>9. Message(d, a) /\ Short(d, a)
    BY <2>7, <2>8 DEF Message, Short
  <2> QED
    BY <2>2, <2>5, <2>9 DEF a, sid
<1> QED
  BY <1>5, <1>6

LEMMA AnswerPackable ==
  ASSUME NEW r \in Requests, Sendable(r), AnswersFit
  PROVE  /\ Packable(AnswerId(r.kind), ServerEncodes(r.kind), ClientDecodes(r.kind), AnswerTo(r))
         /\ AnswerBytes(r) = Packet(AnswerId(r.kind), ServerEncodes(r.kind), AnswerTo(r))
<1> DEFINE id == AnswerId(r.kind)
           enc == ServerEncodes(r.kind)
           dec == ClientDecodes(r.kind)
           msg == AnswerTo(r)
           e == Encode(enc, msg)
<1>1. r.kind \in DOMAIN ClientEncodes /\ r.kind # "CLEAN_CACHE"
  BY DEF Sendable, AnswersFit
<1>2. Matches(enc, dec) /\ Len(enc) <= 8 /\ id \in Nat /\ id < HalfWord
  BY <1>1, AnswerListsMatch
<1>3. Message(dec, msg) /\ Short(dec, msg)
  BY AnswerMessage
<1>4. AnswerBytes(r) = Packet(id, enc, msg)
  BY DEF AnswerBytes
<1> HIDE DEF id, enc, dec, msg
<1>5. e \in Seq(Byte) /\ Len(e) <= 8 * (4 + HalfWord)
  BY <1>2, <1>3, ShortMessage, WrittenBytes
<1>6. Put2(id) \in Seq(Byte) /\ Len(Put2(id)) = 2
  BY <1>2, Digits2
<1> DEFINE b == Inner(id, enc, msg)
<1>7. b = Put2(id) \o e
  BY DEF Inner
<1> HIDE DEF b, e
<1>8. Len(b) = 2 + Len(e) /\ Len(e) \in Nat
  BY <1>5, <1>6, <1>7, Joined
<1>9. Len(b) < Word
  BY <1>5, <1>8 DEF Word, HalfWord
<1>10. Packable(id, enc, dec, msg)
  BY <1>2, <1>3, <1>9 DEF Packable, b
<1> QED
  BY <1>4, <1>10 DEF id, enc, dec, msg

(***************************************************************************)
(* What is said                                                            *)
(***************************************************************************)
\* What is to read in s are the bytes of b behind the first k.
Continues(b, s, k) ==
    /\ Good(s) /\ b \in Seq(Byte) /\ k \in Nat /\ k + Left(s) = Len(b)
    /\ \A q \in 1 .. Left(s) : s.data[s.rsize + q] = b[k + q]

LEMMA KeepsContinues ==
  ASSUME NEW b, NEW s, NEW k, Continues(b, s, k), NEW z, Keeps(s, z)
  PROVE  Continues(b, z, k)
  BY DEF Continues, Keeps

\* Nothing more is to come.
LEMMA NothingContinues ==
  ASSUME NEW b \in Seq(Byte), NEW s, Good(s), Left(s) = 0
  PROVE  Continues(b, s, Len(b))
<1>1. Len(b) \in Nat
  BY LenProperties
<1> QED
  BY <1>1 DEF Continues

\* bin_stream_write: what is written comes behind what is there.
LEMMA WriteContinues ==
  ASSUME NEW b, NEW s, NEW k, Continues(b, s, k), NEW c \in Seq(Byte)
  PROVE  Continues(b \o c, Write(s, c), k)
<1> DEFINE n == Used(s) + Len(c)
           y == Resize(s, n)
           z == Write(s, c)
           x == b \o c
<1>1. Good(s) /\ b \in Seq(Byte) /\ k \in Nat
  BY DEF Continues
<1>2. /\ Len(c) \in Nat /\ Len(b) \in Nat /\ n \in Nat
  BY <1>1, GoodFields, LenProperties
<1>3. Keeps(s, y)
  BY <1>1, <1>2, ResizeKeeps
<1>4. z = [y EXCEPT !.data = @ \o c]
  BY DEF Write
<1> HIDE DEF y, z
<1>5. Continues(b, y, k)
  BY <1>3, KeepsContinues
<1>6. Good(y) /\ k + Left(y) = Len(b) /\ \A q \in 1 .. Left(y) : y.data[y.rsize + q] = b[k + q]
  BY <1>5 DEF Continues
<1> DEFINE d == y.data
           r == y.rsize
           L == Left(y)
           e == z.data
<1>7. /\ y \in Stream /\ d \in Seq(Byte) /\ r \in Nat /\ L \in Nat /\ Len(d) = r + L
  BY <1>6, GoodFields DEF Used
<1>8. /\ d \o c \in Seq(Byte) /\ Len(d \o c) = Len(d) + Len(c)
      /\ \A i \in 1 .. Len(d) + Len(c) : (d \o c)[i] = IF i <= Len(d) THEN d[i] ELSE c[i - Len(d)]
  BY <1>7, ConcatProperties
<1>9. /\ x \in Seq(Byte) /\ Len(x) = Len(b) + Len(c)
      /\ \A i \in 1 .. Len(b) + Len(c) : x[i] = IF i <= Len(b) THEN b[i] ELSE c[i - Len(b)]
  BY <1>1, ConcatProperties
<1>10. z \in Stream /\ e = d \o c /\ z.rsize = r
  BY <1>4, <1>7, <1>8 DEF Stream
<1> HIDE DEF e, x
<1>11. Used(z) = (r + L) + Len(c) /\ Left(z) = L + Len(c)
  BY <1>2, <1>7, <1>8, <1>10 DEF Used, Left, e
<1>12. Good(z)
  BY <1>2, <1>7, <1>10, <1>11 DEF Good
<1>13. k + L = Len(b) /\ k + Left(z) = Len(x)
  <2>1. k + L = Len(b)
    BY <1>6
  <2>2. Left(z) = L + Len(c) /\ Len(x) = Len(b) + Len(c)
    BY <1>9, <1>11
  <2> HIDE DEF L
  <2>3. k + (L + Len(c)) = (k + L) + Len(c)
    BY <1>1, <1>2, <1>7
  <2> QED
    BY <2>1, <2>2, <2>3
<1>14. \A q \in 1 .. L : d[r + q] = b[k + q]
  BY <1>6
<1> DEFINE lc == Len(c)
           lb == Len(b)
           ld == Len(d)
<1>15. lc \in Nat /\ lb = k + L /\ ld = r + L
  BY <1>2, <1>7, <1>13
<1>16. \A i \in 1 .. ld + lc : e[i] = IF i <= ld THEN d[i] ELSE c[i - ld]
  BY <1>8, <1>10
<1>17. \A i \in 1 .. lb + lc : x[i] = IF i <= lb THEN b[i] ELSE c[i - lb]
  BY <1>9
<1> HIDE DEF d, r, L, lc, lb, ld
<1>18. ASSUME NEW q \in 1 .. L + lc
       PROVE  e[r + q] = x[k + q]
  <2>0. q \in Nat /\ q >= 1 /\ q <= L + lc /\ r \in Nat /\ L \in Nat
    BY <1>7, <1>15
  <2>1. r + q \in 1 .. ld + lc /\ k + q \in 1 .. lb + lc
    BY <1>1, <1>15, <2>0
  <2>2. CASE q <= L
    <3>1. r + q <= ld /\ k + q <= lb /\ q \in 1 .. L
      BY <1>1, <1>15, <2>0, <2>2
    <3>2. e[r + q] = d[r + q] /\ x[k + q] = b[k + q]
      BY <1>16, <1>17, <2>1, <3>1
    <3> QED
      BY <1>14, <3>1, <3>2
  <2>3. CASE q > L
    <3>1. ~ (r + q <= ld) /\ ~ (k + q <= lb) /\ (r + q) - ld = q - L /\ (k + q) - lb = q - L
      BY <1>1, <1>15, <2>0, <2>3
    <3>2. e[r + q] = c[q - L] /\ x[k + q] = c[q - L]
      BY <1>16, <1>17, <2>1, <3>1
    <3> QED
      BY <3>2
  <2> QED
    BY <2>0, <2>2, <2>3
<1>19. \A q \in 1 .. Left(z) : z.data[z.rsize + q] = x[k + q]
  BY <1>10, <1>11, <1>18 DEF e, r, L, lc
<1>20. Continues(x, z, k)
  BY <1>1, <1>9, <1>12, <1>13, <1>19 DEF Continues
<1> QED
  BY <1>20 DEF x, z

\* Some of it is taken: it is what comes next, and the rest continues.
LEMMA AdvanceContinues ==
  ASSUME NEW b, NEW s, NEW k, Continues(b, s, k), NEW n \in 0 .. Left(s)
  PROVE  /\ Continues(b, Advance(s, n), k + n)
         /\ At(s, s.rsize, n) \in Seq(Byte) /\ Len(At(s, s.rsize, n)) = n
         /\ \A q \in 1 .. n : At(s, s.rsize, n)[q] = b[k + q]
<1> DEFINE d == s.data
           r == s.rsize
           L == Left(s)
           z == Advance(s, n)
           x == At(s, r, n)
<1>1. /\ Good(s) /\ b \in Seq(Byte) /\ k \in Nat /\ k + L = Len(b)
      /\ \A q \in 1 .. L : d[r + q] = b[k + q]
  BY DEF Continues
<1>2. /\ s \in Stream /\ d \in Seq(Byte) /\ r \in Nat /\ L \in Nat /\ Len(d) = r + L
  BY <1>1, GoodFields DEF Used
<1>3. n \in Nat /\ n <= L
  BY <1>2
<1>4. z \in Stream /\ z.data = d /\ z.rsize = r + n
  BY <1>2, <1>3, AdvanceTwice
<1> HIDE DEF z
<1>5. Used(z) = r + L /\ Left(z) = L - n
  BY <1>2, <1>3, <1>4 DEF Used, Left
<1>6. Good(z)
  BY <1>2, <1>3, <1>4, <1>5 DEF Good
<1>7. x = SubSeq(d, r + 1, r + n)
  BY DEF At
<1> HIDE DEF d, r, L, x
<1>8. x \in Seq(Byte) /\ Len(x) = n /\ \A q \in 1 .. n : x[q] = d[r + q]
  <2> DEFINE m == r + 1
             u == r + n
  <2>1. m \in Nat /\ u \in Nat /\ 1 <= m /\ m <= u + 1 /\ u <= Len(d)
    BY <1>2, <1>3
  <2>2. x = SubSeq(d, m, u)
    BY <1>7
  <2>3. (u - m) + 1 = n /\ m - 1 = r
    BY <1>2, <1>3
  <2> HIDE DEF m, u
  <2>4. /\ x \in Seq(Byte) /\ Len(x) = (u - m) + 1
        /\ \A q \in 1 .. (u - m) + 1 : x[q] = d[(m - 1) + q]
    BY <1>2, <2>1, <2>2, PartOf
  <2> QED
    BY <2>3, <2>4
<1>9. \A q \in 1 .. n : x[q] = b[k + q]
  <2>1. \A q \in 1 .. n : q \in 1 .. L
    BY <1>2, <1>3
  <2> QED
    BY <1>1, <1>8, <2>1
<1>10. \A q \in 1 .. L - n : d[(r + n) + q] = b[(k + n) + q]
  <2> SUFFICES ASSUME NEW q \in 1 .. L - n
               PROVE  d[(r + n) + q] = b[(k + n) + q]
    OBVIOUS
  <2>1. n + q \in 1 .. L /\ r + (n + q) = (r + n) + q /\ k + (n + q) = (k + n) + q
    BY <1>1, <1>2, <1>3
  <2> QED
    BY <1>1, <2>1
<1>11. (k + n) + (L - n) = Len(b) /\ k + n \in Nat
  BY <1>1, <1>2, <1>3
<1>12. Continues(b, z, k + n)
  BY <1>1, <1>4, <1>5, <1>6, <1>10, <1>11 DEF Continues
<1> QED
  BY <1>8, <1>9, <1>12 DEF x, z, r

LEMMA UnreadIs ==
  ASSUME NEW b, NEW s, NEW k, Continues(b, s, k)
  PROVE  Unread(s) = SubSeq(b, k + 1, Len(b))
<1> DEFINE d == s.data
           r == s.rsize
           L == Left(s)
           x == Unread(s)
           y == SubSeq(b, k + 1, Len(b))
<1>1. /\ Good(s) /\ b \in Seq(Byte) /\ k \in Nat /\ k + L = Len(b)
      /\ \A q \in 1 .. L : d[r + q] = b[k + q]
  BY DEF Continues
<1>2. d \in Seq(Byte) /\ r \in Nat /\ L \in Nat /\ Len(d) = r + L /\ Used(s) = r + L
  BY <1>1, GoodFields DEF Used
<1>3. x = SubSeq(d, r + 1, r + L)
  BY <1>2 DEF Unread
<1>4. y = SubSeq(b, k + 1, k + L)
  BY <1>1
<1> HIDE DEF d, r, L, x, y
<1>5. x \in Seq(Byte) /\ Len(x) = L /\ \A q \in 1 .. L : x[q] = d[r + q]
  <2>1. r + 1 \in Nat /\ r + L \in Nat /\ 1 <= r + 1 /\ r + 1 <= (r + L) + 1 /\ r + L <= Len(d)
    BY <1>2
  <2>2. /\ x \in Seq(Byte) /\ Len(x) = ((r + L) - (r + 1)) + 1
        /\ \A q \in 1 .. ((r + L) - (r + 1)) + 1 : x[q] = d[((r + 1) - 1) + q]
    BY <1>2, <1>3, <2>1, PartOf
  <2>3. ((r + L) - (r + 1)) + 1 = L /\ (r + 1) - 1 = r
    BY <1>2
  <2> QED
    BY <2>2, <2>3
<1>6. y \in Seq(Byte) /\ Len(y) = L /\ \A q \in 1 .. L : y[q] = b[k + q]
  <2>1. k + 1 \in Nat /\ k + L \in Nat /\ 1 <= k + 1 /\ k + 1 <= (k + L) + 1 /\ k + L <= Len(b)
    BY <1>1, <1>2
  <2>2. /\ y \in Seq(Byte) /\ Len(y) = ((k + L) - (k + 1)) + 1
        /\ \A q \in 1 .. ((k + L) - (k + 1)) + 1 : y[q] = b[((k + 1) - 1) + q]
    BY <1>1, <1>4, <2>1, PartOf
  <2>3. ((k + L) - (k + 1)) + 1 = L /\ (k + 1) - 1 = k
    BY <1>1, <1>2
  <2> QED
    BY <2>2, <2>3
<1>7. \A q \in 1 .. L : x[q] = y[q]
  BY <1>1, <1>5, <1>6
<1>8. x = y
  BY <1>5, <1>6, <1>7, SeqEqual
<1> QED
  BY <1>8 DEF x, y

\* f[i] are the bytes of the answers to the first i requests of h.
Answers(h) ==
    CHOOSE f : f = [i \in 0 .. Len(h) |->
                      IF i = 0 THEN <<>> ELSE f[i - 1] \o AnswerBytes(h[i])]

LEMMA AnswersSteps ==
  ASSUME NEW h, Len(h) \in Nat
  PROVE  /\ Answers(h)[0] = <<>>
         /\ \A i \in 1 .. Len(h) : Answers(h)[i] = Answers(h)[i - 1] \o AnswerBytes(h[i])
<1> DEFINE N == Len(h)
           g == [i \in 1 .. N |-> AnswerBytes(h[i])]
           w == Answers(h)
           IsW(f) == f = [i \in 0 .. N |-> IF i = 0 THEN <<>> ELSE f[i - 1] \o AnswerBytes(h[i])]
<1>1. \A i \in 1 .. N : g[i] = AnswerBytes(h[i])
  OBVIOUS
<1>2. \E f : IsW(f)
  <2>1. PICK f : Pieces(f, g, N)
    BY PiecesExist
  <2>2. f = [i \in 0 .. N |-> IF i = 0 THEN <<>> ELSE f[i - 1] \o g[i]]
    BY <2>1 DEF Pieces
  <2> HIDE DEF g
  <2>3. \A i \in 0 .. N : i = 0 \/ i \in 1 .. N
    OBVIOUS
  <2>4. f = [i \in 0 .. N |-> IF i = 0 THEN <<>> ELSE f[i - 1] \o AnswerBytes(h[i])]
    BY <1>1, <2>2, <2>3
  <2> QED
    BY <2>4
<1>3. IsW(w)
  <2>1. w = CHOOSE f : IsW(f)
    BY Zenon DEF Answers
  <2> HIDE DEF IsW, w
  <2> QED
    BY <1>2, <2>1
<1> HIDE DEF w
<1>4. w[0] = <<>>
  BY <1>3
<1>5. \A i \in 1 .. N : w[i] = w[i - 1] \o AnswerBytes(h[i])
  <2>1. \A i \in 1 .. N : i \in 0 .. N /\ i # 0
    OBVIOUS
  <2> QED
    BY <1>3, <2>1
<1> QED
  BY <1>4, <1>5 DEF w

LEMMA SaidIs ==
  Said = Answers(handled)[Len(handled)]
  BY Zenon DEF Said, Answers

LEMMA SaidNothing ==
  ASSUME handled = <<>>
  PROVE  Said = <<>>
<1>1. Len(handled) = 0
  BY EmptySeq
<1> QED
  BY <1>1, SaidIs, AnswersSteps

\* One more answer is said behind the others.
LEMMA SaidMore ==
  ASSUME handled \in Seq(Requests), NEW r \in Requests, handled' = Append(handled, r)
  PROVE  Said' = Said \o AnswerBytes(r)
<1> DEFINE h == handled
           k == handled'
           N == Len(h)
           f == Answers(h)
           g == Answers(k)
<1>1. /\ N \in Nat /\ Len(k) = N + 1 /\ k[N + 1] = r
      /\ \A i \in 1 .. N : k[i] = h[i]
  BY AppendProperties, LenProperties
<1>2. Said = f[N] /\ Said' = g[Len(k)]
  <2>1. Said = Answers(handled)[Len(handled)]
    BY SaidIs
  <2>2. Said' = Answers(handled')[Len(handled')]
    BY Zenon DEF Said, Answers
  <2> QED
    BY <2>1, <2>2
<1> HIDE DEF h, k
<1>3. f[0] = <<>> /\ \A i \in 1 .. N : f[i] = f[i - 1] \o AnswerBytes(h[i])
  BY <1>1, AnswersSteps
<1>4. Len(k) \in Nat
  BY <1>1
<1>5. g[0] = <<>> /\ \A i \in 1 .. Len(k) : g[i] = g[i - 1] \o AnswerBytes(k[i])
  BY <1>4, AnswersSteps
<1> HIDE DEF f, g, N
<1>6. f[N] = g[N]
  <2> DEFINE T == {i \in Nat : f[i] = g[i]}
  <2>1. 0 \in T
    BY <1>3, <1>5
  <2>2. \A i \in 0 .. N - 1 : i \in T => i + 1 \in T
    <3> SUFFICES ASSUME NEW i \in 0 .. N - 1, f[i] = g[i]
                 PROVE  f[i + 1] = g[i + 1]
      BY <1>1
    <3> DEFINE j == i + 1
    <3>1. j \in 1 .. N /\ j \in 1 .. Len(k) /\ j - 1 = i
      BY <1>1
    <3> HIDE DEF j
    <3>2. f[j] = f[i] \o AnswerBytes(h[j]) /\ g[j] = g[i] \o AnswerBytes(k[j]) /\ h[j] = k[j]
      BY <1>1, <1>3, <1>5, <3>1
    <3> QED
      BY <3>2 DEF j
  <2> HIDE DEF T
  <2>3. 0 .. N \subseteq T
    BY <2>1, <2>2, AllUpTo, <1>1
  <2> QED
    BY <1>1, <2>3 DEF T
<1>7. N + 1 \in 1 .. Len(k) /\ (N + 1) - 1 = N
  BY <1>1
<1>8. g[N + 1] = g[N] \o AnswerBytes(r)
  BY <1>1, <1>5, <1>7
<1> QED
  BY <1>1, <1>2, <1>6, <1>8

\* What has come of b is in the stream s and, behind it, in t.
Arrives(b, s, t) ==
    /\ Good(s) /\ s.rsize = 0 /\ t \in Seq(Byte) /\ b \in Seq(Byte)
    /\ Left(s) + Len(t) <= Len(b)
    /\ \A p \in 1 .. Left(s) + Len(t) : Coming(s, t, p) = b[p]

\* recv_packet: bytes go from the connection to the stream.
LEMMA TakeArrives ==
  ASSUME NEW b, NEW s, NEW t, Arrives(b, s, t), NEW n, NEW z, NEW y, Takes(s, t, n, z, y)
  PROVE  Arrives(b, z, y) /\ Left(z) + Len(y) = Left(s) + Len(t)
<1>1. /\ Good(s) /\ s.rsize = 0 /\ t \in Seq(Byte) /\ b \in Seq(Byte)
      /\ Left(s) + Len(t) <= Len(b)
      /\ \A p \in 1 .. Left(s) + Len(t) : Coming(s, t, p) = b[p]
  BY DEF Arrives
<1>2. /\ Good(z) /\ y \in Seq(Byte) /\ Left(z) + Len(y) = Left(s) + Len(t)
      /\ \A p \in 1 .. Left(s) + Len(t) : Coming(z, y, p) = Coming(s, t, p)
  BY <1>1, ReadComing
<1>3. z.rsize = 0
  <2>1. z = [s EXCEPT !.data = @ \o SubSeq(t, 1, n)] /\ s \in Stream
    BY <1>1, GoodFields DEF Takes
  <2> DEFINE x == s.data \o SubSeq(t, 1, n)
  <2>2. z = [s EXCEPT !.data = x]
    BY <2>1
  <2> HIDE DEF x
  <2> QED
    BY <1>1, <2>1, <2>2 DEF Stream
<1> QED
  BY <1>1, <1>2, <1>3 DEF Arrives

LEMMA KeepsArrives ==
  ASSUME NEW b, NEW s, NEW t, Arrives(b, s, t), NEW z, Keeps(s, z), z.rsize = 0
  PROVE  Arrives(b, z, t)
<1>1. /\ Good(s) /\ t \in Seq(Byte) /\ b \in Seq(Byte)
      /\ Left(s) + Len(t) <= Len(b)
      /\ \A p \in 1 .. Left(s) + Len(t) : Coming(s, t, p) = b[p]
  BY DEF Arrives
<1>2. Good(z) /\ Left(z) = Left(s)
  BY DEF Keeps
<1>3. \A p \in Nat \ {0} : Coming(z, t, p) = Coming(s, t, p)
  BY <1>1, KeepsComing
<1>4. Left(s) + Len(t) \in Nat
  BY <1>1, GoodFields, LenProperties
<1>5. \A p \in 1 .. Left(z) + Len(t) : Coming(z, t, p) = b[p]
  BY <1>1, <1>2, <1>3, <1>4
<1> QED
  BY <1>1, <1>2, <1>5 DEF Arrives

\* handler_on_write: what was to be said next is under way.
LEMMA PassArrives ==
  ASSUME NEW b, NEW s, NEW t, Arrives(b, s, t), NEW u, Continues(b, u, Left(s) + Len(t)),
         NEW n \in 0 .. Left(u)
  PROVE  /\ Arrives(b, s, t \o At(u, u.rsize, n))
         /\ Len(t \o At(u, u.rsize, n)) = Len(t) + n
<1> DEFINE y == t \o At(u, u.rsize, n)
           L == Left(s)
           lt == Len(t)
           x == At(u, u.rsize, n)
           lb == Len(b)
           lu == Left(u)
<1>1. /\ Good(s) /\ s.rsize = 0 /\ t \in Seq(Byte) /\ b \in Seq(Byte) /\ L + lt <= lb
      /\ \A p \in 1 .. L + lt : Coming(s, t, p) = b[p]
  BY DEF Arrives
<1>2. /\ x \in Seq(Byte) /\ Len(x) = n /\ \A q \in 1 .. n : x[q] = b[(L + lt) + q]
  BY AdvanceContinues
<1>3. Good(u) /\ (L + lt) + lu = lb
  BY DEF Continues
<1>4. L \in Nat /\ lt \in Nat /\ lu \in Nat /\ n \in Nat /\ n <= lu
  BY <1>1, <1>3, GoodFields, LenProperties
<1> HIDE DEF x
<1>5. /\ t \o x \in Seq(Byte) /\ Len(t \o x) = Len(t) + Len(x)
      /\ \A i \in 1 .. Len(t) + Len(x) : (t \o x)[i] = IF i <= Len(t) THEN t[i] ELSE x[i - Len(t)]
  <2> HIDE DEF L, lt, lb, lu
  <2> QED
    BY <1>1, <1>2, ConcatProperties
<1>6. y = t \o x
  BY DEF x
<1> HIDE DEF y
<1>7. \A i \in 1 .. lt + n : y[i] = IF i <= lt THEN t[i] ELSE x[i - lt]
  BY <1>2, <1>5, <1>6
<1>8. y \in Seq(Byte) /\ Len(y) = lt + n
  BY <1>2, <1>5, <1>6
<1>9. \A p : Coming(s, t, p) = IF p <= L THEN s.data[s.rsize + p] ELSE t[p - L]
  BY DEF Coming
<1>10. \A p : Coming(s, y, p) = IF p <= L THEN s.data[s.rsize + p] ELSE y[p - L]
  BY DEF Coming
<1> HIDE DEF L, lt, lb, lu
<1>11. ASSUME NEW p \in 1 .. L + (lt + n)
       PROVE  Coming(s, y, p) = b[p]
  <2>1. CASE p <= L
    <3>1. p \in 1 .. L + lt
      BY <1>4, <2>1
    <3> QED
      BY <1>1, <1>9, <1>10, <2>1, <3>1
  <2>2. CASE p > L /\ p <= L + lt
    <3>1. p \in 1 .. L + lt /\ ~ (p <= L) /\ p - L \in 1 .. lt + n /\ p - L <= lt
      BY <1>4, <2>2
    <3>2. y[p - L] = t[p - L]
      BY <1>7, <3>1
    <3> QED
      BY <1>1, <1>9, <1>10, <3>1, <3>2
  <2>3. CASE p > L + lt
    <3>1. /\ ~ (p <= L) /\ p - L \in 1 .. lt + n /\ ~ (p - L <= lt)
          /\ (p - L) - lt \in 1 .. n /\ (L + lt) + ((p - L) - lt) = p
      BY <1>4, <2>3
    <3>2. y[p - L] = x[(p - L) - lt]
      BY <1>7, <3>1
    <3>3. x[(p - L) - lt] = b[p]
      BY <1>2, <3>1
    <3> QED
      BY <1>10, <3>1, <3>2, <3>3
  <2> QED
    BY <1>4, <2>1, <2>2, <2>3
<1>12. L + (lt + n) <= lb
  BY <1>3, <1>4
<1>13. Arrives(b, s, y)
  BY <1>1, <1>8, <1>11, <1>12 DEF Arrives, L, lb
<1> QED
  BY <1>8, <1>13 DEF lt, y

LEMMA ArrivedAhead ==
  ASSUME NEW b, NEW s, NEW t, Arrives(b, s, t), NEW h \in Seq(Byte), Len(h) <= Left(s),
         Len(h) <= Len(b), \A p \in 1 .. Len(h) : h[p] = b[p]
  PROVE  Ahead(s, h)
<1> DEFINE L == Left(s)
           d == s.data
           r == s.rsize
<1>1. /\ Good(s) /\ t \in Seq(Byte)
      /\ \A p \in 1 .. L + Len(t) : Coming(s, t, p) = b[p]
  BY DEF Arrives
<1>2. L \in Nat /\ Len(t) \in Nat /\ Len(h) \in Nat /\ r \in Nat /\ Used(s) = r + L
  BY <1>1, GoodFields, LenProperties
<1>3. \A p : Coming(s, t, p) = IF p <= L THEN d[r + p] ELSE t[p - L]
  BY DEF Coming
<1>4. Len(h) <= L
  OBVIOUS
<1> HIDE DEF L, d, r
<1>5. \A p \in 1 .. Len(h) : p \in 1 .. L + Len(t) /\ p <= L
  BY <1>2, <1>4
<1>6. \A p \in 1 .. Len(h) : d[r + p] = h[p]
  BY <1>1, <1>3, <1>5
<1>7. r + Len(h) <= Used(s)
  BY <1>2, <1>4
<1> QED
  BY <1>1, <1>6, <1>7 DEF Ahead, d, r

\* The head of an answer tells its length; when all of it has come, nothing else
\* has, and it is accepted as what the server said.
LEMMA AnswerCome ==
  ASSUME NEW r \in Requests, Sendable(r), AnswersFit,
         NEW s, NEW t, Arrives(AnswerBytes(r), s, t), Left(s) >= 4
  PROVE  /\ Lengths(s) = {Len(AnswerBytes(r)) - 4}
         /\ Whole(s, Len(AnswerBytes(r)) - 4) =>
               /\ Left(s) = Len(AnswerBytes(r)) /\ Len(t) = 0
               /\ Judge(r, s) = Result("succ", AnswerTo(r))
<1> DEFINE id == AnswerId(r.kind)
           enc == ServerEncodes(r.kind)
           dec == ClientDecodes(r.kind)
           msg == AnswerTo(r)
           b == AnswerBytes(r)
           i == Inner(id, enc, msg)
           n == Len(i)
           h == Put4(n)
<1>1. Packable(id, enc, dec, msg) /\ b = Packet(id, enc, msg)
  BY AnswerPackable
<1>2. Len(i) < Word
  BY <1>1 DEF Packable
<1>3. /\ h \in Seq(Byte) /\ Len(h) = 4 /\ b = h \o i /\ b \in Seq(Byte)
      /\ i \in Seq(Byte) /\ Len(b) = 4 + n /\ n \in Nat
  <2> HIDE DEF id, enc, dec, msg, b
  <2> QED
    BY <1>1, AnyPacketBytes
<1>4. Good(s) /\ t \in Seq(Byte) /\ Left(s) + Len(t) <= Len(b) /\ Arrives(b, s, t)
  BY DEF Arrives
<1>5. /\ Left(s) \in Nat /\ s.rsize \in Nat /\ Used(s) = s.rsize + Left(s) /\ Len(t) \in Nat
      /\ Left(s) >= 4
  BY <1>4, GoodFields, LenProperties
<1>6. \A p \in 1 .. 4 : h[p] = b[p]
  <2> HIDE DEF h, i
  <2>1. \A p \in 1 .. Len(h) + Len(i) : (h \o i)[p] = IF p <= Len(h) THEN h[p] ELSE i[p - Len(h)]
    BY <1>3, ConcatProperties
  <2>2. \A p \in 1 .. 4 : p \in 1 .. Len(h) + Len(i) /\ p <= Len(h)
    BY <1>3, LenProperties
  <2> HIDE DEF b
  <2> QED
    BY <1>3, <2>1, <2>2
<1> HIDE DEF b, i, n, h
<1>7. Ahead(s, h)
  <2>1. Len(h) <= Left(s) /\ Len(h) <= Len(b) /\ h \in Seq(Byte)
    BY <1>3, <1>5
  <2>2. \A p \in 1 .. Len(h) : h[p] = b[p]
    BY <1>3, <1>6
  <2> QED
    BY <1>4, <2>1, <2>2, ArrivedAhead
<1>8. Get4(At(s, s.rsize, 4)) = n
  <2>1. At(s, s.rsize, 4) = h
    BY <1>3, <1>7, AtAhead
  <2>2. Get4(h) = n
    BY <1>2, <1>3, Digits4 DEF h, n
  <2> QED
    BY <2>1, <2>2
<1>9. ~ (Used(s) < s.rsize + 4) /\ n = Len(b) - 4
  BY <1>3, <1>5
<1>10. Lengths(s) = {Len(b) - 4}
  BY <1>8, <1>9 DEF Lengths
<1>11. ASSUME Whole(s, Len(b) - 4)
       PROVE  Left(s) = Len(b) /\ Len(t) = 0 /\ Judge(r, s) = Result("succ", AnswerTo(r))
  <2>1. Left(s) < 4 \/ (Len(b) - 4) + 4 <= Left(s)
    BY <1>11 DEF Whole, Left
  <2>2. Left(s) = Len(b) /\ Len(t) = 0
    BY <1>3, <1>4, <1>5, <2>1
  <2>3. Ahead(s, b)
    <3>1. b \in Seq(Byte) /\ Len(b) <= Left(s) /\ Len(b) <= Len(b)
      BY <1>3, <1>5, <2>2
    <3> QED
      BY <1>4, <3>1, ArrivedAhead
  <2>4. AnswerTo(r).sid = r.msg.sid
    BY AnswerMessage
  <2>5. r.kind = "GET_META" => id = MsgId["GET_META_ACK"]
    BY AnswerListsMatch DEF Sendable, AnswersFit
  <2> HIDE DEF id, enc, dec, msg
  <2>6. Ahead(s, Packet(id, enc, msg))
    BY <1>1, <2>3
  <2>7. /\ ReadU32(s).s = Advance(s, 4)
        /\ ReadU16(Advance(s, 4)).val = id
        /\ ReadU16(Advance(s, 4)).s = Advance(s, 6)
        /\ Decode(dec, Advance(s, 6)) =
              [msg |-> msg, s |-> Advance(s, Len(Packet(id, enc, msg))), ok |-> TRUE]
    BY <1>1, <2>6, AnyPacketRead
  <2> DEFINE body == Decode(dec, Advance(s, 6))
  <2>8. body.ok = TRUE /\ body.msg = msg
    BY <2>7
  <2> HIDE DEF body
  <2>9. ReadU16(ReadU32(s).s).val = id /\ ReadU16(ReadU32(s).s).s = Advance(s, 6)
    BY <2>7
  <2>10. msg.sid = r.msg.sid
    BY <2>4 DEF msg
  <2>11. Judge(r, s) =
            IF /\ r.kind = "GET_META" => ReadU16(ReadU32(s).s).val = MsgId["GET_META_ACK"]
               /\ body.ok
               /\ body.msg.sid = r.msg.sid
            THEN Result("succ", body.msg)
            ELSE Result("packet", NoMsg)
    BY <2>9 DEF Judge, body, dec
  <2>12. Judge(r, s) = Result("succ", msg)
    BY <2>5, <2>8, <2>9, <2>10, <2>11
  <2> QED
    BY <2>2, <2>12 DEF msg
<1> QED
  BY <1>10, <1>11 DEF b

(***************************************************************************)
(* The invariant of the answers                                            *)
(***************************************************************************)
LEMMA AnswerIsBytes ==
  ASSUME NEW r \in Requests, Sendable(r), AnswersFit
  PROVE  AnswerBytes(r) \in Seq(Byte)
<1> DEFINE id == AnswerId(r.kind)
           enc == ServerEncodes(r.kind)
           dec == ClientDecodes(r.kind)
           msg == AnswerTo(r)
<1>1. Packable(id, enc, dec, msg) /\ AnswerBytes(r) = Packet(id, enc, msg)
  BY AnswerPackable
<1> HIDE DEF id, enc, dec, msg
<1> QED
  BY <1>1, AnyPacketBytes

\* The send stream of a connection that is open continues what is written; that
\* of a closed one is empty.
SInv ==
    /\ Good(sstrm)
    /\ link \in {"up", "hung"} => Continues(Said, sstrm, put)
    /\ link \in {"dropped", "closed"} => Left(sstrm) = 0

LEMMA SInvInit ==
  ASSUME Init
  PROVE  SInv
<1>1. sstrm = Fresh /\ put = 0 /\ handled = <<>> /\ link = "up"
  BY DEF Init
<1>2. Good(sstrm) /\ Left(sstrm) = 0
  BY <1>1, EmptyStream, StreamAssumption DEF Fresh
<1>3. Said = <<>> /\ <<>> \in Seq(Byte) /\ Len(<<>>) = 0
  BY <1>1, SaidNothing, EmptySeq
<1>4. Continues(<<>>, sstrm, 0)
  BY <1>2, <1>3, NothingContinues
<1> QED
  BY <1>1, <1>2, <1>3, <1>4 DEF SInv

LEMMA SaidSame ==
  ASSUME UNCHANGED handled
  PROVE  Said' = Said
  BY DEF Said

\* A step that says and writes nothing: the stream is at most moved.
LEMMA QuietSays ==
  ASSUME SInv, UNCHANGED <<handled, put>>, Keeps(sstrm, sstrm'),
         \/ link' = link
         \/ link = "up" /\ link' = "hung"
         \/ link = "dropped" /\ link' = "closed"
  PROVE  SInv'
<1>1. Said' = Said
  BY SaidSame
<1> DEFINE z == sstrm'
<1>2. Good(z) /\ Left(z) = Left(sstrm)
  BY DEF Keeps
<1>3. Continues(Said, sstrm, put) => Continues(Said, z, put)
  BY KeepsContinues
<1> HIDE DEF z
<1>4. /\ link' \in {"up", "hung"} => Continues(Said, z, put)
      /\ link' \in {"dropped", "closed"} => Left(z) = 0
  BY <1>2, <1>3 DEF SInv
<1> QED
  BY <1>1, <1>2, <1>4 DEF SInv, z

LEMMA KeepsItself ==
  ASSUME NEW s, Good(s)
  PROVE  Keeps(s, s)
  BY DEF Keeps

LEMMA CloseEmpties ==
  ASSUME Good(sstrm), Close
  PROVE  Good(sstrm') /\ Left(sstrm') = 0
<1> DEFINE y == Rewind(sstrm)
           z == sstrm'
<1>1. z = Reduce(y)
  BY DEF Close
<1>2. sstrm \in Stream
  BY GoodFields
<1>3. y \in Stream /\ y.data = <<>> /\ y.rsize = 0
  BY <1>2, EmptySeq DEF Rewind, Stream
<1>4. z = Fresh \/ z = y
  BY <1>1 DEF Reduce
<1>5. Good(Fresh) /\ Left(Fresh) = 0
  BY EmptyStream, StreamAssumption DEF Fresh
<1>6. Good(y) /\ Left(y) = 0
  <2> HIDE DEF y
  <2>1. Len(<<>>) = 0
    OBVIOUS
  <2> QED
    BY <1>3, <2>1 DEF Good, Left, Used
<1> HIDE DEF y, z
<1>7. Good(z) /\ Left(z) = 0
  BY <1>4, <1>5, <1>6
<1> QED
  BY <1>7 DEF z

LEMMA CloseSays ==
  ASSUME SInv, Close
  PROVE  SInv'
<1>1. link' \in {"dropped", "closed"}
  BY DEF Close
<1>2. Good(sstrm') /\ Left(sstrm') = 0
  BY CloseEmpties DEF SInv
<1> QED
  BY <1>1, <1>2 DEF SInv

LEMMA NotMoved ==
  ASSUME CountInv, count'.move = 0, NEW r, Answer(r)
  PROVE  sstrm' = AnswerSent(sstrm, r)
<1>1. Use("move") => count'["move"] > 0
  BY UseCounts DEF Bounds
<1>2. ~ Use("move")
  BY <1>1
<1> QED
  BY <1>2, Zenon DEF Answer

\* hander_send appends just the answer when its stream stays where it is.
LEMMA SplitSays ==
  ASSUME WellSent, AnswersFit, CountInv, FInv, SInv, Split, count'.move = 0
  PROVE  SInv'
<1> DEFINE r == script[Len(handled) + 1]
<1>1. link \in {"up", "hung"} /\ put' = put
  BY SplitTurn DEF Split, Close
<1>2. CASE Close
  BY <1>2, CloseSays
<1>3. CASE UNCHANGED <<link, sstrm, handled>>
  <2>1. Keeps(sstrm, sstrm)
    BY KeepsItself DEF SInv
  <2>2. Keeps(sstrm, sstrm')
    BY <1>3, <2>1
  <2> QED
    BY <1>1, <1>3, <2>2, QuietSays
<1>4. CASE /\ Len(handled) < asked /\ link' = link
           /\ handled' = Append(handled, r)
           /\ sstrm' = AnswerSent(sstrm, r)
  <2>1. r \in Requests /\ Sendable(r) /\ handled \in Seq(Requests)
    <3>1. /\ script \in Scripts /\ Len(handled) \in Nat /\ asked \in Nat /\ asked <= Len(script)
          /\ Len(script) \in Nat
      BY FieldsOfInv
    <3>2. Len(handled) + 1 \in 1 .. Len(script)
      BY <1>4, <3>1
    <3>3. r \in Requests
      BY <3>1, <3>2, EndsSteps
    <3> QED
      BY <3>3 DEF WellSent, FInv
  <2>2. AnswerBytes(r) \in Seq(Byte)
    BY <2>1, AnswerIsBytes
  <2> DEFINE c == AnswerBytes(r)
             z == Write(sstrm, c)
  <2>3. sstrm' = z
    BY <1>4 DEF AnswerSent
  <2>4. Said' = Said \o c
    BY <1>4, <2>1, SaidMore
  <2>5. Continues(Said, sstrm, put)
    BY <1>1 DEF SInv
  <2> HIDE DEF c
  <2>6. Continues(Said \o c, z, put)
    BY <2>2, <2>5, WriteContinues DEF c
  <2> HIDE DEF z
  <2>7. Good(z)
    BY <2>6 DEF Continues
  <2> QED
    BY <1>1, <1>4, <2>3, <2>4, <2>6, <2>7 DEF SInv
<1>5. Answer(r) => sstrm' = AnswerSent(sstrm, r)
  <2> HIDE DEF r
  <2> QED
    BY NotMoved
<1> QED
  BY <1>2, <1>3, <1>4, <1>5, SplitTurn

\* handler_on_write: a part is written, what is left continues it.
LEMMA WriteSays ==
  ASSUME SInv, WriteSome
  PROVE  SInv'
<1>1. link = "up" /\ link' = link /\ handled' = handled
  BY DEF WriteSome
<1>2. PICK n \in 0 .. Used(sstrm) - sstrm.rsize :
         /\ put' = put + n
         /\ sstrm' = Move([sstrm EXCEPT !.rsize = @ + n])
  BY DEF WriteSome
<1> DEFINE y == Advance(sstrm, n)
           z == Move(y)
<1>3. n \in 0 .. Left(sstrm) /\ sstrm' = z
  BY <1>2 DEF Left, Advance
<1>4. Continues(Said, y, put + n)
  BY <1>1, <1>3, AdvanceContinues DEF SInv
<1> HIDE DEF y
<1>5. Keeps(y, z)
  BY <1>4, MoveKeeps DEF Continues
<1>6. Continues(Said, z, put + n)
  BY <1>4, <1>5, KeepsContinues
<1>7. Good(z)
  BY <1>6 DEF Continues
<1>8. Said' = Said
  BY <1>1, SaidSame
<1> HIDE DEF z
<1> QED
  BY <1>1, <1>2, <1>3, <1>6, <1>7, <1>8 DEF SInv

LEMMA ConnectSays ==
  ASSUME SInv, Connect
  PROVE  SInv'
<1>1. link = "closed" /\ link' = "up" /\ handled' = <<>> /\ put' = 0 /\ sstrm' = sstrm
  BY DEF Connect
<1>2. Good(sstrm) /\ Left(sstrm) = 0
  BY <1>1 DEF SInv
<1>3. Said' = <<>>
  <2>1. Said' = Answers(handled')[Len(handled')]
    BY Zenon DEF Said, Answers
  <2> DEFINE h == <<>>
  <2>2. Said' = Answers(h)[Len(h)] /\ Len(h) = 0 /\ Len(h) \in Nat
    BY <1>1, <2>1, EmptySeq
  <2> HIDE DEF h
  <2>3. Answers(h)[0] = <<>>
    BY <2>2, AnswersSteps
  <2> QED
    BY <2>2, <2>3
<1>4. <<>> \in Seq(Byte) /\ Len(<<>>) = 0
  BY EmptySeq
<1>5. Continues(<<>>, sstrm, 0)
  BY <1>2, <1>4, NothingContinues
<1> QED
  BY <1>1, <1>2, <1>3, <1>5 DEF SInv

LEMMA NextSays ==
  ASSUME WellSent, AnswersFit, CountInv, FInv, SInv, [Next]_vars, count'.move = 0
  PROVE  SInv'
<1>0. Good(sstrm) /\ Keeps(sstrm, sstrm)
  BY KeepsItself DEF SInv
<1>1. ASSUME UNCHANGED <<handled, put, sstrm>>,
             \/ link' = link
             \/ link = "up" /\ link' = "hung"
             \/ link = "dropped" /\ link' = "closed"
      PROVE  SInv'
  <2>1. Keeps(sstrm, sstrm')
    BY <1>0, <1>1
  <2> QED
    BY <1>1, <2>1, QuietSays
<1>2. CASE UNCHANGED vars
  BY <1>1, <1>2 DEF vars, client, server
<1>3. CASE Send
  BY <1>1, <1>3 DEF Send, server
<1>4. CASE Recv
  BY <1>1, <1>4 DEF Recv, server
<1>5. CASE GiveUp
  BY <1>1, <1>5 DEF GiveUp, server
<1>6. CASE HangUp
  BY <1>1, <1>6 DEF HangUp, server
<1>7. CASE Connect
  BY <1>7, ConnectSays
<1>8. CASE Event
  BY <1>1, <1>8 DEF Event
<1>9. CASE Read
  BY <1>1, <1>9 DEF Read
<1>10. CASE Drained
  <2>1. sstrm' = Move(sstrm) /\ UNCHANGED <<handled, put, link>>
    BY <1>10 DEF Drained, CheckWrite
  <2>2. Keeps(sstrm, sstrm')
    BY <1>0, <2>1, MoveKeeps
  <2> QED
    BY <2>1, <2>2, QuietSays
<1>11. CASE ReadEnd
  BY <1>11, CloseSays DEF ReadEnd
<1>12. CASE Split
  BY <1>12, SplitSays
<1>13. CASE WriteSome
  BY <1>13, WriteSays
<1>14. CASE WriteEnd
  BY <1>14, CloseSays DEF WriteEnd
<1> QED
  BY <1>2, <1>3, <1>4, <1>5, <1>6, <1>7, <1>8, <1>9, <1>10, <1>11, <1>12, <1>13, <1>14
     DEF Next, Serve

\* Nothing the code does not stand has happened: neither end has seen 1 to 3
\* bytes of a packet where it reads a length from them, and realloc has moved no
\* stream under hander_send.  ServerWell leaves out what the client sees.
ServerWell == count.request = 0 /\ count.move = 0
AllWell == ServerWell /\ count.answer = 0

LEMMA WellBefore ==
  ASSUME CountInv, [Next]_vars
  PROVE  (ServerWell' => ServerWell) /\ (AllWell' => AllWell)
<1>1. \A d \in {"request", "move", "answer"} : count[d] <= count'[d] /\ count[d] \in Nat
  BY NextCounts DEF CountInv, Bounds
<1>2. ASSUME NEW d \in {"request", "move", "answer"}, count'[d] = 0
      PROVE  count[d] = 0
  BY <1>1, <1>2
<1> QED
  BY <1>2 DEF ServerWell, AllWell

\* What is left in the send stream continues what is written: partial writes,
\* moves and growing neither lose nor repeat a byte of an answer, until realloc
\* has once moved the stream or a request was cut within its head (stale_head
\* shows what happens then).
THEOREM AnswersStayWhole ==
  ASSUME WellSent, AnswersFit
  PROVE  Spec => [](ServerWell => AnswersWhole)
<1> DEFINE I == CountInv /\ (count.request = 0 => FInv)
           J == ServerWell => SInv
<1>1. Init => J
  BY SInvInit
<1>2. ASSUME I, J, [Next]_vars
      PROVE  J'
  <2> SUFFICES ASSUME ServerWell'
               PROVE  SInv'
    OBVIOUS
  <2>1. CountInv /\ FInv /\ SInv /\ count'.move = 0
    BY <1>2, WellBefore DEF ServerWell
  <2> QED
    BY <1>2, <2>1, NextSays
<1>3. I /\ J /\ [Next]_vars => J'
  BY <1>2
<1>4. J => (ServerWell => AnswersWhole)
  BY UnreadIs DEF SInv, AnswersWhole
<1>5. Spec => []I
  BY FInvariance
<1> HIDE DEF I, J
<1> QED
  BY <1>1, <1>3, <1>4, <1>5, PTL DEF Spec

(***************************************************************************)
(* What the calls return                                                   *)
(***************************************************************************)
ASequence(f) == Len(f) \in Nat /\ f = [i \in 1 .. Len(f) |-> f[i]]

\* In the first i calls of a connection the client did not give up.
PatientTo(rs, i) == \A j \in 1 .. i : rs[j].how # "timeout"

\* Until the client gives up, every call returns success and the server's answer.
Mine(rs, sc) ==
    \A i \in 1 .. Len(rs) :
        PatientTo(rs, i) => rs[i] = Result("succ", AnswerTo(sc[i]))

AnsweredInTurn == Mine(results, script)

LEMMA OneMoreResult ==
  ASSUME NEW rs, ASequence(rs), NEW x
  PROVE  /\ ASequence(Append(rs, x)) /\ Len(Append(rs, x)) = Len(rs) + 1
         /\ Append(rs, x)[Len(rs) + 1] = x
         /\ \A i \in 1 .. Len(rs) : Append(rs, x)[i] = rs[i]
<1> DEFINE y == Append(rs, x)
           n == Len(rs)
           S == {rs[i] : i \in 1 .. n} \cup {x}
<1>1. n \in Nat /\ rs = [i \in 1 .. n |-> rs[i]]
  BY DEF ASequence
<1>2. rs \in [1 .. n -> S]
  <2>1. \A i \in 1 .. n : rs[i] \in S
    OBVIOUS
  <2> HIDE DEF S
  <2> QED
    BY <1>1, <2>1
<1>3. x \in S
  OBVIOUS
<1> HIDE DEF S, y
<1>4. rs \in Seq(S)
  <2> HIDE DEF n
  <2> QED
    BY <1>1, <1>2, SeqDef
<1>5. /\ y \in Seq(S) /\ Len(y) = n + 1 /\ y[n + 1] = x
      /\ \A i \in 1 .. n : y[i] = rs[i]
  BY <1>3, <1>4, AppendProperties DEF y
<1>6. ASequence(y)
  <2>1. y \in [1 .. Len(y) -> S] /\ Len(y) \in Nat
    BY <1>5, LenProperties
  <2> QED
    BY <2>1 DEF ASequence
<1> QED
  BY <1>5, <1>6 DEF y

\* A call returns: its result is the last one.
LEMMA ReturnKeepsMine ==
  ASSUME NEW rs, ASequence(rs), NEW sc, Mine(rs, sc), NEW x, NEW y, y = Append(rs, x),
         PatientTo(rs, Len(rs)) /\ x.how # "timeout" =>
            x = Result("succ", AnswerTo(sc[Len(rs) + 1]))
  PROVE  /\ ASequence(y) /\ Len(y) = Len(rs) + 1 /\ Mine(y, sc)
         /\ PatientTo(y, Len(y)) => PatientTo(rs, Len(rs)) /\ x.how # "timeout"
<1> DEFINE n == Len(rs)
<1>0. /\ ASequence(y) /\ Len(y) = Len(rs) + 1 /\ y[Len(rs) + 1] = x
      /\ \A i \in 1 .. Len(rs) : y[i] = rs[i]
  <2> HIDE DEF n
  <2>1. /\ ASequence(Append(rs, x)) /\ Len(Append(rs, x)) = Len(rs) + 1
        /\ Append(rs, x)[Len(rs) + 1] = x
        /\ \A i \in 1 .. Len(rs) : Append(rs, x)[i] = rs[i]
    BY OneMoreResult, Zenon
  <2> QED
    BY <2>1, Zenon
<1>1. /\ ASequence(y) /\ Len(y) = n + 1 /\ y[n + 1] = x
      /\ \A i \in 1 .. n : y[i] = rs[i]
  BY <1>0, Zenon
<1>2. n \in Nat
  BY DEF ASequence
<1> HIDE DEF n
<1>3. ASSUME NEW i \in 1 .. n
      PROVE  PatientTo(y, i) <=> PatientTo(rs, i)
  <2>1. \A j \in 1 .. i : j \in 1 .. n
    BY <1>2
  <2>2. \A j \in 1 .. i : y[j] = rs[j]
    BY <1>1, <2>1
  <2> QED
    BY <2>2 DEF PatientTo
<1>4. PatientTo(y, n + 1) => PatientTo(rs, n) /\ x.how # "timeout"
  <2> SUFFICES ASSUME PatientTo(y, n + 1)
               PROVE  PatientTo(rs, n) /\ x.how # "timeout"
    OBVIOUS
  <2>1. \A j \in 1 .. n + 1 : y[j].how # "timeout"
    BY DEF PatientTo
  <2>2. n + 1 \in 1 .. n + 1 /\ \A j \in 1 .. n : j \in 1 .. n + 1
    BY <1>2
  <2>3. x.how # "timeout"
    BY <1>1, <2>1, <2>2
  <2>4. \A j \in 1 .. n : rs[j].how # "timeout"
    <3> SUFFICES ASSUME NEW j \in 1 .. n
                 PROVE  rs[j].how # "timeout"
      OBVIOUS
    <3>1. y[j].how # "timeout" /\ y[j] = rs[j]
      BY <1>1, <2>1, <2>2
    <3> QED
      BY <3>1
  <2> QED
    BY <2>3, <2>4 DEF PatientTo
<1>5. ASSUME NEW i \in 1 .. n + 1, PatientTo(y, i)
      PROVE  y[i] = Result("succ", AnswerTo(sc[i]))
  <2>1. CASE i = n + 1
    <3>1. PatientTo(y, n + 1)
      BY <1>5, <2>1
    <3>2. x = Result("succ", AnswerTo(sc[n + 1]))
      BY <1>4, <3>1 DEF n
    <3> QED
      BY <1>1, <2>1, <3>2
  <2>2. CASE i # n + 1
    <3>1. i \in 1 .. n
      BY <1>2, <2>2
    <3>2. PatientTo(rs, i)
      BY <1>3, <1>5, <3>1
    <3>3. rs[i] = Result("succ", AnswerTo(sc[i]))
      BY <3>1, <3>2 DEF Mine, n
    <3> QED
      BY <1>1, <3>1, <3>3
  <2> QED
    BY <2>1, <2>2
<1>6. Mine(y, sc)
  BY <1>1, <1>5 DEF Mine
<1> QED
  BY <1>1, <1>4, <1>6 DEF n

\* A connection whose client has not given up: all calls but the one that waits
\* have returned, and of the answer to that one what has come is in the client's
\* stream, what is written is under way, and the rest is in the send stream.
InTurn ==
    /\ Len(results) = IF waiting THEN asked - 1 ELSE asked
    /\ Len(handled) = asked \/ (waiting /\ Len(handled) = asked - 1)
    /\ ~ waiting \/ Len(handled) < asked =>
          Left(crcv) = 0 /\ toClient = <<>> /\ (link = "up" => Left(sstrm) = 0)
    /\ waiting /\ Len(handled) = asked =>
          /\ Arrives(AnswerBytes(script[asked]), crcv, toClient)
          /\ link = "up" =>
                Continues(AnswerBytes(script[asked]), sstrm, Left(crcv) + Len(toClient))

CInv ==
    /\ ASequence(results) /\ waiting \in BOOLEAN
    /\ Good(crcv) /\ crcv.rsize = 0 /\ Used(crcv) < crcv.size
    /\ toClient \in Seq(Byte)
    /\ ~ waiting => Left(crcv) = 0
    /\ link \in {"hung", "closed"} => ~ waiting
    /\ AnsweredInTurn
    /\ PatientTo(results, Len(results)) /\ link \in {"up", "dropped"} => InTurn

LEMMA FreshStream ==
  /\ Good(Fresh) /\ Left(Fresh) = 0 /\ Fresh.rsize = 0 /\ Used(Fresh) = 0
  /\ Used(Fresh) < Fresh.size /\ Fresh.size \in Nat \ {0}
<1> DEFINE z == Fresh
<1>1. z = [data |-> <<>>, rsize |-> 0, size |-> Default] /\ Default \in Nat \ {0}
  BY StreamAssumption DEF Fresh
<1> HIDE DEF z
<1>2. Good(z) /\ Left(z) = 0
  BY <1>1, EmptyStream
<1>3. z.rsize = 0 /\ z.size = Default
  BY <1>1
<1>4. Used(z) = 0
  BY <1>2, <1>3, GoodFields
<1> QED
  BY <1>1, <1>2, <1>3, <1>4 DEF z

LEMMA NoResults ==
  ASSUME NEW rs, rs = <<>>
  PROVE  ASequence(rs) /\ Len(rs) = 0 /\ \A sc : Mine(rs, sc)
<1>1. Len(rs) = 0
  BY EmptySeq
<1>2. rs = [i \in 1 .. 0 |-> rs[i]]
  OBVIOUS
<1>3. ASequence(rs)
  BY <1>1, <1>2 DEF ASequence
<1>4. \A i \in 1 .. 0 : FALSE
  OBVIOUS
<1> QED
  BY <1>1, <1>3, <1>4 DEF Mine

LEMMA CInvInit ==
  ASSUME Init
  PROVE  CInv
<1>1. /\ asked = 0 /\ waiting = FALSE /\ crcv = Fresh /\ results = <<>> /\ toClient = <<>>
      /\ link = "up" /\ sstrm = Fresh /\ handled = <<>>
  BY DEF Init
<1>2. ASequence(results) /\ Len(results) = 0 /\ AnsweredInTurn
  BY <1>1, NoResults DEF AnsweredInTurn
<1>3. Len(handled) = 0
  BY <1>1, EmptySeq
<1>4. InTurn
  BY <1>1, <1>2, <1>3, FreshStream DEF InTurn
<1>5. toClient \in Seq(Byte)
  BY <1>1, EmptySeq
<1> QED
  BY <1>1, <1>2, <1>4, <1>5, FreshStream DEF CInv

\* A step of which the client sees nothing.
LEMMA QuietAnswers ==
  ASSUME CInv, UNCHANGED <<script, asked, waiting, results, handled, crcv, toClient, link>>,
         Keeps(sstrm, sstrm')
  PROVE  CInv'
<1> DEFINE z == sstrm'
           b == AnswerBytes(script[asked])
           k == Left(crcv) + Len(toClient)
<1>1. Left(z) = Left(sstrm)
  BY DEF Keeps
<1>2. Continues(b, sstrm, k) => Continues(b, z, k)
  BY KeepsContinues
<1>3. ASSUME InTurn
      PROVE  InTurn'
  <2> HIDE DEF z
  <2>1. /\ Left(sstrm) = 0 => Left(z) = 0
        /\ Continues(AnswerBytes(script[asked]), sstrm, Left(crcv) + Len(toClient)) =>
             Continues(AnswerBytes(script[asked]), z, Left(crcv) + Len(toClient))
    BY <1>1, <1>2, Zenon
  <2> QED
    BY <1>3, <2>1 DEF InTurn, z
<1>4. UNCHANGED AnsweredInTurn
  BY DEF AnsweredInTurn
<1>5. UNCHANGED PatientTo(results, Len(results))
  OBVIOUS
<1> QED
  BY <1>3, <1>4, <1>5, Zenon DEF CInv

LEMMA CloseAnswers ==
  ASSUME CInv, Close, link \in {"up", "hung"},
         UNCHANGED <<script, asked, waiting, results, crcv, toClient>>
  PROVE  CInv'
<1>1. link' = (IF link = "up" THEN "dropped" ELSE "closed") /\ handled' = handled
  BY DEF Close
<1>2. ASSUME InTurn, link = "up"
      PROVE  InTurn'
  BY <1>1, <1>2 DEF InTurn
<1>3. UNCHANGED AnsweredInTurn
  BY DEF AnsweredInTurn
<1> QED
  BY <1>1, <1>2, <1>3 DEF CInv

LEMMA SendAnswers ==
  ASSUME WellSent, FInv, CInv, Send
  PROVE  CInv'
<1>1. /\ link = "up" /\ ~ waiting /\ asked' = asked + 1 /\ waiting' = TRUE
      /\ crcv' = Resize(Fresh, 4 * Default)
      /\ UNCHANGED <<script, results, toClient, link, sstrm, handled>>
  BY DEF Send, Calls, server
<1>2. asked \in Nat /\ Len(handled) \in Nat
  BY FieldsOfInv
<1> DEFINE z == crcv'
<1>3. /\ Good(z) /\ Left(z) = 0 /\ z.rsize = 0 /\ Used(z) < z.size
  <2> DEFINE n == 4 * Default
             f == Fresh
  <2>1. n \in Nat
    BY StreamAssumption
  <2>2. /\ Good(f) /\ Left(f) = 0 /\ f.rsize = 0 /\ f.size \in Nat \ {0}
    BY FreshStream
  <2>3. f \in Stream
    BY <2>2, GoodFields
  <2> HIDE DEF n, f
  <2>4. z = Resize(f, n)
    BY <1>1 DEF n, f
  <2>5. Keeps(f, Resize(f, n))
    BY <2>1, <2>2, ResizeKeeps
  <2>6. z.rsize = 0
    BY <2>2, <2>3, <2>4 DEF Resize, Stream
  <2> HIDE DEF z
  <2>7. Good(z) /\ Left(z) = 0
    BY <2>2, <2>4, <2>5 DEF Keeps
  <2>8. Used(z) = 0 /\ z.size \in Nat \ {0}
    BY <2>6, <2>7, GoodFields
  <2> QED
    BY <2>6, <2>7, <2>8
<1>4. ASSUME InTurn
      PROVE  InTurn'
  <2>1. /\ Len(results) = asked /\ Len(handled) = asked
        /\ toClient = <<>> /\ Left(sstrm) = 0
    BY <1>1, <1>4 DEF InTurn
  <2>2. /\ Len(results) = asked' - 1 /\ Len(handled) = asked' - 1 /\ Len(handled) < asked'
        /\ Len(handled) # asked'
    BY <1>1, <1>2, <2>1
  <2> HIDE DEF z
  <2>3. Left(z) = 0
    BY <1>3
  <2> QED
    BY <1>1, <2>1, <2>2, <2>3 DEF InTurn, z
<1>5. AnsweredInTurn'
  BY <1>1 DEF AnsweredInTurn, CInv
<1> HIDE DEF z
<1>6. CInv => (PatientTo(results, Len(results)) => InTurn)
  BY <1>1 DEF CInv
<1>7. UNCHANGED PatientTo(results, Len(results))
  BY <1>1
<1> QED
  BY <1>1, <1>3, <1>4, <1>5, <1>6, <1>7 DEF CInv, z

LEMMA HangUpAnswers ==
  ASSUME CInv, HangUp
  PROVE  CInv'
<1>1. /\ link' = "hung" /\ waiting' = FALSE /\ crcv' = Fresh /\ toClient' = <<>>
      /\ UNCHANGED <<script, results>>
  BY DEF HangUp
<1>2. AnsweredInTurn' /\ ASequence(results')
  BY <1>1 DEF AnsweredInTurn, CInv
<1>3. toClient' \in Seq(Byte)
  BY <1>1, EmptySeq
<1> QED
  BY <1>1, <1>2, <1>3, FreshStream DEF CInv

LEMMA ConnectAnswers ==
  ASSUME SInv, CInv, Connect
  PROVE  CInv'
<1>1. /\ link = "closed" /\ link' = "up" /\ asked' = 0 /\ waiting' = FALSE /\ crcv' = Fresh
      /\ results' = <<>> /\ toClient' = <<>> /\ handled' = <<>>
      /\ UNCHANGED <<script, sstrm>>
  BY DEF Connect
<1>2. Left(sstrm) = 0
  BY <1>1 DEF SInv
<1>3. toClient' \in Seq(Byte) /\ Len(handled') = 0
  BY <1>1, EmptySeq
<1>4. ASequence(results') /\ Len(results') = 0 /\ Mine(results', script')
  BY <1>1, NoResults
<1>5. InTurn'
  BY <1>1, <1>2, <1>3, <1>4, FreshStream DEF InTurn
<1>6. AnsweredInTurn'
  BY <1>4 DEF AnsweredInTurn
<1> QED
  BY <1>1, <1>3, <1>4, <1>5, <1>6, FreshStream DEF CInv

\* A call returns, with the server's answer or because the client gives up.
LEMMA ReturnAnswers ==
  ASSUME FInv, CInv, waiting, NEW x, Return(x), UNCHANGED <<script, asked, handled>>,
         asked \in Nat, toClient' \in Seq(Byte),
         \/ /\ link' = link
            /\ PatientTo(results, Len(results)) =>
                  /\ x = Result("succ", AnswerTo(script[asked]))
                  /\ Len(handled) = asked /\ toClient' = <<>>
                  /\ link = "up" => Left(sstrm') = 0
         \/ x.how = "timeout"
  PROVE  CInv'
<1>1. waiting' = FALSE /\ crcv' = Fresh /\ results' = Append(results, x)
  BY DEF Return
<1>2. link \in {"up", "dropped"}
  BY DEF FInv, CInv
<1>3. ASequence(results) /\ Mine(results, script) /\ Len(results) \in Nat
  BY DEF CInv, AnsweredInTurn, ASequence
<1>4. PatientTo(results, Len(results)) => Len(results) = asked - 1
  BY <1>2 DEF CInv, InTurn
<1>5. PatientTo(results, Len(results)) /\ x.how # "timeout" =>
         /\ x = Result("succ", AnswerTo(script[Len(results) + 1]))
         /\ Len(results) + 1 = asked
  <2>1. PatientTo(results, Len(results)) => Len(results) + 1 = asked
    BY <1>3, <1>4
  <2> QED
    BY <2>1, Zenon
<1> DEFINE y == results'
<1>6. /\ ASequence(y) /\ Len(y) = Len(results) + 1 /\ Mine(y, script)
      /\ PatientTo(y, Len(y)) => PatientTo(results, Len(results)) /\ x.how # "timeout"
  <2>1. y = Append(results, x)
    BY <1>1
  <2> HIDE DEF y
  <2>2. PatientTo(results, Len(results)) /\ x.how # "timeout" =>
           x = Result("succ", AnswerTo(script[Len(results) + 1]))
    BY <1>5, Zenon
  <2> QED
    BY <1>3, <2>1, <2>2, ReturnKeepsMine, Zenon
<1>7. AnsweredInTurn' /\ ASequence(results')
  BY <1>6 DEF AnsweredInTurn
<1>8. PatientTo(y, Len(y)) =>
         /\ PatientTo(results, Len(results)) /\ x.how # "timeout" /\ link' = link
         /\ Len(y) = asked
         /\ Len(handled) = asked /\ toClient' = <<>>
         /\ link = "up" => Left(sstrm') = 0
  <2> HIDE DEF y
  <2>1. PatientTo(y, Len(y)) => PatientTo(results, Len(results)) /\ x.how # "timeout"
    BY <1>6, Zenon
  <2> QED
    BY <1>5, <1>6, <2>1, Zenon
<1>9. ASSUME PatientTo(y, Len(y))
      PROVE  InTurn'
  <2>1. Left(crcv') = 0
    BY <1>1, FreshStream
  <2> QED
    BY <1>1, <1>8, <1>9, <2>1 DEF InTurn
<1> QED
  BY <1>1, <1>7, <1>9, FreshStream DEF CInv

LEMMA GiveUpAnswers ==
  ASSUME WellSent, FInv, CInv, GiveUp
  PROVE  CInv'
<1> DEFINE x == Result("timeout", NoMsg)
<1>1. /\ waiting /\ Return(x) /\ x.how = "timeout"
      /\ UNCHANGED <<script, asked, handled, toClient>>
  BY DEF GiveUp, Result, server
<1>2. asked \in Nat /\ toClient' \in Seq(Byte)
  BY <1>1, FieldsOfInv DEF CInv
<1> HIDE DEF x
<1> QED
  BY <1>1, <1>2, ReturnAnswers

LEMMA LeastIs ==
  ASSUME NEW m \in Nat, NEW n \in Nat, m > 0, n > 0
  PROVE  Least(m, n) \in 1 .. m /\ Least(m, n) <= n
  BY DEF Least

\* What recv_packet reads, and the length it then finds at the head.
LEMMA RecvTakes ==
  ASSUME WellSent, CountInv, FInv, CInv, Recv, count'.answer = 0
  PROVE  \E n, z :
            /\ Takes(crcv, toClient, n, z, toClient') /\ z.rsize = 0 /\ z.size = crcv.size
            /\ Good(z) /\ toClient' \in Seq(Byte) /\ Left(z) >= 4 /\ Used(z) <= z.size
            /\ \E len \in Lengths(z) :
                  IF Whole(z, len)
                  THEN Return(Judge(script[asked], z))
                  ELSE /\ crcv' = IF z.size <= Used(z) THEN Resize(z, 2 * z.size) ELSE z
                       /\ UNCHANGED <<waiting, results>>
<1> DEFINE c == crcv
           t == toClient
           n == Least(Len(t), Room(c))
           z == [c EXCEPT !.data = @ \o SubSeq(t, 1, n)]
           y == SubSeq(t, n + 1, Len(t))
<1>1. /\ t # <<>> /\ toClient' = y
      /\ IF Used(z) < 4 THEN Use("answer") ELSE UNCHANGED count
      /\ \E len \in Lengths(z) :
            IF Whole(z, len)
            THEN Return(Judge(script[asked], z))
            ELSE /\ crcv' = IF z.size <= Used(z) THEN Resize(z, 2 * z.size) ELSE z
                 /\ UNCHANGED <<waiting, results>>
  BY Zenon DEF Recv
<1>2. /\ Good(c) /\ c.rsize = 0 /\ Used(c) < c.size /\ t \in Seq(Byte)
      /\ c \in Stream /\ Used(c) \in Nat /\ c.size \in Nat /\ Used(c) = Left(c) /\ c.data \in Seq(Byte)
  BY GoodFields DEF CInv
<1>3. Len(t) \in Nat /\ Len(t) > 0
  BY <1>1, <1>2, LenProperties, EmptySeq
<1>4. Room(c) \in Nat /\ Room(c) > 0 /\ Used(c) + Room(c) = c.size
  BY <1>2 DEF Room
<1>5. n \in 1 .. Len(t) /\ n <= Room(c) /\ n \in Nat
  <2>1. n \in 1 .. Len(t) /\ n <= Room(c)
    BY <1>3, <1>4, LeastIs
  <2> HIDE DEF n
  <2> QED
    BY <1>3, <2>1
<1> HIDE DEF n
<1>6. Takes(c, t, n, z, y)
  BY <1>5 DEF Takes
<1>7. Good(z) /\ y \in Seq(Byte) /\ Left(z) + Len(y) = Left(c) + Len(t)
  <2> HIDE DEF z, y, c, t
  <2> QED
    BY <1>2, <1>6, ReadComing
<1>8. z.rsize = 0 /\ z.size = c.size
  BY <1>2 DEF Stream
<1>9. Len(y) = Len(t) - n
  <2>1. n + 1 \in 1 .. Len(t) + 1 /\ n \in 0 .. Len(t)
    BY <1>3, <1>5
  <2>2. \A i \in 1 .. Len(t) : t[i] \in Byte
    BY <1>2, ElementOfSeq
  <2> DEFINE m == n + 1
             l == Len(t)
  <2>3. m \in Int /\ l \in Int /\ m <= l + 1
    BY <1>3, <1>5
  <2> HIDE DEF m, l
  <2>4. Len(SubSeq(t, m, l)) = IF m <= l THEN (l - m) + 1 ELSE 0
    BY <1>2, <2>3, SMT
  <2> QED
    BY <1>3, <1>5, <2>3, <2>4 DEF m, l
<1> HIDE DEF z, y
<1>10. /\ Used(z) \in Nat /\ Used(z) = Left(z) /\ Left(z) \in Nat
  BY <1>7, <1>8, GoodFields
<1>11. Left(z) >= 4
  <2>1. Use("answer") => count'["answer"] > 0
    BY UseCounts DEF Bounds
  <2>2. ~ Use("answer")
    BY <2>1
  <2>3. ~ (Used(z) < 4)
    BY <1>1, <2>2, Zenon
  <2> QED
    BY <1>10, <2>3
<1>12. Used(z) <= z.size
  <2> DEFINE lz == Left(z)
             lc == Left(c)
             lt == Len(t)
             ly == Len(y)
  <2>0. /\ lz \in Nat /\ lc \in Nat /\ lt \in Nat /\ n \in Nat
        /\ lz + ly = lc + lt /\ ly = lt - n
    BY <1>2, <1>3, <1>5, <1>7, <1>9, <1>10, Zenon
  <2> HIDE DEF lz, lc, lt, ly
  <2>1. lz = lc + n
    BY <2>0
  <2> QED
    BY <1>2, <1>4, <1>5, <1>8, <1>10, <2>1 DEF lz, lc
<1> HIDE DEF c, t
<1> QED
  <2>1. toClient' = y
    BY <1>1
  <2>2. Takes(c, t, n, z, toClient') /\ toClient' \in Seq(Byte)
    BY <1>6, <1>7, <2>1
  <2> QED
    BY <1>1, <1>7, <1>8, <1>11, <1>12, <2>2, Zenon DEF c, t

\* recv_packet: what comes is the next part of the answer; all of it is accepted.
LEMMA RecvAnswers ==
  ASSUME WellSent, AnswersFit, CountInv, FInv, CInv, Recv, count'.answer = 0
  PROVE  CInv'
<1> DEFINE r == script[asked]
           b == AnswerBytes(r)
<1>1. PICK n, z :
         /\ Takes(crcv, toClient, n, z, toClient') /\ z.rsize = 0 /\ z.size = crcv.size
         /\ Good(z) /\ toClient' \in Seq(Byte) /\ Left(z) >= 4 /\ Used(z) <= z.size
         /\ \E len \in Lengths(z) :
               IF Whole(z, len)
               THEN Return(Judge(r, z))
               ELSE /\ crcv' = IF z.size <= Used(z) THEN Resize(z, 2 * z.size) ELSE z
                    /\ UNCHANGED <<waiting, results>>
  BY RecvTakes
<1>2. PICK len \in Lengths(z) :
         IF Whole(z, len)
         THEN Return(Judge(r, z))
         ELSE /\ crcv' = IF z.size <= Used(z) THEN Resize(z, 2 * z.size) ELSE z
              /\ UNCHANGED <<waiting, results>>
  BY <1>1
<1>3. waiting /\ toClient # <<>> /\ UNCHANGED <<script, asked, link, handled, sstrm>>
  BY DEF Recv, server
<1>4. asked \in Nat /\ Len(handled) \in Nat /\ script \in Scripts /\ asked \in 0 .. Len(script)
      /\ link \in {"up", "dropped"} /\ asked <= Len(script) /\ Len(script) \in Nat
  BY <1>3, FieldsOfInv DEF FInv, CInv
<1> HIDE DEF b
\* What the invariant says of a client that has not given up.
<1>5. ASSUME PatientTo(results, Len(results))
      PROVE  /\ Len(handled) = asked /\ Arrives(b, crcv, toClient)
             /\ link = "up" => Continues(b, sstrm, Left(crcv) + Len(toClient))
             /\ Len(results) = asked - 1
             /\ asked \in 1 .. Len(script)
  <2>1. InTurn
    BY <1>4, <1>5 DEF CInv
  <2>2. Len(handled) = asked \/ Len(handled) = asked - 1
    BY <1>3, <2>1 DEF InTurn
  <2>3. Len(handled) = asked
    <3> SUFFICES ASSUME Len(handled) # asked
                 PROVE  FALSE
      OBVIOUS
    <3>1. Len(handled) < asked
      BY <1>4, <2>2
    <3> QED
      BY <1>3, <2>1, <3>1 DEF InTurn
  <2>4. Len(results) = asked - 1
    BY <1>3, <2>1 DEF InTurn
  <2>5. asked \in 1 .. Len(script)
    <3>1. Len(results) \in Nat
      BY DEF CInv, ASequence
    <3> QED
      BY <1>4, <2>4, <3>1
  <2> QED
    BY <1>3, <2>1, <2>3, <2>4, <2>5 DEF InTurn, b
<1>6. ASSUME PatientTo(results, Len(results))
      PROVE  /\ Arrives(b, z, toClient') /\ Left(z) + Len(toClient') = Left(crcv) + Len(toClient)
             /\ len = Len(b) - 4
             /\ Whole(z, len) => /\ Left(z) = Len(b) /\ Len(toClient') = 0
                                 /\ Judge(r, z) = Result("succ", AnswerTo(r))
  <2>1. Arrives(b, crcv, toClient) /\ asked \in 1 .. Len(script)
    BY <1>5, <1>6
  <2> DEFINE c == crcv
             t == toClient
             y == toClient'
  <2>2. Takes(c, t, n, z, y) /\ Arrives(b, c, t) /\ Left(z) >= 4
    BY <1>1, <2>1
  <2> HIDE DEF c, t, y
  <2>3. Arrives(b, z, y) /\ Left(z) + Len(y) = Left(c) + Len(t)
    BY <2>2, TakeArrives
  <2>4. r \in Requests /\ Sendable(r)
    BY <1>4, <2>1, EndsSteps DEF WellSent
  <2> HIDE DEF r
  <2>5. /\ Lengths(z) = {Len(b) - 4}
        /\ Whole(z, Len(b) - 4) => /\ Left(z) = Len(b) /\ Len(y) = 0
                                   /\ Judge(r, z) = Result("succ", AnswerTo(r))
    BY <2>2, <2>3, <2>4, AnswerCome DEF b
  <2>6. len = Len(b) - 4
    BY <1>2, <2>5
  <2> QED
    BY <2>3, <2>5, <2>6, Zenon DEF c, t, y
<1>7. CASE Whole(z, len)
  <2> DEFINE x == Judge(r, z)
  <2>1. Return(x)
    BY <1>2, <1>7, Zenon
  <2>2. ASSUME PatientTo(results, Len(results))
        PROVE  /\ x = Result("succ", AnswerTo(script[asked]))
               /\ Len(handled) = asked /\ toClient' = <<>>
               /\ link = "up" => Left(sstrm') = 0
    <3>1. /\ Left(z) = Len(b) /\ Len(toClient') = 0
          /\ x = Result("succ", AnswerTo(r))
          /\ Left(z) + Len(toClient') = Left(crcv) + Len(toClient)
      BY <1>6, <1>7, <2>2
    <3>2. toClient' = <<>>
      BY <1>1, <3>1, EmptySeq
    <3>3. ASSUME link = "up"
          PROVE  Left(sstrm') = 0
      <4>1. Continues(b, sstrm, Left(crcv) + Len(toClient))
        BY <1>5, <2>2, <3>3
      <4> DEFINE k == Left(crcv) + Len(toClient)
                 l == Left(sstrm)
      <4>2. k + l = Len(b) /\ k \in Nat /\ b \in Seq(Byte) /\ Good(sstrm)
        BY <4>1 DEF Continues
      <4>3. l \in Nat /\ Len(b) \in Nat
        BY <4>2, GoodFields, LenProperties
      <4>4. k = Len(b)
        <5>1. Len(b) = Left(z) /\ Left(z) + 0 = k
          BY <3>1
        <5> HIDE DEF k
        <5> QED
          BY <4>3, <5>1
      <4> HIDE DEF k, l
      <4>5. l = 0
        BY <4>2, <4>3, <4>4
      <4> QED
        BY <1>3, <4>5 DEF l
    <3> QED
      BY <1>5, <2>2, <3>1, <3>2, <3>3
  <2> HIDE DEF x
  <2> QED
    BY <1>1, <1>3, <1>4, <2>1, <2>2, ReturnAnswers
<1>8. CASE ~ Whole(z, len)
  <2>1. /\ crcv' = IF z.size <= Used(z) THEN Resize(z, 2 * z.size) ELSE z
        /\ UNCHANGED <<waiting, results>>
    BY <1>2, <1>8, Zenon
  <2> DEFINE w == crcv'
  <2>2. z \in Stream /\ z.size \in Nat \ {0} /\ Used(z) \in Nat
    BY <1>1, GoodFields
  <2>3. /\ Keeps(z, w) /\ w.rsize = 0 /\ Used(w) < w.size
    <3>1. CASE z.size <= Used(z)
      <4> DEFINE m == 2 * z.size
                 d == Doubled(z.size, m)
      <4>1. m \in Nat /\ m > Used(z)
        BY <1>1, <2>2
      <4>2. w = Resize(z, m)
        BY <2>1, <3>1
      <4> HIDE DEF m, w
      <4>3. Keeps(z, w)
        BY <1>1, <4>1, <4>2, ResizeKeeps
      <4>4. d \in Nat \ {0} /\ d >= m
        BY <2>2, <4>1, DoubledEnough
      <4>5. w = [z EXCEPT !.size = d]
        BY <4>2 DEF Resize
      <4> HIDE DEF d
      <4>6. w.size = d /\ w.rsize = 0 /\ Used(w) = Used(z)
        BY <1>1, <2>2, <4>5 DEF Stream, Used
      <4> QED
        BY <2>2, <4>1, <4>3, <4>4, <4>6 DEF w
    <3>2. CASE ~ (z.size <= Used(z))
      <4>1. w = z
        BY <2>1, <3>2
      <4>2. Used(z) < z.size
        BY <2>2, <3>2
      <4> HIDE DEF w
      <4> QED
        BY <1>1, <4>1, <4>2, KeepsItself
    <3> QED
      BY <3>1, <3>2
  <2>4. ASSUME PatientTo(results, Len(results))
        PROVE  InTurn'
    <3>1. Arrives(b, z, toClient') /\ Left(z) + Len(toClient') = Left(crcv) + Len(toClient)
      BY <1>6, <2>4
    <3> DEFINE y == toClient'
               k == Left(crcv) + Len(toClient)
    <3> HIDE DEF w, y
    <3>2. Arrives(b, w, y) /\ Left(w) = Left(z)
      BY <2>3, <3>1, KeepsArrives DEF Keeps, y
    <3>3. Left(w) + Len(y) = k
      BY <3>1, <3>2 DEF y
    <3>4. link = "up" => Continues(b, sstrm, Left(w) + Len(y))
      BY <1>5, <2>4, <3>3
    <3>5. Len(handled) = asked /\ Len(results) = asked - 1
      BY <1>5, <2>4
    <3>6. ~ (Len(handled) < asked)
      BY <1>4, <3>5
    <3> QED
      BY <1>3, <2>1, <3>2, <3>4, <3>5, <3>6 DEF InTurn, b, w, y
  <2>5. Good(w)
    BY <2>3 DEF Keeps
  <2>6. AnsweredInTurn' /\ ASequence(results')
    BY <1>3, <2>1 DEF AnsweredInTurn, CInv
  <2>7. PatientTo(results', Len(results')) => PatientTo(results, Len(results))
    BY <2>1
  <2> HIDE DEF w
  <2> QED
    BY <1>1, <1>3, <1>4, <2>1, <2>3, <2>4, <2>5, <2>6, <2>7 DEF CInv, w
<1> QED
  BY <1>7, <1>8

\* hander_send: the answer to the call that waits is there to be written.
LEMMA SplitAnswers ==
  ASSUME WellSent, AnswersFit, CountInv, FInv, SInv, CInv, Split, count'.move = 0
  PROVE  CInv'
<1> DEFINE r == script[Len(handled) + 1]
<1>1. link \in {"up", "hung"} /\ UNCHANGED <<script, asked, waiting, crcv, results, toClient>>
  BY SplitTurn DEF Split, client
<1>2. CASE Close
  BY <1>1, <1>2, CloseAnswers
<1>3. CASE UNCHANGED <<link, sstrm, handled>>
  <2>1. Keeps(sstrm, sstrm)
    BY KeepsItself DEF SInv
  <2>2. Keeps(sstrm, sstrm')
    BY <1>3, <2>1
  <2> QED
    BY <1>1, <1>3, <2>2, QuietAnswers
<1>4. CASE /\ Len(handled) < asked /\ link' = link
           /\ handled' = Append(handled, r)
           /\ sstrm' = AnswerSent(sstrm, r)
  <2>1. /\ handled \in Seq(Requests) /\ Len(handled) \in Nat /\ asked \in Nat
        /\ script \in Scripts /\ asked <= Len(script) /\ Len(script) \in Nat
    BY FieldsOfInv DEF FInv
  <2>2. r \in Requests /\ Sendable(r)
    <3>1. Len(handled) + 1 \in 1 .. Len(script)
      BY <1>4, <2>1
    <3> QED
      BY <2>1, <3>1, EndsSteps DEF WellSent
  <2>3. Len(handled') = Len(handled) + 1
    BY <1>4, <2>1, <2>2, AppendProperties
  <2> DEFINE c == AnswerBytes(r)
             z == Write(sstrm, c)
  <2>4. sstrm' = z
    BY <1>4 DEF AnswerSent
  <2>5. ASSUME InTurn, link = "up"
        PROVE  InTurn'
    <3>1. /\ waiting /\ Len(handled) = asked - 1 /\ Left(crcv) = 0 /\ toClient = <<>>
          /\ Left(sstrm) = 0 /\ Len(results) = asked - 1
      <4>1. Len(handled) # asked
        BY <1>4, <2>1
      <4>2. waiting /\ Len(handled) = asked - 1
        BY <2>5, <4>1 DEF InTurn
      <4> QED
        BY <1>4, <2>5, <4>2 DEF InTurn
    <3>2. Len(handled') = asked /\ Len(handled) + 1 = asked
      BY <2>1, <2>3, <3>1
    <3>3. c \in Seq(Byte)
      BY <2>2, AnswerIsBytes
    <3>4. Continues(c, z, 0)
      <4> DEFINE e == <<>>
      <4>1. e \in Seq(Byte) /\ Len(e) = 0 /\ e \o c = c
        BY <3>3, EmptySeq, ConcatEmptySeq
      <4> HIDE DEF e, c
      <4>2. Good(sstrm)
        BY DEF SInv
      <4>3. Continues(e, sstrm, 0)
        BY <3>1, <4>1, <4>2, NothingContinues
      <4>4. Continues(e \o c, z, 0)
        BY <3>3, <4>3, WriteContinues
      <4> QED
        BY <4>1, <4>4
    <3>5. Arrives(c, crcv, toClient) /\ Left(crcv) + Len(toClient) = 0
      <4>1. toClient \in Seq(Byte) /\ Len(toClient) = 0
        BY <3>1, EmptySeq
      <4>2. Good(crcv) /\ crcv.rsize = 0
        BY DEF CInv
      <4> HIDE DEF c
      <4>3. Len(c) \in Nat
        BY <3>3, LenProperties
      <4>4. Left(crcv) + Len(toClient) = 0
        BY <3>1, <4>1
      <4> QED
        BY <3>3, <4>1, <4>2, <4>3, <4>4 DEF Arrives
    <3>6. c = AnswerBytes(script[asked])
      BY <3>2
    <3> HIDE DEF c, z
    <3>7. Arrives(AnswerBytes(script[asked]), crcv, toClient)
      BY <3>5, <3>6
    <3>8. Continues(AnswerBytes(script[asked]), z, Left(crcv) + Len(toClient))
      BY <3>4, <3>5, <3>6
    <3>9. Continues(AnswerBytes(script[asked]), sstrm', Left(crcv) + Len(toClient))
      BY <2>4, <3>8
    <3>10. ~ (Len(handled') < asked)
      BY <2>1, <3>2
    <3> QED
      BY <1>1, <1>4, <3>1, <3>2, <3>7, <3>9, <3>10 DEF InTurn
  <2>6. UNCHANGED <<AnsweredInTurn, PatientTo(results, Len(results))>>
    BY <1>1 DEF AnsweredInTurn
  <2>7. link' = link /\ UNCHANGED <<waiting, crcv, results, toClient>>
    BY <1>1, <1>4
  <2>8. link = "up" \/ link = "hung"
    BY <1>1
  <2> QED
    BY <2>5, <2>6, <2>7, <2>8 DEF CInv
<1>5. Answer(r) => sstrm' = AnswerSent(sstrm, r)
  <2> HIDE DEF r
  <2> QED
    BY NotMoved
<1> QED
  BY <1>2, <1>3, <1>4, <1>5, SplitTurn

\* handler_on_write: what is written is the next part of the answer.
LEMMA WriteAnswers ==
  ASSUME FInv, SInv, CInv, WriteSome
  PROVE  CInv'
<1>1. /\ link = "up"
      /\ UNCHANGED <<script, asked, waiting, crcv, results, link, handled>>
  BY DEF WriteSome, client
<1>2. PICK n \in 0 .. Used(sstrm) - sstrm.rsize :
         /\ toClient' = toClient \o At(sstrm, sstrm.rsize, n)
         /\ sstrm' = Move([sstrm EXCEPT !.rsize = @ + n])
  BY DEF WriteSome
<1> DEFINE u == sstrm
           y == Advance(u, n)
           z == sstrm'
           x == At(u, u.rsize, n)
           b == AnswerBytes(script[asked])
           k == Left(crcv) + Len(toClient)
<1>3. n \in 0 .. Left(u) /\ z = Move(y) /\ toClient' = toClient \o x
  BY <1>2 DEF Left, Advance
<1>4. Continues(Said, u, put)
  BY <1>1 DEF SInv
<1>5. /\ Good(y) /\ Left(y) = Left(u) - n /\ x \in Seq(Byte) /\ Len(x) = n
      /\ Left(u) \in Nat /\ n \in Nat
  <2> DEFINE s == Said
             p == put
  <2> HIDE DEF s, u, p
  <2>1. Continues(s, u, p)
    BY <1>4 DEF s, u, p
  <2>2. /\ Continues(s, Advance(u, n), p + n)
        /\ At(u, u.rsize, n) \in Seq(Byte) /\ Len(At(u, u.rsize, n)) = n
    BY <1>3, <2>1, AdvanceContinues
  <2>3. Good(u) /\ p \in Nat /\ p + Left(u) = Len(s) /\ s \in Seq(Byte)
    BY <2>1 DEF Continues
  <2>4. Good(y) /\ (p + n) + Left(y) = Len(s)
    BY <2>2 DEF Continues
  <2>5. Left(u) \in Nat /\ Left(y) \in Nat /\ Len(s) \in Nat
    BY <2>3, <2>4, GoodFields, LenProperties
  <2>6. n \in Nat
    BY <1>3, <2>5
  <2> HIDE DEF y
  <2>7. Left(y) = Left(u) - n
    BY <2>3, <2>4, <2>5, <2>6
  <2> QED
    BY <2>2, <2>4, <2>5, <2>6, <2>7
<1>6. Keeps(y, z)
  <2> HIDE DEF y, z
  <2> QED
    BY <1>3, <1>5, MoveKeeps
<1>7. toClient' \in Seq(Byte)
  <2> HIDE DEF x
  <2> QED
    BY <1>3, <1>5, ConcatProperties DEF CInv
<1>8. ASSUME InTurn
      PROVE  InTurn'
  <2>1. CASE ~ waiting \/ Len(handled) < asked
    <3>1. Left(crcv) = 0 /\ toClient = <<>> /\ Left(u) = 0
      BY <1>1, <1>8, <2>1 DEF InTurn
    <3> HIDE DEF u, x, y, z
    <3>2. n = 0 /\ Left(y) = 0
      <4> DEFINE l == Left(u)
                 ly == Left(y)
      <4>1. n \in 0 .. l /\ l = 0 /\ n \in Nat /\ ly = l - n
        BY <1>3, <1>5, <3>1, Zenon
      <4> HIDE DEF l, ly
      <4>2. n \in 0 .. 0
        BY <4>1, Zenon
      <4>3. n = 0
        BY <4>2
      <4>4. ly = 0 - 0
        BY <4>1, <4>3, Zenon
      <4> QED
        BY <4>3, <4>4 DEF ly
    <3>3. Left(z) = 0
      BY <1>6, <3>2 DEF Keeps
    <3>4. x = <<>>
      BY <1>5, <3>2, EmptySeq
    <3>5. toClient' = <<>>
      BY <1>3, <3>1, <3>4
    <3>6. ~ (waiting /\ Len(handled) = asked)
      <4>1. Len(handled) \in Nat /\ asked \in Nat
        BY LenProperties DEF FInv
      <4> QED
        BY <2>1, <4>1
    <3> QED
      BY <1>1, <1>8, <3>1, <3>3, <3>5, <3>6 DEF InTurn, z
  <2>2. CASE ~ (~ waiting \/ Len(handled) < asked)
    <3>1. waiting /\ Len(handled) = asked
      <4>1. Len(handled) \in Nat /\ asked \in Nat /\ Len(handled) <= asked
        BY LenProperties DEF FInv
      <4> QED
        BY <2>2, <4>1
    <3>2. Arrives(b, crcv, toClient) /\ Continues(b, u, k)
      BY <1>1, <1>8, <3>1 DEF InTurn
    <3> DEFINE c == crcv
               t == toClient
               v == toClient'
    <3> HIDE DEF b, u, c, t, v
    <3>3. Arrives(b, c, t) /\ Continues(b, u, Left(c) + Len(t))
      BY <3>2 DEF c, t
    <3>4. v = t \o At(u, u.rsize, n)
      BY <1>3 DEF v, t
    <3>5. Arrives(b, c, v) /\ Len(v) = Len(t) + n
      <4>1. n \in 0 .. Left(u)
        BY <1>3, Zenon
      <4>2. Arrives(b, c, t \o At(u, u.rsize, n)) /\ Len(t \o At(u, u.rsize, n)) = Len(t) + n
        <5> HIDE DEF x, y, z, k
        <5>1. \A m \in 0 .. Left(u) : /\ Arrives(b, c, t \o At(u, u.rsize, m))
                                      /\ Len(t \o At(u, u.rsize, m)) = Len(t) + m
          <6> TAKE m \in 0 .. Left(u)
          <6> QED
            BY <3>3, PassArrives
        <5> QED
          BY <4>1, <5>1, Zenon
      <4> QED
        BY <3>4, <4>2, Zenon
    <3>6. Continues(b, Advance(u, n), (Left(c) + Len(t)) + n)
      BY <1>3, <3>3, AdvanceContinues
    <3>7. Continues(b, z, (Left(c) + Len(t)) + n)
      <4> HIDE DEF z
      <4> QED
        BY <1>6, <3>6, KeepsContinues
    <3>8. (Left(c) + Len(t)) + n = Left(c) + Len(v)
      <4>1. Good(c) /\ t \in Seq(Byte)
        BY <3>3 DEF Arrives
      <4>2. Left(c) \in Nat /\ Len(t) \in Nat
        BY <4>1, GoodFields, LenProperties
      <4> QED
        BY <1>5, <3>5, <4>2
    <3>9. Continues(b, z, Left(c) + Len(v))
      BY <3>7, <3>8, Zenon
    <3> HIDE DEF z
    <3> QED
      BY <1>1, <1>8, <2>2, <3>1, <3>5, <3>9 DEF InTurn, b, c, v, z
  <2> QED
    BY <2>1, <2>2
<1>9. UNCHANGED <<AnsweredInTurn, PatientTo(results, Len(results))>>
  BY <1>1 DEF AnsweredInTurn
<1> HIDE DEF x, y, z
<1> QED
  BY <1>1, <1>7, <1>8, <1>9 DEF CInv

LEMMA NextAnswers ==
  ASSUME WellSent, AnswersFit, CountInv, FInv, SInv, CInv, [Next]_vars,
         count'.answer = 0, count'.move = 0
  PROVE  CInv'
<1>0. Good(sstrm) /\ Keeps(sstrm, sstrm)
  BY KeepsItself DEF SInv
<1>1. ASSUME UNCHANGED <<client, handled, toClient, link, sstrm>>
      PROVE  CInv'
  <2>1. Keeps(sstrm, sstrm')
    BY <1>0, <1>1
  <2> QED
    BY <1>1, <2>1, QuietAnswers DEF client
<1>2. CASE UNCHANGED vars
  BY <1>1, <1>2 DEF vars, server
<1>3. CASE Send
  BY <1>3, SendAnswers
<1>4. CASE Recv
  BY <1>4, RecvAnswers
<1>5. CASE GiveUp
  BY <1>5, GiveUpAnswers
<1>6. CASE HangUp
  BY <1>6, HangUpAnswers
<1>7. CASE Connect
  BY <1>7, ConnectAnswers
<1>8. CASE Event
  BY <1>1, <1>8 DEF Event
<1>9. CASE Read
  BY <1>1, <1>9 DEF Read
<1>10. CASE Drained
  <2>1. sstrm' = Move(sstrm) /\ UNCHANGED <<client, handled, toClient, link>>
    BY <1>10 DEF Drained, CheckWrite
  <2>2. Keeps(sstrm, sstrm')
    BY <1>0, <2>1, MoveKeeps
  <2> QED
    BY <2>1, <2>2, QuietAnswers DEF client
<1>11. CASE ReadEnd
  BY <1>11, CloseAnswers DEF ReadEnd, client
<1>12. CASE Split
  BY <1>12, SplitAnswers
<1>13. CASE WriteSome
  BY <1>13, WriteAnswers
<1>14. CASE WriteEnd
  BY <1>14, CloseAnswers DEF WriteEnd, client
<1> QED
  BY <1>2, <1>3, <1>4, <1>5, <1>6, <1>7, <1>8, <1>9, <1>10, <1>11, <1>12, <1>13, <1>14
     DEF Next, Serve

LEMMA WellStep ==
  ASSUME WellSent, AnswersFit, CountInv /\ (count.request = 0 => FInv),
         AllWell => SInv /\ CInv, [Next]_vars, AllWell'
  PROVE  FInv /\ SInv /\ CInv /\ SInv' /\ CInv'
<1>1. CountInv /\ FInv /\ SInv /\ CInv /\ count'.move = 0 /\ count'.answer = 0
  BY WellBefore DEF AllWell, ServerWell
<1> QED
  BY <1>1, NextSays, NextAnswers

\* Until the client gives up, every call returns success and what the server has
\* answered to this very request, however else requests and answers are cut and
\* the streams grown, until an end reads a length from 1 to 3 bytes or realloc
\* moves a stream (send_packet, recv_packet, process_ack, rpc_get_meta,
\* hander_send, handler_on_write).
THEOREM CallsAnsweredInTurn ==
  ASSUME WellSent, AnswersFit
  PROVE  Spec => [](AllWell => AnsweredInTurn)
<1> DEFINE I == CountInv /\ (count.request = 0 => FInv)
           J == AllWell => SInv /\ CInv
<1>1. Init => J
  BY SInvInit, CInvInit
<1>2. I /\ J /\ [Next]_vars => J'
  BY WellStep
<1>3. J => (AllWell => AnsweredInTurn)
  BY DEF CInv
<1>4. Spec => []I
  BY FInvariance
<1> HIDE DEF I, J
<1> QED
  BY <1>1, <1>2, <1>3, <1>4, PTL DEF Spec

\* A client that has not used up a time-out was told of one only by the end of
\* its connection.
GaveUpLast ==
    count.timeout = 0 =>
        \A i \in 1 .. Len(results) :
            results[i].how = "timeout" => i = Len(results) /\ link = "closed"

LEMMA GaveUpInit ==
  ASSUME Init
  PROVE  GaveUpLast
<1>1. results = <<>>
  BY DEF Init
<1>2. Len(results) = 0 /\ \A i \in 1 .. 0 : FALSE
  BY <1>1, EmptySeq
<1> QED
  BY <1>2 DEF GaveUpLast

LEMMA JudgedNotLate ==
  ASSUME NEW r, NEW s
  PROVE  Judge(r, s).how # "timeout"
  BY DEF Judge, Result

\* A call returns on a connection that is open.
LEMMA ReturnGaveUp ==
  ASSUME FInv, CInv, GaveUpLast, waiting, NEW x, Return(x),
         count'.timeout = 0 =>
            count.timeout = 0 /\ (x.how = "timeout" => link' = "closed")
  PROVE  GaveUpLast'
<1> SUFFICES ASSUME count'.timeout = 0
             PROVE  \A i \in 1 .. Len(results') :
                       results'[i].how = "timeout" => i = Len(results') /\ link' = "closed"
  BY DEF GaveUpLast
<1>1. link # "closed" /\ ASequence(results) /\ Len(results) \in Nat
  BY DEF CInv, ASequence
<1> DEFINE n == Len(results)
           y == results'
<1>2. y = Append(results, x)
  BY DEF Return
<1>3. Len(y) = n + 1 /\ y[n + 1] = x /\ \A i \in 1 .. n : y[i] = results[i]
  <2>1. /\ Len(Append(results, x)) = Len(results) + 1
        /\ Append(results, x)[Len(results) + 1] = x
        /\ \A i \in 1 .. Len(results) : Append(results, x)[i] = results[i]
    <3> DEFINE rs == results
    <3>1. ASequence(rs)
      BY <1>1
    <3> HIDE DEF n, y, rs
    <3>2. /\ Len(Append(rs, x)) = Len(rs) + 1 /\ Append(rs, x)[Len(rs) + 1] = x
          /\ \A i \in 1 .. Len(rs) : Append(rs, x)[i] = rs[i]
      BY <3>1, OneMoreResult
    <3> QED
      BY <3>2, Zenon DEF rs
  <2> QED
    BY <1>2, <2>1, Zenon
<1>4. \A i \in 1 .. n : results[i].how # "timeout"
  BY <1>1 DEF GaveUpLast
<1>5. n \in Nat
  BY <1>1
<1> HIDE DEF n, y
<1>6. \A i \in 1 .. Len(y) : y[i].how = "timeout" => i = n + 1
  <2> SUFFICES ASSUME NEW i \in 1 .. Len(y), y[i].how = "timeout", i # n + 1
               PROVE  FALSE
    OBVIOUS
  <2>1. i \in 1 .. n
    BY <1>3, <1>5
  <2> QED
    BY <1>3, <1>4, <2>1
<1>7. \A i \in 1 .. Len(y) : y[i].how = "timeout" => i = Len(y) /\ link' = "closed"
  BY <1>3, <1>6
<1> QED
  BY <1>7 DEF y

LEMMA NextGaveUp ==
  ASSUME CountInv, FInv, CInv, GaveUpLast, [Next]_vars
  PROVE  GaveUpLast'
<1>0. count'.timeout = 0 => count.timeout = 0
  <2>1. count["timeout"] <= count'["timeout"] /\ count["timeout"] \in Nat
    BY NextCounts DEF CountInv, Bounds
  <2> QED
    BY <2>1
<1>1. ASSUME UNCHANGED results, link = "closed" => link' = "closed"
      PROVE  GaveUpLast'
  BY <1>0, <1>1 DEF GaveUpLast
<1>2. CASE UNCHANGED vars
  BY <1>1, <1>2 DEF vars, client
<1>3. CASE Send
  BY <1>1, <1>3 DEF Send
<1>4. CASE Recv
  <2>1. waiting /\ UNCHANGED link
    BY <1>4 DEF Recv
  <2>2. UNCHANGED results \/ \E s : Return(Judge(script[asked], s))
    BY <1>4, Zenon DEF Recv
  <2>3. CASE UNCHANGED results
    BY <1>1, <2>1, <2>3
  <2>4. CASE \E s : Return(Judge(script[asked], s))
    <3>1. PICK s : Return(Judge(script[asked], s))
      BY <2>4
    <3> DEFINE x == Judge(script[asked], s)
    <3>2. Return(x) /\ x.how # "timeout"
      BY <3>1, JudgedNotLate
    <3> HIDE DEF x
    <3> QED
      BY <1>0, <2>1, <3>2, ReturnGaveUp
  <2> QED
    BY <2>2, <2>3, <2>4
<1>5. CASE GiveUp
  <2> DEFINE x == Result("timeout", NoMsg)
  <2>1. /\ waiting /\ Return(x)
        /\ \/ link' = "closed" /\ UNCHANGED count
           \/ Use("timeout")
    BY <1>5 DEF GiveUp
  <2>2. Use("timeout") => count'["timeout"] > 0
    BY UseCounts DEF Bounds
  <2>3. count'.timeout = 0 => count.timeout = 0 /\ link' = "closed"
    BY <1>0, <2>1, <2>2
  <2> HIDE DEF x
  <2> QED
    BY <2>1, <2>3, ReturnGaveUp
<1>6. CASE HangUp
  BY <1>1, <1>6 DEF HangUp
<1>7. CASE Connect
  <2>1. results' = <<>>
    BY <1>7 DEF Connect
  <2>2. Len(results') = 0 /\ \A i \in 1 .. 0 : FALSE
    BY <2>1, EmptySeq
  <2> QED
    BY <2>1, <2>2 DEF GaveUpLast
<1>8. CASE Event
  BY <1>1, <1>8 DEF Event, client
<1>9. CASE Read
  BY <1>1, <1>9 DEF Read, client
<1>10. CASE Drained
  BY <1>1, <1>10 DEF Drained, client
<1>11. CASE ReadEnd
  BY <1>1, <1>11 DEF ReadEnd, Close, client
<1>12. CASE Split
  BY <1>1, <1>12 DEF Split, Close, client
<1>13. CASE WriteSome
  BY <1>1, <1>13 DEF WriteSome, client
<1>14. CASE WriteEnd
  BY <1>1, <1>14 DEF WriteEnd, Close, client
<1> QED
  BY <1>2, <1>3, <1>4, <1>5, <1>6, <1>7, <1>8, <1>9, <1>10, <1>11, <1>12, <1>13, <1>14
     DEF Next, Serve

LEMMA PatientAccepts ==
  ASSUME ASequence(results), AnsweredInTurn, GaveUpLast, count.timeout = 0
  PROVE  AcceptedIsMine
<1>1. Len(results) \in Nat /\ DOMAIN results = 1 .. Len(results)
  BY DEF ASequence
<1> SUFFICES ASSUME NEW i \in 1 .. Len(results), results[i].how = "succ"
             PROVE  results[i].msg = AnswerTo(script[i])
  BY <1>1 DEF AcceptedIsMine
<1>2. PatientTo(results, i)
  <2> SUFFICES ASSUME NEW j \in 1 .. i, results[j].how = "timeout"
               PROVE  FALSE
    BY DEF PatientTo
  <2>1. j \in 1 .. Len(results)
    BY <1>1
  <2>2. j = Len(results)
    BY <2>1 DEF GaveUpLast
  <2>3. j = i
    <3> DEFINE l == Len(results)
    <3>1. l \in Nat /\ i \in 1 .. l /\ j \in 1 .. i /\ j = l
      BY <1>1, <2>2, Zenon
    <3> HIDE DEF l
    <3> QED
      BY <3>1
  <2> QED
    BY <2>3
<1>3. results[i] = Result("succ", AnswerTo(script[i]))
  BY <1>2 DEF AnsweredInTurn, Mine
<1> QED
  BY <1>3 DEF Result

\* As long as the client has never waited too long, what a call accepts is the
\* answer to its own request, on this connection and on those after it, also
\* when the server drops one (recv_packet, process_ack, rpc_get_meta); until an
\* end reads a length from 1 to 3 bytes or realloc moves a stream.
THEOREM PatientClientAccepts ==
  ASSUME WellSent, AnswersFit
  PROVE  Spec => [](AllWell /\ count.timeout = 0 => AcceptedIsMine)
<1> DEFINE I == CountInv /\ (count.request = 0 => FInv)
           J == AllWell => SInv /\ CInv
           G == AllWell => GaveUpLast
<1>1. Init => J /\ G
  BY SInvInit, CInvInit, GaveUpInit
<1>2. I /\ J /\ [Next]_vars => J'
  BY WellStep
<1>3. I /\ J /\ G /\ [Next]_vars => G'
  BY WellStep, WellBefore, NextGaveUp
<1>4. J /\ G => (AllWell /\ count.timeout = 0 => AcceptedIsMine)
  BY PatientAccepts DEF CInv
<1>5. Spec => []I
  BY FInvariance
<1> HIDE DEF I, J, G
<1> QED
  BY <1>1, <1>2, <1>3, <1>4, <1>5, PTL DEF Spec
===============================================================================
