--------------------------- MODULE EosBytesProofs ---------------------------
(***************************************************************************)
(* Theorems about EosBytes, for every transaction of the host that fits    *)
(* what a uint16_t counts: its types, that a varint is read back as it was *)
(* written, that every call starts and stops where an action does, and     *)
(* that the parser implements ParseLoop on the bytes.                      *)
(***************************************************************************)
EXTENDS EosBytes, DataProofs

-----------------------------------------------------------------------------
(***************************************************************************)
(* varint_encode: seven bits of the number to a byte, the last one below   *)
(* 128 (eos_varint.c:58).                                                  *)
(***************************************************************************)
Codes(f, n) ==
    f = [k \in 0..n |-> IF More(k) THEN <<128 + (k % 128)>> \o f[k \div 128] ELSE <<k % 256>>]

LEMMA CodesAt ==
    ASSUME NEW f, NEW n \in Nat, Codes(f, n), NEW k \in 0..n
    PROVE  f[k] = IF More(k) THEN <<128 + (k % 128)>> \o f[k \div 128] ELSE <<k % 256>>
BY DEF Codes

LEMMA CodesExist ==
    ASSUME NEW n \in Nat
    PROVE  \E f : Codes(f, n)
<1> DEFINE S == {m \in Nat : \E f : Codes(f, m)}
           Next(f, k) == IF More(k) THEN <<128 + (k % 128)>> \o f[k \div 128] ELSE <<k % 256>>
<1>1. \A k \in Nat : More(k) => k >= 128 /\ k \div 128 \in 0..(k - 1)
  BY CharAssumption DEF More
<1>2. 0 \in S
  <2> DEFINE f == [k \in 0..0 |-> <<k % 256>>]
  <2>1. \A k \in 0..0 : ~More(k)
    BY <1>1
  <2>2. Codes(f, 0)
    BY <2>1 DEF Codes
  <2> HIDE DEF f
  <2> QED
    BY <2>2
<1>3. ASSUME NEW m \in Nat, m \in S
      PROVE  m + 1 \in S
  <2>1. PICK f : Codes(f, m)
    BY <1>3
  <2> DEFINE o == m + 1
             x == Next(f, o)
             g == [k \in 0..o |-> IF k = o THEN x ELSE f[k]]
  <2>2. o \in Nat /\ \A k \in 0..o : k = o \/ k \in 0..m
    OBVIOUS
  <2>3. /\ \A k \in 0..m : g[k] = f[k]
        /\ g[o] = x
        /\ g = [k \in 0..o |-> g[k]]
    OBVIOUS
  <2> HIDE DEF o, g
  <2>4. ASSUME NEW k \in 0..o
        PROVE  g[k] = Next(g, k)
    <3>1. More(k) => g[k \div 128] = f[k \div 128]
      <4> SUFFICES ASSUME More(k)
                   PROVE  g[k \div 128] = f[k \div 128]
        OBVIOUS
      <4>1. k \in Nat
        BY <2>2
      <4>2. k \div 128 \in 0..(k - 1)
        BY <1>1, <4>1
      <4> DEFINE h == k \div 128
      <4>3. h \in 0..(k - 1)
        BY <4>2
      <4> HIDE DEF h
      <4>4. h \in 0..m
        BY <2>2, <4>1, <4>3 DEF o
      <4> QED
        BY <2>3, <4>4 DEF h
    <3>2. CASE k = o
      BY <2>3, <3>1, <3>2
    <3>3. CASE k # o
      <4>1. k \in 0..m
        BY <2>2, <3>3
      <4>2. f[k] = Next(f, k)
        BY <2>1, <4>1, CodesAt
      <4> QED
        BY <2>3, <3>1, <4>1, <4>2
    <3> QED
      BY <3>2, <3>3
  <2>5. g = [k \in 0..o |-> Next(g, k)]
    <3> HIDE DEF Next
    <3> QED
      BY <2>3, <2>4
  <2>6. Codes(g, o)
    BY <2>5 DEF Codes
  <2> QED
    BY <2>2, <2>6 DEF o
<1> HIDE DEF S
<1>4. Nat \subseteq S
  BY <1>2, <1>3, SetInduction
<1>5. n \in S
  BY <1>4
<1> QED
  BY <1>5 DEF S

\* The bytes of a number: all but the last say that more follow, and each has
\* seven bits of it.
IsCode(s, k) ==
    /\ s \in Seq(0..255) /\ Len(s) \in Nat \ {0}
    /\ k < Power(128, Len(s)) /\ (Len(s) > 1 => k >= Power(128, Len(s) - 1))
    /\ \A e \in 1..Len(s) : (s[e] < 128 <=> e = Len(s))
    /\ \A e \in 1..Len(s) : s[e] % 128 = (k \div Power(128, e - 1)) % 128

LEMMA CodeOfOne ==
    ASSUME NEW k \in 0..127
    PROVE  IsCode(<<k % 256>>, k)
<1> DEFINE s == <<k % 256>>
<1>1. k % 256 = k /\ k % 128 = k /\ k \div 1 = k
  OBVIOUS
<1>2. s \in Seq(0..255) /\ Len(s) = 1 /\ s[1] = k
  BY <1>1
<1>3. Power(128, 0) = 1 /\ Power(128, 0 + 1) = 128 * Power(128, 0)
  <2>1. 128 \in Nat /\ 0 \in Nat
    OBVIOUS
  <2> QED
    BY <2>1, PowerNext
<1>4. Power(128, 1) = 128 /\ 1 - 1 = 0 /\ 1..1 = {1}
  BY <1>3
<1> HIDE DEF s
<1>5. /\ s[1] < 128 /\ s[1] % 128 = (k \div Power(128, 1 - 1)) % 128 /\ k < Power(128, 1)
  BY <1>1, <1>2, <1>3, <1>4
<1>6. s \in Seq(0..255) /\ Len(s) \in Nat \ {0} /\ ~(Len(s) > 1)
  BY <1>2
<1>7. \A e \in 1..Len(s) : e = 1
  BY <1>2
<1> QED
  BY <1>2, <1>5, <1>6, <1>7 DEF IsCode, s

LEMMA CodeOfMore ==
    ASSUME NEW k \in Nat, k >= 128, NEW s, IsCode(s, k \div 128)
    PROVE  IsCode(<<128 + (k % 128)>> \o s, k)
<1> DEFINE q == k \div 128
           d == k % 128
           m == Len(s)
           first == <<128 + d>>
           t == first \o s
           B == 0..255
<1>1. q \in Nat \ {0} /\ d \in 0..127 /\ k = q * 128 + d
  OBVIOUS
<1>2. /\ s \in Seq(B) /\ m \in Nat \ {0}
      /\ q < Power(128, m) /\ (m > 1 => q >= Power(128, m - 1))
      /\ \A e \in 1..m : (s[e] < 128 <=> e = m)
      /\ \A e \in 1..m : s[e] % 128 = (q \div Power(128, e - 1)) % 128
  BY DEF IsCode
<1> HIDE DEF B, m
<1>3. first \in Seq(B) /\ Len(first) = 1 /\ first[1] = 128 + d
  <2>1. 128 + d \in B
    BY <1>1 DEF B
  <2> HIDE DEF d
  <2> QED
    BY <2>1
<1> HIDE DEF q, d, first
<1>4. /\ t \in Seq(B) /\ Len(t) = m + 1
      /\ t[1] = 128 + d
      /\ \A e \in 1..m : t[1 + e] = s[e]
  <2>1. /\ t \in Seq(B) /\ Len(t) = Len(first) + Len(s)
        /\ \A e \in 1..Len(first) : t[e] = first[e]
        /\ \A e \in 1..Len(s) : t[Len(first) + e] = s[e]
    <3>1. first \in Seq(B) /\ s \in Seq(B)
      BY <1>2, <1>3
    <3> QED
      BY <3>1, Joined
  <2> HIDE DEF t
  <2> QED
    BY <1>2, <1>3, <2>1 DEF m
<1> HIDE DEF t
<1>5. \A e \in Nat : Power(128, e) \in Nat \ {0} /\ Power(128, e + 1) = 128 * Power(128, e)
  <2>1. 128 \in Nat \ {0} /\ 128 \in Nat
    OBVIOUS
  <2> QED
    BY <2>1, PowerNext, PowerPositive
<1>6. Power(128, 0) = 1
  <2>1. 128 \in Nat /\ 0 \in Nat
    OBVIOUS
  <2> QED
    BY <2>1, PowerNext
<1>7. k < Power(128, m + 1)
  <2> DEFINE p == Power(128, m)
             r == Power(128, m + 1)
  <2>1. r = 128 * p /\ p \in Nat /\ q < p
    BY <1>2, <1>5
  <2> HIDE DEF p, r
  <2>2. k < r
    BY <1>1, <2>1
  <2> QED
    BY <2>2 DEF r
<1>8. k >= Power(128, m)
  <2>1. CASE m = 1
    <3>1. Power(128, 0 + 1) = 128 * Power(128, 0) /\ 0 + 1 = 1
      BY <1>5
    <3>2. Power(128, 1) = 128
      BY <1>6, <3>1
    <3> QED
      BY <2>1, <3>2
  <2>2. CASE m # 1
    <3> DEFINE h == m - 1
               p == Power(128, h)
               r == Power(128, h + 1)
    <3>1. h \in Nat /\ h + 1 = m /\ m > 1
      BY <1>2, <2>2
    <3> HIDE DEF h
    <3>2. r = 128 * p /\ p \in Nat
      BY <1>5, <3>1
    <3>3. q >= p
      BY <1>2, <3>1 DEF h
    <3> HIDE DEF p, r
    <3>4. k >= r
      BY <1>1, <3>2, <3>3
    <3> QED
      BY <3>1, <3>4 DEF r
  <2> QED
    BY <2>1, <2>2
<1>9. ASSUME NEW e \in 1..(m + 1)
      PROVE  /\ t[e] < 128 <=> e = m + 1
             /\ t[e] % 128 = (k \div Power(128, e - 1)) % 128
  <2>1. CASE e = 1
    <3>1. t[e] = 128 + d /\ e - 1 = 0 /\ e # m + 1
      BY <1>2, <1>4, <2>1
    <3>2. (128 + d) % 128 = d /\ ~(128 + d < 128) /\ k \div 1 = k /\ k % 128 = d
      BY <1>1 DEF d
    <3> QED
      BY <1>6, <3>1, <3>2
  <2>2. CASE e # 1
    <3> DEFINE h == e - 1
               g == h - 1
               p == Power(128, g)
               r == Power(128, h)
    <3>1. h \in 1..m /\ e = 1 + h /\ g \in Nat /\ g + 1 = h
      BY <1>2, <2>2
    <3>2. t[e] = s[h] /\ (e = m + 1 <=> h = m)
      BY <1>2, <1>4, <3>1
    <3> HIDE DEF g
    <3>3. r = 128 * p /\ p \in Nat \ {0}
      BY <1>5, <3>1
    <3>4. s[h] % 128 = (q \div p) % 128 /\ (s[h] < 128 <=> h = m)
      BY <1>2, <3>1 DEF g
    <3> HIDE DEF p, r
    <3>5. q \div p = k \div (128 * p)
      <4>1. 128 \in Nat \ {0} /\ p \in Nat \ {0} /\ k \in Nat
        BY <3>3
      <4> QED
        BY <4>1, DividedTwice DEF q
    <3> QED
      BY <3>2, <3>3, <3>4, <3>5 DEF r, h
  <2> QED
    BY <2>1, <2>2
<1>10. Len(t) \in Nat \ {0} /\ Len(t) - 1 = m
  BY <1>2, <1>4
<1> QED
  BY <1>4, <1>7, <1>8, <1>9, <1>10 DEF IsCode, t, first, B, d

(***************************************************************************)
(* varint_encode writes bytes, and where char is signed they are the code  *)
(* of the number.                                                          *)
(***************************************************************************)
IsWritten(s, k) == s \in Seq(0..255) /\ (CHAR_SIGNED => IsCode(s, k))

LEMMA WrittenLast ==
    ASSUME NEW k \in Nat, ~More(k)
    PROVE  IsWritten(<<k % 256>>, k)
<1>1. <<k % 256>> \in Seq(0..255)
  OBVIOUS
<1>2. ASSUME CHAR_SIGNED
      PROVE  IsCode(<<k % 256>>, k)
  <2>1. k \in 0..127
    BY <1>2 DEF More
  <2> QED
    BY <2>1, CodeOfOne
<1> QED
  BY <1>1, <1>2 DEF IsWritten

LEMMA WrittenFirst ==
    ASSUME NEW k \in Nat, More(k), NEW s, IsWritten(s, k \div 128)
    PROVE  IsWritten(<<128 + (k % 128)>> \o s, k)
<1> DEFINE B == 0..255
           first == <<128 + (k % 128)>>
<1>1. first \in Seq(B)
  OBVIOUS
<1>2. s \in Seq(B)
  BY DEF IsWritten
<1> HIDE DEF B, first
<1>3. first \o s \in Seq(B)
  BY <1>1, <1>2, Joined
<1>4. ASSUME CHAR_SIGNED
      PROVE  IsCode(first \o s, k)
  <2>1. k >= 128
    BY <1>4 DEF More
  <2>2. IsCode(s, k \div 128)
    BY <1>4 DEF IsWritten
  <2> QED
    BY <2>1, <2>2, CodeOfMore DEF first
<1> QED
  BY <1>3, <1>4 DEF IsWritten, B, first

LEMMA EncodeIsWritten ==
    ASSUME NEW v \in Nat
    PROVE  IsWritten(Encode(v), v)
<1> DEFINE f == CHOOSE f : Codes(f, v)
<1>1. Codes(f, v)
  BY CodesExist
<1>2. Encode(v) = f[v]
  BY DEF Encode, Codes
<1> HIDE DEF f
<1> DEFINE S == {n \in Nat : \A k \in 0..n : k <= v => IsWritten(f[k], k)}
<1>3. \A k \in Nat : More(k) => k >= 128
  BY CharAssumption DEF More
<1>4. ASSUME NEW k \in 0..v, \A h \in 0..v : h < k => IsWritten(f[h], h)
      PROVE  IsWritten(f[k], k)
  <2>1. f[k] = IF More(k) THEN <<128 + (k % 128)>> \o f[k \div 128] ELSE <<k % 256>>
    BY <1>1, CodesAt
  <2>2. CASE More(k)
    <3> DEFINE h == k \div 128
    <3>1. h \in 0..v /\ h < k /\ k \in Nat
      BY <1>3, <2>2
    <3> HIDE DEF h
    <3>2. IsWritten(f[h], h)
      BY <1>4, <3>1
    <3>3. IsWritten(<<128 + (k % 128)>> \o f[h], k)
      BY <2>2, <3>1, <3>2, WrittenFirst DEF h
    <3> QED
      BY <2>1, <2>2, <3>3 DEF h
  <2>3. CASE ~More(k)
    <3>1. k \in Nat
      OBVIOUS
    <3> QED
      BY <2>1, <2>3, <3>1, WrittenLast
  <2> QED
    BY <2>2, <2>3
<1>5. 0 \in S
  <2>1. IsWritten(f[0], 0)
    BY <1>4
  <2> QED
    BY <2>1
<1>6. ASSUME NEW n \in Nat, n \in S
      PROVE  n + 1 \in S
  <2> SUFFICES ASSUME NEW k \in 0..(n + 1), k <= v
               PROVE  IsWritten(f[k], k)
    OBVIOUS
  <2>1. \A h \in 0..v : h < k => IsWritten(f[h], h)
    BY <1>6
  <2> QED
    BY <1>4, <2>1
<1> HIDE DEF S
<1>7. Nat \subseteq S
  BY <1>5, <1>6, SetInduction
<1>8. v \in S
  BY <1>7
<1> QED
  BY <1>2, <1>8 DEF S

-----------------------------------------------------------------------------
(***************************************************************************)
(* varint_decode reads a code back, wherever it stands (eos_varint.c:70).  *)
(***************************************************************************)
\* The code s stands at a position of some bytes.
Stands(s, bytes, at) ==
    /\ Len(bytes) \in Nat /\ Len(s) <= Len(bytes)
    /\ \A e \in 1..Len(s) : ByteAt(bytes, at + e - 1) = s[e]

LEMMA BytesOfCode ==
    ASSUME NEW v \in Nat, NEW s, IsCode(s, v), NEW bytes, NEW at \in Nat, Stands(s, bytes, at)
    PROVE  Bytes(bytes, at) = Len(s)
<1> DEFINE n == Len(s)
           N == Len(bytes)
           b(e) == ByteAt(bytes, at + e - 1)
           Ends(k) == b(k) < 128 /\ \A j \in 1..(k - 1) : b(j) >= 128
<1>1. n \in Nat \ {0} /\ N \in Nat /\ n <= N
  BY DEF IsCode, Stands
<1>2. \A e \in 1..n : (b(e) < 128 <=> e = n) /\ b(e) \in 0..255
  <2>1. \A e \in 1..n : b(e) = s[e]
    BY DEF Stands
  <2>2. \A e \in 1..n : s[e] \in 0..255
    <3> DEFINE B == 0..255
    <3>1. s \in Seq(B)
      BY DEF IsCode
    <3> HIDE DEF B
    <3>2. \A e \in 1..Len(s) : s[e] \in B
      BY <3>1
    <3> QED
      BY <3>2 DEF B
  <2>3. \A e \in 1..n : (s[e] < 128 <=> e = n)
    BY DEF IsCode
  <2> HIDE DEF b, n
  <2> QED
    BY <2>1, <2>2, <2>3
<1>3. Bytes(bytes, at) = CHOOSE k \in 1..(N + 1) : Ends(k)
  BY DEF Bytes
<1> HIDE DEF n, N, b
<1>4. n \in 1..(N + 1) /\ Ends(n)
  BY <1>1, <1>2
<1>5. \A k \in 1..(N + 1) : Ends(k) => k = n
  <2> SUFFICES ASSUME NEW k \in 1..(N + 1), Ends(k)
               PROVE  k = n
    OBVIOUS
  <2>1. ~(k < n)
    BY <1>1, <1>2
  <2>2. ~(k > n)
    <3> SUFFICES ASSUME k > n
                 PROVE  FALSE
      OBVIOUS
    <3>1. n \in 1..(k - 1) /\ n \in 1..n
      BY <1>1
    <3>2. b(n) >= 128 /\ b(n) < 128 /\ b(n) \in 0..255
      BY <1>2, <3>1
    <3> QED
      BY <3>2
  <2> QED
    BY <1>1, <2>1, <2>2
<1> HIDE DEF Ends
<1>6. (CHOOSE k \in 1..(N + 1) : Ends(k)) = n
  BY <1>4, <1>5
<1> QED
  BY <1>3, <1>6 DEF n

\* varint_encoding_length is the number of bytes, of a number that has ten.
LEMMA LengthOfCode ==
    ASSUME NEW v \in Nat, v < Power(128, 10), NEW s, IsCode(s, v)
    PROVE  EncodingLength(v) = Len(s)
<1> DEFINE n == Len(s)
           P(e) == Power(128, e)
           InCode(k) == v < P(k) /\ (k > 1 => v >= P(k - 1))
<1>1. n \in Nat \ {0} /\ InCode(n)
  BY DEF IsCode
<1>2. \A e, h \in Nat : e <= h => P(e) \in Nat /\ P(h) \in Nat /\ P(e) <= P(h)
  <2>1. 128 \in Nat \ {0} /\ 128 \in Nat
    OBVIOUS
  <2> QED
    BY <2>1, PowerNext, PowerMonotone
<1>3. EncodingLength(v) = CHOOSE k \in 1..10 : InCode(k)
  BY DEF EncodingLength
<1>4. v < P(10)
  OBVIOUS
<1> HIDE DEF n, P
<1>5. \A k, h \in Nat \ {0} : InCode(k) /\ InCode(h) => ~(k < h)
  <2> SUFFICES ASSUME NEW k \in Nat \ {0}, NEW h \in Nat \ {0}, InCode(k), InCode(h), k < h
               PROVE  FALSE
    OBVIOUS
  <2> DEFINE g == h - 1
  <2>1. g \in Nat /\ k \in Nat /\ k <= g /\ h > 1
    OBVIOUS
  <2>2. v >= P(g) /\ v < P(k)
    BY <2>1
  <2> HIDE DEF g
  <2>3. P(k) \in Nat /\ P(g) \in Nat /\ P(k) <= P(g)
    BY <1>2, <2>1
  <2> QED
    BY <2>2, <2>3
<1>6. n <= 10
  <2> SUFFICES ASSUME n > 10
               PROVE  FALSE
    BY <1>1
  <2> DEFINE g == n - 1
  <2>1. g \in Nat /\ 10 \in Nat /\ 10 <= g /\ n > 1
    BY <1>1
  <2>2. v >= P(g)
    BY <1>1, <2>1
  <2> HIDE DEF g
  <2>3. P(10) \in Nat /\ P(g) \in Nat /\ P(10) <= P(g)
    BY <1>2, <2>1
  <2> QED
    BY <1>4, <2>2, <2>3
<1> HIDE DEF InCode
<1>7. n \in 1..10 /\ \A k \in 1..10 : InCode(k) => k = n
  <2>1. n \in 1..10
    BY <1>1, <1>6
  <2>2. \A k \in 1..10 : k \in Nat \ {0}
    OBVIOUS
  <2>3. \A k \in 1..10 : InCode(k) => ~(k < n) /\ ~(n < k)
    BY <1>1, <1>5, <2>2
  <2> QED
    BY <2>1, <2>3
<1>8. (CHOOSE k \in 1..10 : InCode(k)) = n
  BY <1>1, <1>7
<1> QED
  BY <1>3, <1>8 DEF n

LEMMA NextQuotient ==
    ASSUME NEW a \in Nat, NEW p \in Nat \ {0}, NEW r, r = p * 128
    PROVE  a \div r = (a \div p) \div 128
<1>1. 128 \in Nat \ {0}
  OBVIOUS
<1>2. (a \div p) \div 128 = a \div (p * 128)
  BY <1>1, DividedTwice
<1> QED
  BY <1>2

\* What the byte behind k - 1 others adds, and the sums of all of them.
Piece(bytes, at, k) == (ByteAt(bytes, at + k - 1) % 128) * Power(128, k - 1)

Sums(f, bytes, at, n) ==
    f = [k \in 0..n |-> IF k = 0 THEN 0 ELSE f[k - 1] + Piece(bytes, at, k)]

LEMMA SumsExist ==
    ASSUME NEW bytes, NEW at, NEW n \in Nat, \A k \in 1..n : Piece(bytes, at, k) \in Nat
    PROVE  \E f : Sums(f, bytes, at, n)
<1> DEFINE p(k) == Piece(bytes, at, k)
           steps == [c \in (1..n) \X Nat |-> c[2] + p(c[1])]
<1> HIDE DEF p
<1>0. \A k \in 1..n : p(k) \in Nat
  BY DEF p
<1>1. \A k \in 1..n, x \in Nat : steps[<<k, x>>] = x + p(k)
  OBVIOUS
<1>2. Stepping(steps, n, Nat)
  <2>1. \A c \in (1..n) \X Nat : c[2] + p(c[1]) \in Nat
    BY <1>0
  <2> QED
    BY <2>1 DEF Stepping
<1> HIDE DEF steps
<1>3. PICK f : Recursive(f, 0, steps, n, Nat)
  <2>1. 0 \in Nat
    OBVIOUS
  <2> QED
    BY <1>2, <2>1, RecursionExists
<1>4. ASSUME NEW k \in 1..n
      PROVE  f[k] = f[k - 1] + p(k)
  <2>1. k - 1 \in 0..n
    OBVIOUS
  <2>2. f[k - 1] \in Nat /\ f[k] = steps[<<k, f[k - 1]>>]
    BY <1>3, <2>1 DEF Recursive
  <2> QED
    BY <1>1, <2>2
<1>5. f \in [0..n -> Nat] /\ f[0] = 0
  BY <1>3 DEF Recursive
<1>6. Sums(f, bytes, at, n)
  BY <1>4, <1>5 DEF Sums, p
<1> QED
  BY <1>6

LEMMA SumOfCode ==
    ASSUME NEW v \in Nat, NEW s, IsCode(s, v), NEW bytes, NEW at \in Nat, Stands(s, bytes, at)
    PROVE  Varint(bytes, at) = v % UINT32
<1> DEFINE n == Len(s)
           f == CHOOSE f : Sums(f, bytes, at, n)
           P(e) == Power(128, e)
           p(k) == Piece(bytes, at, k)
<1>1. n \in Nat \ {0} /\ v < P(n)
  BY DEF IsCode
<1>2. \A e \in Nat : P(e) \in Nat \ {0} /\ P(e + 1) = 128 * P(e)
  <2>1. 128 \in Nat \ {0} /\ 128 \in Nat
    OBVIOUS
  <2> QED
    BY <2>1, PowerNext, PowerPositive
<1>3. P(0) = 1
  <2>1. 128 \in Nat /\ 0 \in Nat
    OBVIOUS
  <2> QED
    BY <2>1, PowerNext
<1> HIDE DEF P
<1>4. ASSUME NEW k \in 1..n
      PROVE  p(k) = ((v \div P(k - 1)) % 128) * P(k - 1) /\ p(k) \in Nat
  <2> DEFINE q == P(k - 1)
             x == v \div q
  <2>1. q \in Nat \ {0}
    <3>1. k - 1 \in Nat
      BY <1>1
    <3> QED
      BY <1>2, <3>1
  <2>2. ByteAt(bytes, at + k - 1) % 128 = x % 128
    BY DEF Stands, IsCode, P
  <2>3. p(k) = (x % 128) * q
    BY <2>2 DEF Piece, P
  <2> HIDE DEF q, p
  <2>4. x \in Nat
    BY <2>1, Divided
  <2> HIDE DEF x
  <2>5. x % 128 \in Nat
    BY <2>4
  <2>6. (x % 128) * q \in Nat
    BY <2>1, <2>5, Multiplied
  <2> QED
    BY <2>3, <2>6 DEF q, x
<1> HIDE DEF p
<1>5. Sums(f, bytes, at, n)
  <2>1. \A k \in 1..n : Piece(bytes, at, k) \in Nat
    BY <1>4 DEF p
  <2>2. \E g : Sums(g, bytes, at, n)
    BY <1>1, <2>1, SumsExist
  <2> QED
    BY <2>2
<1>6. Varint(bytes, at) = f[n] % UINT32
  <2>1. Bytes(bytes, at) = n
    BY BytesOfCode
  <2> QED
    BY <2>1 DEF Varint, Sums, Piece
<1> HIDE DEF f
<1>7. f[0] = 0 /\ \A k \in 1..n : f[k] = f[k - 1] + p(k)
  <2>1. f = [k \in 0..n |-> IF k = 0 THEN 0 ELSE f[k - 1] + p(k)]
    BY <1>5 DEF Sums, p
  <2>2. 0 \in 0..n /\ \A k \in 1..n : k \in 0..n /\ k # 0
    BY <1>1
  <2> HIDE DEF n
  <2>3. f[0] = 0
    BY <2>1, <2>2
  <2>4. \A k \in 1..n : f[k] = f[k - 1] + p(k)
    BY <2>1, <2>2
  <2> QED
    BY <2>3, <2>4
<1> HIDE DEF n
<1> DEFINE rest(e) == P(e) * (v \div P(e))
           S == {e \in Nat : e <= n => f[e] \in Nat /\ f[e] + rest(e) = v}
<1>8. 0 \in S
  <2>1. rest(0) = v
    BY <1>3
  <2> QED
    BY <1>7, <2>1
<1>9. ASSUME NEW e \in Nat, e \in S
      PROVE  e + 1 \in S
  <2> SUFFICES ASSUME e + 1 <= n
               PROVE  f[e + 1] \in Nat /\ f[e + 1] + rest(e + 1) = v
    OBVIOUS
  <2> DEFINE k == e + 1
             q == P(e)
             x == v \div q
             y == x \div 128
             d == x % 128
             r == P(k)
  <2>1. k \in 1..n /\ k - 1 = e
    OBVIOUS
  <2>2. f[e] \in Nat /\ f[e] + q * x = v
    <3>1. e <= n
      BY <1>1
    <3> QED
      BY <1>9, <3>1
  <2>3. q \in Nat \ {0} /\ r = 128 * q /\ r = q * 128
    BY <1>2
  <2>4. f[k] = f[e] + p(k)
    BY <1>7, <2>1
  <2>5. p(k) = d * q
    BY <1>4, <2>1
  <2>6. v \div r = y
    <3> HIDE DEF q, r
    <3> QED
      BY <2>3, NextQuotient
  <2>7. rest(k) = r * y
    BY <2>6
  <2> HIDE DEF q, r, k, rest
  <2>8. x \in Nat
    BY <2>3, Divided
  <2> HIDE DEF x
  <2>9. y \in Nat /\ d \in 0..127 /\ x = 128 * y + d
    BY <2>8
  <2> HIDE DEF y, d
  <2>10. d * q \in Nat /\ q * y \in Nat
    <3>1. d \in Nat /\ q \in Nat
      BY <2>3, <2>9
    <3> QED
      BY <2>9, <3>1, Multiplied
  <2>11. q * x = 128 * (q * y) + d * q /\ r * y = 128 * (q * y)
    BY <2>3, <2>9
  <2>12. f[k] \in Nat /\ f[k] + rest(k) = v
    BY <2>2, <2>4, <2>5, <2>7, <2>10, <2>11
  <2> QED
    BY <2>12 DEF k
<1> HIDE DEF S
<1>10. Nat \subseteq S
  BY <1>8, <1>9, SetInduction
<1>11. n \in S
  BY <1>1, <1>10
<1>12. f[n] + rest(n) = v
  BY <1>11 DEF S
<1>13. f[n] = v
  <2> DEFINE r == P(n)
  <2>1. r \in Nat \ {0} /\ v < r
    BY <1>1, <1>2
  <2> HIDE DEF r
  <2>2. v \div r = 0
    BY <2>1
  <2>3. r * (v \div r) = 0
    BY <2>1, <2>2
  <2>4. rest(n) = 0
    BY <2>3 DEF r
  <2>5. f[n] \in Nat
    BY <1>11 DEF S
  <2> HIDE DEF rest
  <2> QED
    BY <1>12, <2>4, <2>5
<1> QED
  BY <1>6, <1>13

-----------------------------------------------------------------------------
(***************************************************************************)
(* What the host writes is bytes: every part of a transaction is a         *)
(* sequence of them.                                                       *)
(***************************************************************************)
Octet == 0..255

Octets(s) == s \in Seq(Octet)

LEMMA NoOctets == Octets(<<>>)
BY DEF Octets

LEMMA JoinedOctets ==
    ASSUME NEW s, NEW t, Octets(s), Octets(t)
    PROVE  Octets(s \o t)
BY Joined DEF Octets

LEMMA EncodedOctets ==
    ASSUME NEW v \in Nat
    PROVE  Octets(Encode(v))
BY EncodeIsWritten DEF IsWritten, Octets, Octet

LEMMA FilledOctets ==
    ASSUME NEW size \in Nat, NEW byte \in Octet
    PROVE  Octets(Fill(size, byte)) /\ Len(Fill(size, byte)) = size
BY DEF Fill, Octets

LEMMA FlattenedOctets ==
    ASSUME NEW s \in Seq(Seq(Octet))
    PROVE  Octets(FlattenSeq(s))
<1>1. CASE s = <<>>
  <2>1. Len(s) = 0
    BY <1>1
  <2> QED
    BY <1>1, <2>1, NoOctets DEF FlattenSeq
<1>2. CASE s # <<>>
  BY <1>2, FlattenedSpread DEF Octets
<1> QED
  BY <1>1, <1>2

\* The sizes of the fields of a struct, so many of them.
Sizes(s, n) == s \in Seq(Nat) /\ Len(s) = n

LEMMA JoinedSizes ==
    ASSUME NEW m \in Nat, NEW n \in Nat, NEW s, NEW t, Sizes(s, m), Sizes(t, n)
    PROVE  Sizes(s \o t, m + n)
<1>1. s \in Seq(Nat) /\ t \in Seq(Nat) /\ Len(s) = m /\ Len(t) = n
  BY DEF Sizes
<1> DEFINE r == s \o t
<1>2. r \in Seq(Nat) /\ Len(r) = Len(s) + Len(t)
  BY <1>1, Joined
<1> QED
  BY <1>1, <1>2 DEF Sizes

LEMMA SequenceIsFunction ==
    ASSUME NEW T, NEW s \in Seq(T)
    PROVE  s \in [1..Len(s) -> T]
OBVIOUS

LEMMA LastOfSeven ==
    ASSUME NEW s, Sizes(s, 7)
    PROVE  Sizes([s EXCEPT ![7] = 1], 7)
<1> DEFINE t == [s EXCEPT ![7] = 1]
<1>1. s \in [1..7 -> Nat]
  <2>1. s \in Seq(Nat) /\ Len(s) = 7
    BY DEF Sizes
  <2>2. s \in [1..Len(s) -> Nat]
    BY <2>1, SequenceIsFunction
  <2> QED
    BY <2>1, <2>2
<1>2. t \in [1..7 -> Nat]
  BY <1>1
<1> HIDE DEF t
<1>3. t \in Seq(Nat) /\ Len(t) = 7
  <2>1. t \in Seq(Nat)
    <3>1. \E n \in Nat : t \in [1..n -> Nat]
      BY <1>2
    <3> QED
      BY <3>1
  <2>2. DOMAIN t = 1..7
    BY <1>2
  <2> QED
    BY <2>1, <2>2
<1> QED
  BY <1>3 DEF Sizes, t

LEMMA ActionTypesAre ==
    ActionTypes = {"transfer", "buyram", "buyrambytes", "sellram", "delegatebw",
                   "undelegatebw", "voteproducer", "newaccount"}
BY DEF ActionTypes, Names

LEMMA SizesOfAnAction ==
    ASSUME NEW type \in ActionTypes
    PROVE  \E n \in 2..7 : Sizes(AbiSizes[type], n)
<1> DEFINE names == <<8, 8>>
           price == <<8, 8, 4>>
           one == names \o Asset
           two == one \o Asset
           all == two \o <<4>>
<1>1. Sizes(names, 2) /\ Sizes(Asset, 2) /\ Sizes(<<4>>, 1) /\ Sizes(price, 3)
  BY DEF Sizes, Asset
<1> HIDE DEF names, price
<1>2. Sizes(one, 2 + 2)
  BY <1>1, JoinedSizes
<1> HIDE DEF one
<1>3. Sizes(two, 4 + 2)
  BY <1>1, <1>2, JoinedSizes
<1> HIDE DEF two
<1>4. Sizes(all, 6 + 1)
  BY <1>1, <1>3, JoinedSizes
<1> HIDE DEF all
<1> DEFINE F == [transfer |-> one, buyram |-> one, buyrambytes |-> price,
                 sellram |-> names, delegatebw |-> all, undelegatebw |-> two,
                 voteproducer |-> names, newaccount |-> names]
<1>5. FieldSizes = F
  BY DEF FieldSizes, all, two, one, names, price
<1>6. AbiSizes = [FieldSizes EXCEPT !.delegatebw = [@ EXCEPT ![7] = 1]]
  BY DEF AbiSizes
<1>7. CASE type = "delegatebw"
  <2>1. AbiSizes[type] = [all EXCEPT ![7] = 1]
    BY <1>5, <1>6, <1>7
  <2>2. Sizes(AbiSizes[type], 7)
    BY <1>4, <2>1, LastOfSeven
  <2> QED
    BY <2>2
<1>8. CASE type # "delegatebw"
  <2>1. AbiSizes[type] = F[type]
    BY <1>5, <1>6, <1>8, ActionTypesAre
  <2>2. F[type] \in {one, names, two, price}
    BY <1>8, ActionTypesAre
  <2> HIDE DEF F
  <2> QED
    BY <1>1, <1>2, <1>3, <2>1, <2>2
<1> QED
  BY <1>7, <1>8

\* Fields, each of them bytes.
Fields(s) == s \in Seq(Seq(Octet))

LEMMA FieldIsOctets ==
    ASSUME NEW s, Fields(s), NEW i \in 1..Len(s)
    PROVE  Octets(s[i])
BY DEF Fields, Octets

LEMMA FieldsFlattened ==
    ASSUME NEW s, Fields(s)
    PROVE  Octets(FlattenSeq(s))
BY FlattenedOctets DEF Fields

LEMMA JoinedFields ==
    ASSUME NEW s, NEW t, Fields(s), Fields(t)
    PROVE  Fields(s \o t) /\ Len(s \o t) = Len(s) + Len(t)
<1> DEFINE B == Seq(Octet)
<1>1. s \in Seq(B) /\ t \in Seq(B)
  BY DEF Fields
<1> HIDE DEF B
<1>2. s \o t \in Seq(B) /\ Len(s \o t) = Len(s) + Len(t)
  BY <1>1, Joined
<1> QED
  BY <1>2 DEF Fields, B

LEMMA StructIsFields ==
    ASSUME NEW n \in 2..7, NEW sizes, Sizes(sizes, n), NEW d \in 1..20
    PROVE  Fields(HostStruct(sizes, d)) /\ Len(HostStruct(sizes, d)) = n
<1> DEFINE f(i) == Fill(sizes[i], IF d = 0 THEN 0 ELSE 10 * d + i)
           B == Seq(Octet)
           t == [i \in 1..n |-> f(i)]
<1>1. DOMAIN sizes = 1..n /\ \A i \in 1..n : sizes[i] \in Nat
  <2>1. sizes \in Seq(Nat) /\ Len(sizes) = n
    BY DEF Sizes
  <2>2. DOMAIN sizes = 1..Len(sizes) /\ \A i \in 1..Len(sizes) : sizes[i] \in Nat
    BY <2>1
  <2> QED
    BY <2>1, <2>2
<1>2. \A i \in 1..n : f(i) \in B
  <2> SUFFICES ASSUME NEW i \in 1..n
               PROVE  f(i) \in B
    OBVIOUS
  <2> DEFINE byte == IF d = 0 THEN 0 ELSE 10 * d + i
  <2>1. byte \in Octet
    BY DEF Octet
  <2>2. sizes[i] \in Nat
    BY <1>1
  <2> HIDE DEF byte
  <2>3. Octets(Fill(sizes[i], byte))
    BY <2>1, <2>2, FilledOctets
  <2> QED
    BY <2>3 DEF byte, Octets
<1>3. HostStruct(sizes, d) = t
  BY <1>1 DEF HostStruct
<1> HIDE DEF f, B
<1>4. t \in Seq(B) /\ Len(t) = n
  BY <1>2
<1> QED
  BY <1>3, <1>4 DEF Fields, B

LEMMA ProducersAreFields ==
    ASSUME NEW cell, cell.producers \in 0..255
    PROVE  Fields(HostProducers(cell))
<1> DEFINE n == cell.producers
           B == Seq(Octet)
           f(i) == Fill(8, i)
           t == [i \in 1..n |-> f(i)]
<1>1. \A i \in 1..n : f(i) \in B
  <2> SUFFICES ASSUME NEW i \in 1..n
               PROVE  f(i) \in B
    OBVIOUS
  <2>1. i \in Octet /\ 8 \in Nat
    BY DEF Octet
  <2> QED
    BY <2>1, FilledOctets DEF Octets
<1>2. HostProducers(cell) = t
  BY DEF HostProducers
<1>3. n \in Nat
  OBVIOUS
<1> HIDE DEF f, B, n
<1>4. t \in Seq(B)
  BY <1>1, <1>3
<1> QED
  BY <1>2, <1>4 DEF Fields, B

ContentTypes == [authorizations : Nat, memo : Nat, accounts : Nat, waits : Nat]

\* An action of a plan.
IsAction(cell) ==
    /\ cell.type \in ActionTypes \cup {"unknown"}
    /\ cell.producers \in 0..255 /\ cell.data \in 1..20
    /\ Contents[cell.data] \in ContentTypes

LEMMA FieldsOfAnAction ==
    ASSUME NEW cell, IsAction(cell), cell.type \in ActionTypes \ {"newaccount"}
    PROVE  Fields(HostFields(cell)) /\ Len(HostFields(cell)) >= 2
<1> DEFINE sizes == AbiSizes[cell.type]
           d == cell.data
           fixed == HostStruct(sizes, d)
<1>1. PICK n \in 2..7 : Sizes(sizes, n)
  BY SizesOfAnAction
<1>2. d \in 1..20
  BY DEF IsAction
<1> HIDE DEF sizes, d
<1>3. Fields(fixed) /\ Len(fixed) = n
  BY <1>1, <1>2, StructIsFields
<1> HIDE DEF fixed
<1>4. CASE cell.type = "voteproducer"
  <2> DEFINE second == Fill(8, IF cell.proxy THEN 7 ELSE 0)
             B == Seq(Octet)
             two == <<fixed[1], second>>
             more == HostProducers(cell)
  <2>1. HostFields(cell) = two \o more
    BY <1>4 DEF HostFields, fixed, sizes, d
  <2>2. fixed[1] \in B
    BY <1>1, <1>3, FieldIsOctets DEF Octets
  <2>3. second \in B
    <3> DEFINE byte == IF cell.proxy THEN 7 ELSE 0
    <3>1. byte \in Octet /\ 8 \in Nat
      BY DEF Octet
    <3> HIDE DEF byte
    <3>2. Octets(Fill(8, byte))
      BY <3>1, FilledOctets
    <3> QED
      BY <3>2 DEF Octets, byte
  <2>4. Fields(more)
    BY ProducersAreFields DEF IsAction
  <2> HIDE DEF second, more
  <2>5. Fields(two) /\ Len(two) = 2
    <3> HIDE DEF B
    <3>1. two \in Seq(B)
      BY <2>2, <2>3
    <3> QED
      BY <3>1 DEF Fields, B
  <2> HIDE DEF two
  <2>6. Fields(two \o more) /\ Len(two \o more) = Len(two) + Len(more)
    BY <2>4, <2>5, JoinedFields
  <2>7. Len(more) \in Nat
    BY <2>4 DEF Fields
  <2> QED
    BY <2>1, <2>5, <2>6, <2>7
<1>5. CASE cell.type # "voteproducer"
  <2>1. HostFields(cell) = fixed
    BY <1>5 DEF HostFields, fixed, sizes, d
  <2> QED
    BY <1>3, <2>1
<1> QED
  BY <1>4, <1>5

LEMMA KeyIsOctets ==
    ASSUME NEW cell, IsAction(cell), NEW who \in 1..2
    PROVE  Octets(HostKey(cell, who))
<1> DEFINE byte == IF cell.data = 0 THEN 0 ELSE 100 * who + cell.data
<1>1. byte \in Octet /\ 33 \in Nat
  BY DEF IsAction, Octet
<1> HIDE DEF byte
<1>2. Octets(Fill(33, byte))
  BY <1>1, FilledOctets
<1> QED
  BY <1>2 DEF HostKey, byte

LEMMA AuthorityIsOctets ==
    ASSUME NEW cell, IsAction(cell), NEW who \in 1..2
    PROVE  Octets(HostAuthority(cell, who))
<1> DEFINE key(i) == IF i = 1 THEN HostKey(cell, who) ELSE Fill(33, 99)
           w(i) == <<0>> \o key(i) \o <<1, 0>>
           B == Seq(Octet)
           keys == [i \in 1..KEYS |-> w(i)]
           accounts == Contents[cell.data].accounts
           waits == Contents[cell.data].waits
           a == Fill(4, 1)
           b == Encode(KEYS)
           c == FlattenSeq(keys)
           e == Encode(accounts)
           g == Fill(18 * accounts, 5)
           o == Encode(waits)
           h == Fill(6 * waits, 6)
<1>1. /\ accounts \in Nat /\ 18 * accounts \in Nat /\ waits \in Nat /\ 6 * waits \in Nat
      /\ 4 \in Nat /\ 33 \in Nat
  BY DEF IsAction, ContentTypes
<1>2. {0, 1, 5, 6, 99} \subseteq Octet
  BY DEF Octet
<1>3. Octets(<<0>>) /\ Octets(<<1, 0>>)
  BY <1>2 DEF Octets
<1>4. \A i \in 1..KEYS : w(i) \in B
  <2> SUFFICES ASSUME NEW i \in 1..KEYS
               PROVE  Octets(w(i))
    BY DEF Octets
  <2>1. Octets(key(i))
    BY <1>1, <1>2, KeyIsOctets, FilledOctets
  <2> HIDE DEF key
  <2>2. Octets(<<0>> \o key(i))
    BY <1>3, <2>1, JoinedOctets
  <2> QED
    BY <1>3, <2>2, JoinedOctets
<1>5. Octets(c)
  <2> HIDE DEF w, B
  <2>1. keys \in Seq(B)
    BY <1>4, KeysAssumption
  <2>2. keys \in Seq(Seq(Octet))
    BY <2>1 DEF B
  <2> QED
    BY <2>2, FlattenedOctets
<1>6. Octets(a) /\ Octets(b) /\ Octets(e) /\ Octets(g) /\ Octets(o) /\ Octets(h)
  <2> HIDE DEF accounts, waits
  <2> QED
    BY <1>1, <1>2, FilledOctets, EncodedOctets, KeysAssumption
<1>7. HostAuthority(cell, who) = a \o b \o c \o e \o g \o o \o h
  BY DEF HostAuthority
<1> HIDE DEF a, b, c, e, g, o, h
<1>8. Octets(a \o b)
  BY <1>6, JoinedOctets
<1>9. Octets(a \o b \o c)
  BY <1>5, <1>8, JoinedOctets
<1>10. Octets(a \o b \o c \o e)
  BY <1>6, <1>9, JoinedOctets
<1>11. Octets(a \o b \o c \o e \o g)
  BY <1>6, <1>10, JoinedOctets
<1>12. Octets(a \o b \o c \o e \o g \o o)
  BY <1>6, <1>11, JoinedOctets
<1> QED
  BY <1>6, <1>7, <1>12, JoinedOctets

LEMMA MemoIsOctets ==
    ASSUME NEW cell, IsAction(cell)
    PROVE  Octets(HostMemo(cell))
<1> DEFINE memo == Contents[cell.data].memo
<1>1. memo \in Nat /\ 65 \in Octet
  BY DEF IsAction, ContentTypes, Octet
<1> HIDE DEF memo
<1>2. Octets(Encode(memo)) /\ Octets(Fill(memo, 65))
  BY <1>1, EncodedOctets, FilledOctets
<1>3. Octets(Encode(memo) \o Fill(memo, 65))
  BY <1>2, JoinedOctets
<1> QED
  BY <1>3 DEF HostMemo, memo

LEMMA DataIsOctets ==
    ASSUME NEW cell, IsAction(cell)
    PROVE  Octets(HostData(cell))
<1> DEFINE d == cell.data
           fields == HostFields(cell)
<1>1. cell.type \in ActionTypes \cup {"unknown"} /\ d \in 1..20 /\ d \in Nat
  BY DEF IsAction
<1>2. CASE cell.type = "unknown"
  <2>1. HostData(cell) = Fill(d, 4)
    BY <1>2 DEF HostData
  <2>2. 4 \in Octet
    BY DEF Octet
  <2> QED
    BY <1>1, <2>1, <2>2, FilledOctets
<1>3. CASE cell.type = "newaccount"
  <2> DEFINE sizes == AbiSizes.newaccount
             a == FlattenSeq(HostStruct(sizes, d))
             b == HostAuthority(cell, 1)
             c == HostAuthority(cell, 2)
  <2>1. HostData(cell) = a \o b \o c
    BY <1>3 DEF HostData
  <2>2. PICK n \in 2..7 : Sizes(sizes, n)
    BY ActionTypesAre, SizesOfAnAction
  <2> HIDE DEF sizes, d
  <2>3. Octets(a)
    BY <1>1, <2>2, StructIsFields, FieldsFlattened
  <2>4. Octets(b) /\ Octets(c)
    BY AuthorityIsOctets
  <2> HIDE DEF a, b, c
  <2>5. Octets(a \o b)
    BY <2>3, <2>4, JoinedOctets
  <2> QED
    BY <2>1, <2>4, <2>5, JoinedOctets
<1>4. CASE cell.type \in ActionTypes \ {"newaccount"}
  <2>1. Fields(fields) /\ Len(fields) >= 2
    BY <1>4, FieldsOfAnAction
  <2>2. Octets(FlattenSeq(fields))
    BY <2>1, FieldsFlattened
  <2>3. CASE cell.type = "transfer"
    <3>1. HostData(cell) = FlattenSeq(fields) \o HostMemo(cell)
      BY <2>3 DEF HostData
    <3>2. Octets(HostMemo(cell))
      BY MemoIsOctets
    <3> QED
      BY <2>2, <3>1, <3>2, JoinedOctets
  <2>4. CASE cell.type = "voteproducer"
    <3> DEFINE a == fields[1]
               b == fields[2]
               c == Encode(cell.producers)
               e == FlattenSeq(HostProducers(cell))
    <3>1. HostData(cell) = a \o b \o c \o e
      BY <2>4 DEF HostData
    <3>2. Octets(a) /\ Octets(b)
      <4>1. 1 \in 1..Len(fields) /\ 2 \in 1..Len(fields)
        BY <2>1 DEF Fields
      <4> HIDE DEF fields
      <4> QED
        BY <2>1, <4>1, FieldIsOctets
    <3>3. Octets(c) /\ Octets(e)
      <4>1. cell.producers \in 0..255 /\ cell.producers \in Nat
        BY DEF IsAction
      <4> QED
        BY <4>1, EncodedOctets, ProducersAreFields, FieldsFlattened
    <3> HIDE DEF a, b, c, e
    <3>4. Octets(a \o b)
      BY <3>2, JoinedOctets
    <3>5. Octets(a \o b \o c)
      BY <3>3, <3>4, JoinedOctets
    <3> QED
      BY <3>1, <3>3, <3>5, JoinedOctets
  <2>5. CASE cell.type \notin {"transfer", "voteproducer"}
    <3>1. cell.type # "unknown" /\ cell.type # "newaccount"
      BY <1>4, ActionTypesAre
    <3>2. HostData(cell) = FlattenSeq(fields)
      BY <2>5, <3>1 DEF HostData
    <3> QED
      BY <2>2, <3>2
  <2> QED
    BY <2>3, <2>4, <2>5
<1> QED
  BY <1>1, <1>2, <1>3, <1>4

LEMMA NamesAreOctets ==
    ASSUME NEW type \in ActionTypes
    PROVE  Octets(Names[type])
<1>1. Octets(Names.transfer) /\ Octets(Names.buyram)
  BY DEF Names, Octets, Octet
<1>2. Octets(Names.buyrambytes) /\ Octets(Names.sellram)
  BY DEF Names, Octets, Octet
<1>3. Octets(Names.delegatebw) /\ Octets(Names.undelegatebw)
  BY DEF Names, Octets, Octet
<1>4. Octets(Names.voteproducer) /\ Octets(Names.newaccount)
  BY DEF Names, Octets, Octet
<1> QED
  BY <1>1, <1>2, <1>3, <1>4, ActionTypesAre

LEMMA AccountIsOctets ==
    ASSUME NEW cell
    PROVE  Octets(HostAccount(cell))
<1>1. Octets(<<0, 166, 130, 52, 3, 234, 48, 85>>)
  BY DEF Octets, Octet
<1>2. Octets(<<0, 0, 0, 0, 0, 234, 48, 85>>)
  BY DEF Octets, Octet
<1> QED
  BY <1>1, <1>2 DEF HostAccount

LEMMA ActionIsOctets ==
    ASSUME NEW cell, IsAction(cell)
    PROVE  Octets(HostAction(cell))
<1> DEFINE d == Contents[cell.data].authorizations
           a == HostAccount(cell)
           b == IF cell.type \in ActionTypes THEN Names[cell.type] ELSE Fill(8, 1)
           c == Encode(d)
           e == Fill(16 * d, 3)
           g == Encode(Len(HostData(cell)))
           h == HostData(cell)
<1>1. d \in Nat /\ 16 * d \in Nat /\ 8 \in Nat
  BY DEF IsAction, ContentTypes
<1>2. {1, 3} \subseteq Octet
  BY DEF Octet
<1>3. Octets(a) /\ Octets(h)
  BY AccountIsOctets, DataIsOctets
<1>4. Octets(b)
  BY <1>1, <1>2, NamesAreOctets, FilledOctets
<1>5. Octets(c) /\ Octets(e)
  <2> HIDE DEF d
  <2> QED
    BY <1>1, <1>2, EncodedOctets, FilledOctets
<1>6. Octets(g)
  <2> HIDE DEF h
  <2>1. Len(h) \in Nat
    BY <1>3 DEF Octets
  <2> QED
    BY <2>1, EncodedOctets DEF h
<1>7. HostAction(cell) = a \o b \o c \o e \o g \o h
  BY DEF HostAction
<1> HIDE DEF a, b, c, e, g, h
<1>8. Octets(a \o b)
  BY <1>3, <1>4, JoinedOctets
<1>9. Octets(a \o b \o c)
  BY <1>5, <1>8, JoinedOctets
<1>10. Octets(a \o b \o c \o e)
  BY <1>5, <1>9, JoinedOctets
<1>11. Octets(a \o b \o c \o e \o g)
  BY <1>6, <1>10, JoinedOctets
<1> QED
  BY <1>3, <1>7, <1>11, JoinedOctets

(***************************************************************************)
(* Where the parts of a transaction stand in its bytes.                    *)
(***************************************************************************)
LEMMA OctetsHaveLength ==
    ASSUME NEW s, Octets(s)
    PROVE  Len(s) \in Nat
BY DEF Octets

LEMMA JoinedIs ==
    ASSUME NEW s, NEW t, Octets(s), Octets(t)
    PROVE  /\ Octets(s \o t) /\ Len(s \o t) = Len(s) + Len(t)
           /\ Len(s) \in Nat /\ Len(t) \in Nat
           /\ \A e \in 1..Len(s) : (s \o t)[e] = s[e]
           /\ \A e \in 1..Len(t) : (s \o t)[Len(s) + e] = t[e]
<1>1. s \in Seq(Octet) /\ t \in Seq(Octet)
  BY DEF Octets
<1>2. Len(s) \in Nat /\ Len(t) \in Nat
  BY OctetsHaveLength
<1>3. Octets(s \o t)
  BY JoinedOctets
<1> QED
  BY <1>1, <1>2, <1>3, Joined

LEMMA StandBoth ==
    ASSUME NEW s, NEW t, Octets(s), Octets(t), NEW bytes, NEW at \in Nat,
           Stands(s \o t, bytes, at)
    PROVE  Stands(s, bytes, at) /\ Stands(t, bytes, at + Len(s)) /\ at + Len(s) \in Nat
<1> DEFINE r == s \o t
           m == Len(s)
           n == Len(t)
           b(e) == ByteAt(bytes, at + e - 1)
<1>1. /\ Len(r) = m + n /\ m \in Nat /\ n \in Nat
      /\ \A e \in 1..m : r[e] = s[e]
      /\ \A e \in 1..n : r[m + e] = t[e]
  BY JoinedIs
<1>2. Len(bytes) \in Nat /\ Len(r) <= Len(bytes) /\ \A e \in 1..Len(r) : b(e) = r[e]
  BY DEF Stands
<1> HIDE DEF r, b, m, n
<1>3. \A e \in 1..m : b(e) = s[e]
  BY <1>1, <1>2
<1>4. \A e \in 1..n : b(m + e) = t[e]
  BY <1>1, <1>2
<1>5. \A e \in 1..n : ByteAt(bytes, (at + m) + e - 1) = t[e]
  <2> SUFFICES ASSUME NEW e \in 1..n
               PROVE  ByteAt(bytes, (at + m) + e - 1) = t[e]
    OBVIOUS
  <2>1. (at + m) + e - 1 = at + (m + e) - 1
    BY <1>1
  <2>2. b(m + e) = ByteAt(bytes, at + (m + e) - 1)
    BY DEF b
  <2> QED
    BY <1>4, <2>1, <2>2
<1>6. m <= Len(bytes) /\ n <= Len(bytes) /\ at + m \in Nat
  BY <1>1, <1>2
<1> QED
  BY <1>2, <1>3, <1>5, <1>6 DEF Stands, b, m, n

LEMMA ZeroIsCode == IsCode(<<0>>, 0)
<1>1. 0 \in 0..127 /\ 0 % 256 = 0
  OBVIOUS
<1>2. IsCode(<<0 % 256>>, 0)
  BY <1>1, CodeOfOne
<1> QED
  BY <1>1, <1>2

\* A number that the host has encoded is read where it stands.
LEMMA EncodedIsRead ==
    ASSUME CHAR_SIGNED, NEW v \in Nat, NEW at \in Nat, Stands(Encode(v), raw, at)
    PROVE  Bytes(raw, at) = Len(Encode(v)) /\ Varint(raw, at) = v % UINT32
<1>1. IsCode(Encode(v), v)
  BY EncodeIsWritten DEF IsWritten
<1> DEFINE s == Encode(v)
<1> HIDE DEF s
<1> QED
  BY <1>1, BytesOfCode, SumOfCode DEF s

\* Six parts, one behind the other.
LEMMA StandSix ==
    ASSUME NEW a, NEW b, NEW c, NEW e, NEW g, NEW h, NEW bytes, NEW at \in Nat,
           Octets(a), Octets(b), Octets(c), Octets(e), Octets(g), Octets(h),
           Stands(a \o b \o c \o e \o g \o h, bytes, at)
    PROVE  /\ {Len(a), Len(b), Len(c), Len(e), Len(g), Len(h)} \subseteq Nat
           /\ Len(a \o b \o c \o e \o g \o h)
                = Len(a) + Len(b) + Len(c) + Len(e) + Len(g) + Len(h)
           /\ Stands(b, bytes, at + Len(a))
           /\ Stands(c, bytes, at + Len(a) + Len(b))
           /\ Stands(e, bytes, at + Len(a) + Len(b) + Len(c))
           /\ Stands(g, bytes, at + Len(a) + Len(b) + Len(c) + Len(e))
           /\ Stands(h, bytes, at + Len(a) + Len(b) + Len(c) + Len(e) + Len(g))
<1> DEFINE t1 == a \o b
           t2 == t1 \o c
           t3 == t2 \o e
           t4 == t3 \o g
           t5 == t4 \o h
<1>1. /\ Len(a) \in Nat /\ Len(b) \in Nat /\ Len(c) \in Nat
      /\ Len(e) \in Nat /\ Len(g) \in Nat /\ Len(h) \in Nat
  BY OctetsHaveLength
<1>2. Octets(t1) /\ Len(t1) = Len(a) + Len(b)
  BY JoinedIs
<1> HIDE DEF t1
<1>3. Octets(t2) /\ Len(t2) = Len(t1) + Len(c)
  BY <1>2, JoinedIs
<1> HIDE DEF t2
<1>4. Octets(t3) /\ Len(t3) = Len(t2) + Len(e)
  BY <1>3, JoinedIs
<1> HIDE DEF t3
<1>5. Octets(t4) /\ Len(t4) = Len(t3) + Len(g)
  BY <1>4, JoinedIs
<1> HIDE DEF t4
<1>6. Len(t5) = Len(t4) + Len(h)
  BY <1>5, JoinedIs
<1>7. Stands(t5, bytes, at) /\ t5 = a \o b \o c \o e \o g \o h
  BY DEF t5, t4, t3, t2, t1
<1>8. Stands(t4, bytes, at) /\ Stands(h, bytes, at + Len(t4))
  BY <1>5, <1>7, StandBoth
<1> HIDE DEF t5
<1>9. Stands(t3, bytes, at) /\ Stands(g, bytes, at + Len(t3))
  BY <1>4, <1>8, StandBoth DEF t4
<1>10. Stands(t2, bytes, at) /\ Stands(e, bytes, at + Len(t2))
  BY <1>3, <1>9, StandBoth DEF t3
<1>11. Stands(t1, bytes, at) /\ Stands(c, bytes, at + Len(t1))
  BY <1>2, <1>10, StandBoth DEF t2
<1>12. Stands(b, bytes, at + Len(a))
  BY <1>11, StandBoth DEF t1
<1>13. /\ at + Len(t1) = at + Len(a) + Len(b)
       /\ at + Len(t2) = at + Len(a) + Len(b) + Len(c)
       /\ at + Len(t3) = at + Len(a) + Len(b) + Len(c) + Len(e)
       /\ at + Len(t4) = at + Len(a) + Len(b) + Len(c) + Len(e) + Len(g)
       /\ Len(t5) = Len(a) + Len(b) + Len(c) + Len(e) + Len(g) + Len(h)
  BY <1>1, <1>2, <1>3, <1>4, <1>5, <1>6
<1> QED
  BY <1>1, <1>7, <1>8, <1>9, <1>10, <1>11, <1>12, <1>13

LEMMA NameHasLength ==
    ASSUME NEW type \in ActionTypes
    PROVE  Len(Names[type]) = 8
<1>1. Len(Names.transfer) = 8 /\ Len(Names.buyram) = 8
  BY DEF Names
<1>2. Len(Names.buyrambytes) = 8 /\ Len(Names.sellram) = 8
  BY DEF Names
<1>3. Len(Names.delegatebw) = 8 /\ Len(Names.undelegatebw) = 8
  BY DEF Names
<1>4. Len(Names.voteproducer) = 8 /\ Len(Names.newaccount) = 8
  BY DEF Names
<1> QED
  BY <1>1, <1>2, <1>3, <1>4, ActionTypesAre

\* "eosio.token" or "eosio", and a name.
LEMMA AccountHasLength ==
    ASSUME NEW cell
    PROVE  Len(HostAccount(cell)) = 8
BY DEF HostAccount

HostName(cell) == IF cell.type \in ActionTypes THEN Names[cell.type] ELSE Fill(8, 1)

LEMMA NameIsOctets ==
    ASSUME NEW cell
    PROVE  Octets(HostName(cell)) /\ Len(HostName(cell)) = 8
<1>1. 1 \in Octet /\ 8 \in Nat
  BY DEF Octet
<1> QED
  BY <1>1, NameHasLength, NamesAreOctets, FilledOctets DEF HostName

\* The 16 bits of an offset are enough for what is shorter than they count.
LEMMA MovedIs ==
    ASSUME NEW at \in Nat, NEW n \in Nat, n < UINT16
    PROVE  Moved(at, n) = at + n
<1>1. UINT16 \in Nat \ {0}
  BY WidthAssumption
<1>2. n % UINT16 = n
  BY <1>1
<1> QED
  BY <1>2 DEF Moved

(***************************************************************************)
(* An action ends where parse_op says that it does: behind its data, over  *)
(* as many bytes as are declared, after as many authorizations.            *)
(***************************************************************************)
LEMMA ActionIsSkipped ==
    ASSUME CHAR_SIGNED, NEW cell, IsAction(cell), NEW at \in Nat,
           Stands(HostAction(cell), raw, at), Len(raw) < UINT16, UINT16 <= UINT32
    PROVE  /\ DataAt(at) + Varint(raw, SizeAt(at)) = at + Len(HostAction(cell))
           /\ Len(HostAction(cell)) \in Nat \ {0}
           /\ DataAt(at) \in Nat
           /\ Stands(HostName(cell), raw, at + 8)
           /\ Stands(HostData(cell), raw, DataAt(at))
<1> DEFINE d == Contents[cell.data].authorizations
           a == HostAccount(cell)
           b == HostName(cell)
           c == Encode(d)
           e == Fill(16 * d, 3)
           h == HostData(cell)
           n == Len(h)
           g == Encode(n)
           t == a \o b \o c \o e \o g \o h
<1>1. d \in Nat /\ 16 * d \in Nat
  BY DEF IsAction, ContentTypes
<1>2. 3 \in Octet
  BY DEF Octet
<1>3. Octets(a) /\ Len(a) = 8 /\ Octets(b) /\ Len(b) = 8
  BY AccountIsOctets, AccountHasLength, NameIsOctets
<1>4. Octets(c) /\ Octets(e) /\ Len(e) = 16 * d
  <2> HIDE DEF d
  <2> QED
    BY <1>1, <1>2, EncodedOctets, FilledOctets
<1>5. Octets(h) /\ n \in Nat
  BY DataIsOctets, OctetsHaveLength
<1>6. Octets(g)
  <2> HIDE DEF n
  <2> QED
    BY <1>5, EncodedOctets
<1>7. Stands(t, raw, at) /\ HostAction(cell) = t
  BY DEF HostAction, HostName
<1> HIDE DEF a, b, c, e, g, h
<1>8. /\ {Len(a), Len(b), Len(c), Len(e), Len(g), Len(h)} \subseteq Nat
      /\ Len(t) = Len(a) + Len(b) + Len(c) + Len(e) + Len(g) + Len(h)
      /\ Stands(b, raw, at + Len(a))
      /\ Stands(c, raw, at + Len(a) + Len(b))
      /\ Stands(g, raw, at + Len(a) + Len(b) + Len(c) + Len(e))
      /\ Stands(h, raw, at + Len(a) + Len(b) + Len(c) + Len(e) + Len(g))
  <2>1. Octets(a) /\ Octets(b) /\ Octets(c) /\ Octets(e) /\ Octets(g) /\ Octets(h)
    BY <1>3, <1>4, <1>5, <1>6
  <2>2. Stands(a \o b \o c \o e \o g \o h, raw, at)
    BY <1>7
  <2> HIDE DEF d, n
  <2> QED
    BY <2>1, <2>2, StandSix
<1>9. Len(t) <= Len(raw) /\ Len(raw) \in Nat
  BY <1>7 DEF Stands
<1> DEFINE p == Len(c)
           q == Len(g)
           l == Len(t)
           r == at + 16 + p + 16 * d
<1>10. p \in Nat /\ q \in Nat /\ n \in Nat /\ l = 16 + p + 16 * d + q + n
  BY <1>3, <1>4, <1>5, <1>8
<1>11. /\ Stands(b, raw, at + 8) /\ Stands(c, raw, at + 16)
       /\ Stands(g, raw, r) /\ Stands(h, raw, r + q)
       /\ r \in Nat
  <2> HIDE DEF d, t
  <2>1. /\ at + Len(a) = at + 8 /\ at + Len(a) + Len(b) = at + 16
        /\ at + Len(a) + Len(b) + Len(c) + Len(e) = r
        /\ at + Len(a) + Len(b) + Len(c) + Len(e) + Len(g) = r + q
        /\ r \in Nat
    BY <1>1, <1>3, <1>4, <1>10
  <2> QED
    BY <1>8, <2>1
<1>12. l <= Len(raw)
  BY <1>9
<1> HIDE DEF d, t, n, p, q, l
<1>13. /\ d < UINT32 /\ n < UINT32 /\ UINT32 \in Nat
       /\ 16 + p + 16 * d < UINT16 /\ 16 + p + 16 * d + q < UINT16 /\ UINT16 \in Nat
  BY <1>1, <1>5, <1>9, <1>10, <1>12, Uint32Assumption, WidthAssumption
<1>14. d % UINT32 = d /\ n % UINT32 = n
  BY <1>1, <1>5, <1>13
<1>15. Bytes(raw, at + 16) = p /\ Varint(raw, at + 16) = d
  <2>1. at + 16 \in Nat
    OBVIOUS
  <2> QED
    BY <1>1, <1>11, <1>14, <2>1, EncodedIsRead DEF c, p
<1>16. SizeAt(at) = r
  <2>1. SizeAt(at) = Moved(at, 16 + p + 16 * d)
    BY <1>15 DEF SizeAt
  <2> QED
    BY <1>1, <1>10, <1>13, <2>1, MovedIs
<1> HIDE DEF r
<1>17. Bytes(raw, r) = q /\ Varint(raw, r) = n
  BY <1>5, <1>11, <1>14, EncodedIsRead DEF g, q
<1>18. DataAt(at) = r + q
  <2>1. DataAt(at) = Moved(at, (r - at) + q)
    BY <1>16, <1>17 DEF DataAt
  <2> DEFINE m == 16 + p + 16 * d + q
  <2>2. (r - at) + q = m /\ at + m = r + q /\ m \in Nat /\ m < UINT16
    BY <1>1, <1>10, <1>13 DEF r
  <2> HIDE DEF m
  <2> QED
    BY <2>1, <2>2, MovedIs
<1>19. r + q + n = at + l /\ l \in Nat \ {0} /\ r + q \in Nat
  BY <1>1, <1>10, <1>11 DEF r
<1>20. Len(HostAction(cell)) = l
  BY <1>7 DEF l
<1> QED
  BY <1>11, <1>16, <1>17, <1>18, <1>19, <1>20 DEF b, h

(***************************************************************************)
(* The sum of some sizes, by recursion.                                    *)
(***************************************************************************)
Totals(f, s, n) == f = [k \in 0..n |-> IF k = 0 THEN 0 ELSE f[k - 1] + s[k]]

LEMMA SumIs ==
    ASSUME NEW s, NEW n \in Nat, Sizes(s, n)
    PROVE  \E f \in [0..n -> Nat] :
              SumOf(s) = f[n] /\ f[0] = 0 /\ \A k \in 1..n : f[k] = f[k - 1] + s[k]
<1>0. Len(s) = n /\ \A k \in 1..n : s[k] \in Nat
  BY DEF Sizes
<1> DEFINE steps == [p \in (1..n) \X Nat |-> p[2] + s[p[1]]]
<1>1. \A k \in 1..n, x \in Nat : steps[<<k, x>>] = x + s[k]
  OBVIOUS
<1>2. Stepping(steps, n, Nat)
  <2>1. \A p \in (1..n) \X Nat : p[2] + s[p[1]] \in Nat
    BY <1>0
  <2> QED
    BY <2>1 DEF Stepping
<1> HIDE DEF steps
<1>3. PICK f : Recursive(f, 0, steps, n, Nat)
  <2>1. 0 \in Nat
    OBVIOUS
  <2> QED
    BY <1>2, <2>1, RecursionExists
<1>4. ASSUME NEW k \in 1..n PROVE f[k] = f[k - 1] + s[k]
  <2>1. k - 1 \in 0..n
    OBVIOUS
  <2>2. f[k - 1] \in Nat /\ f[k] = steps[<<k, f[k - 1]>>]
    BY <1>3, <2>1 DEF Recursive
  <2> QED
    BY <1>1, <2>2
<1>5. Totals(f, s, n)
  <2>1. f \in [0..n -> Nat] /\ f[0] = 0
    BY <1>3 DEF Recursive
  <2> QED
    BY <1>4, <2>1 DEF Totals
<1> DEFINE g == CHOOSE g : Totals(g, s, n)
<1>6. Totals(g, s, n)
  BY <1>5
<1>7. SumOf(s) = g[n]
  BY <1>0 DEF SumOf, Totals
<1> HIDE DEF g
<1>8. g[0] = 0 /\ \A k \in 1..n : g[k] = g[k - 1] + s[k]
  BY <1>6 DEF Totals
<1>9. g \in [0..n -> Nat]
  <2> DEFINE S == {k \in Nat : k <= n => g[k] \in Nat}
  <2>1. 0 \in S
    BY <1>8
  <2>2. ASSUME NEW k \in Nat, k \in S
        PROVE  k + 1 \in S
    BY <1>0, <1>8, <2>2
  <2> HIDE DEF S
  <2>3. Nat \subseteq S
    BY <2>1, <2>2, SetInduction
  <2>4. \A k \in 0..n : g[k] \in Nat
    BY <2>3 DEF S
  <2> QED
    BY <1>6, <2>4 DEF Totals
<1> QED
  BY <1>7, <1>8, <1>9

LEMMA SumOfNone ==
    ASSUME NEW s, Sizes(s, 0)
    PROVE  SumOf(s) = 0
<1>1. PICK f \in [0..0 -> Nat] :
         SumOf(s) = f[0] /\ f[0] = 0 /\ \A k \in 1..0 : f[k] = f[k - 1] + s[k]
  BY SumIs
<1> QED
  BY <1>1

\* One more size is added to the sum.
LEMMA SumOfNext ==
    ASSUME NEW n \in Nat, NEW s, NEW t, Sizes(s, n), Sizes(t, n + 1),
           \A k \in 1..n : s[k] = t[k]
    PROVE  SumOf(s) \in Nat /\ SumOf(t) = SumOf(s) + t[n + 1]
<1>1. PICK f \in [0..n -> Nat] :
         SumOf(s) = f[n] /\ f[0] = 0 /\ \A k \in 1..n : f[k] = f[k - 1] + s[k]
  BY SumIs
<1> DEFINE o == n + 1
<1>0. o \in Nat /\ o = n + 1 /\ o - 1 = n
  OBVIOUS
<1> HIDE DEF o
<1>2. PICK g \in [0..o -> Nat] :
         SumOf(t) = g[o] /\ g[0] = 0 /\ \A k \in 1..o : g[k] = g[k - 1] + t[k]
  <2>1. Sizes(t, o)
    BY DEF o
  <2> QED
    BY <1>0, <2>1, SumIs
<1> DEFINE S == {k \in Nat : k <= n => f[k] = g[k]}
<1>4. 0 \in S
  BY <1>1, <1>2
<1>5. ASSUME NEW k \in Nat, k \in S
      PROVE  k + 1 \in S
  <2> SUFFICES ASSUME k + 1 <= n PROVE f[k + 1] = g[k + 1]
    OBVIOUS
  <2> DEFINE m == k + 1
  <2>1. m \in 1..n /\ m \in 1..o /\ m - 1 = k
    BY <1>0
  <2>2. f[k] = g[k]
    BY <1>5
  <2> HIDE DEF m
  <2>3. f[m] = f[k] + s[m] /\ g[m] = g[k] + t[m] /\ s[m] = t[m]
    BY <1>1, <1>2, <2>1
  <2> QED
    BY <2>2, <2>3 DEF m
<1> HIDE DEF S
<1>6. Nat \subseteq S
  BY <1>4, <1>5, SetInduction
<1>7. f[n] = g[n]
  BY <1>6 DEF S
<1>8. o \in 1..o /\ n \in 0..n
  BY <1>0
<1>9. g[o] = g[n] + t[o]
  BY <1>0, <1>2, <1>8
<1> QED
  BY <1>1, <1>2, <1>7, <1>8, <1>9 DEF o

(***************************************************************************)
(* The host's actions, one behind the other, behind the header.            *)
(***************************************************************************)
LEMMA PlanIsActions ==
    ASSUME NEW cells, Encodable(cells)
    PROVE  /\ Len(cells) \in Nat \ {0}
           /\ cells[1].data \in Nat /\ cells[1].count \in Nat
           /\ \A i \in 1..(Len(cells) - 1) : IsAction(cells[i + 1])
<1> DEFINE C == [count : Nat, type : ActionTypes \cup {"unknown"}, proxy : BOOLEAN,
                 producers : Nat, data : Nat]
           m == Len(cells)
<1>1. m \in Nat \ {0} /\ \A i \in 1..m : cells[i] \in C
  <2> DEFINE D == C
  <2>1. cells \in Seq(D) /\ cells # <<>>
    BY DEF Encodable
  <2> HIDE DEF D
  <2>2. m \in Nat \ {0} /\ \A i \in 1..m : cells[i] \in D
    BY <2>1
  <2> QED
    BY <2>2 DEF D
<1>2. ASSUME NEW i \in 1..(m - 1)
      PROVE  IsAction(cells[i + 1])
  <2>1. i + 1 \in 2..m /\ i + 1 \in 1..m
    BY <1>1
  <2> DEFINE cell == cells[i + 1]
  <2>2. cell \in C
    BY <1>1, <2>1
  <2>3. /\ cell.producers <= 255 /\ cell.data \in 1..20
        /\ Contents[cell.data] \in ContentTypes
    <3>1. cell.producers <= 255 /\ cell.data \in DOMAIN Contents
      BY <2>1 DEF Encodable
    <3> QED
      BY <3>1, ContentsAssumption DEF ContentTypes
  <2> HIDE DEF cell
  <2>4. cell.type \in ActionTypes \cup {"unknown"} /\ cell.producers \in Nat
    BY <2>2
  <2> DEFINE n == cell.producers
  <2>5. n \in Nat /\ n <= 255
    BY <2>3, <2>4
  <2> HIDE DEF n
  <2>6. n \in 0..255
    BY <2>5
  <2>7. IsAction(cell)
    BY <2>3, <2>4, <2>6, Zenon DEF IsAction, n
  <2> QED
    BY <2>7 DEF cell
<1> QED
  BY <1>1, <1>2

\* CellEnd, of any cells.
End(cells, i) ==
    Len(HostHeader(cells[1])) + SumOf([j \in 1..(i - 1) |-> Len(HostAction(cells[j + 1]))])

LEMMA HeaderIsOctets ==
    ASSUME NEW cells, Encodable(cells)
    PROVE  Octets(HostHeader(cells[1])) /\ Len(HostHeader(cells[1])) \in Nat \ {0}
<1> DEFINE a == Fill(42, 9)
           b == Encode(cells[1].data)
           z == <<0>>
           c == Encode(cells[1].count)
           t == a \o b \o z \o z \o z \o c
<1>1. HostHeader(cells[1]) = t
  BY DEF HostHeader
<1>2. Octets(a) /\ Len(a) = 42
  <2>1. 9 \in Octet /\ 42 \in Nat
    BY DEF Octet
  <2> QED
    BY <2>1, FilledOctets
<1>3. Octets(z)
  BY DEF Octets, Octet
<1>4. Octets(b) /\ Octets(c)
  BY PlanIsActions, EncodedOctets
<1> HIDE DEF a, b, c, z, t
<1>5. {Len(a), Len(b), Len(z), Len(c)} \subseteq Nat
  BY <1>2, <1>3, <1>4, OctetsHaveLength
<1> DEFINE t1 == a \o b
           t2 == t1 \o z
           t3 == t2 \o z
           t4 == t3 \o z
<1>6. Octets(t1) /\ Len(t1) = Len(a) + Len(b)
  <2>1. Octets(a) /\ Octets(b)
    BY <1>2, <1>4
  <2> QED
    BY <2>1, JoinedIs
<1> HIDE DEF t1
<1>7. Octets(t2) /\ Len(t2) = Len(t1) + Len(z)
  BY <1>3, <1>6, JoinedIs
<1> HIDE DEF t2
<1>8. Octets(t3) /\ Len(t3) = Len(t2) + Len(z)
  BY <1>3, <1>7, JoinedIs
<1> HIDE DEF t3
<1>9. Octets(t4) /\ Len(t4) = Len(t3) + Len(z)
  BY <1>3, <1>8, JoinedIs
<1> HIDE DEF t4
<1>10. Octets(t4 \o c) /\ Len(t4 \o c) = Len(t4) + Len(c)
  BY <1>4, <1>9, JoinedIs
<1>11. t = t4 \o c
  BY DEF t, t1, t2, t3, t4
<1> QED
  BY <1>1, <1>2, <1>5, <1>6, <1>7, <1>8, <1>9, <1>10, <1>11

LEMMA EndNext ==
    ASSUME NEW cells, Encodable(cells)
    PROVE  /\ End(cells, 1) = Len(HostHeader(cells[1]))
           /\ \A i \in 1..Len(cells) : End(cells, i) \in Nat \ {0}
           /\ \A i \in 1..(Len(cells) - 1) :
                /\ Len(HostAction(cells[i + 1])) \in Nat
                /\ End(cells, i + 1) = End(cells, i) + Len(HostAction(cells[i + 1]))
<1> DEFINE m == Len(cells)
           L(j) == Len(HostAction(cells[j + 1]))
           sizes(i) == [j \in 1..i |-> L(j)]
           first == Len(HostHeader(cells[1]))
<1>1. m \in Nat \ {0} /\ first \in Nat \ {0}
  BY PlanIsActions, HeaderIsOctets
<1>2. \A j \in 1..(m - 1) : L(j) \in Nat
  BY PlanIsActions, ActionIsOctets, OctetsHaveLength
<1>3. \A i : End(cells, i) = first + SumOf(sizes(i - 1))
  BY DEF End
<1> HIDE DEF m, L, first
<1>4. ASSUME NEW i \in 0..(m - 1)
      PROVE  Sizes(sizes(i), i)
  <2>1. i \in Nat /\ \A j \in 1..i : j \in 1..(m - 1)
    BY <1>1
  <2>2. sizes(i) \in [1..i -> Nat]
    BY <1>2, <2>1
  <2> QED
    BY <2>1, <2>2 DEF Sizes
<1>5. \A i \in 0..(m - 2) : SumOf(sizes(i)) \in Nat /\ SumOf(sizes(i + 1)) = SumOf(sizes(i)) + L(i + 1)
  <2> SUFFICES ASSUME NEW i \in 0..(m - 2)
               PROVE  /\ SumOf(sizes(i)) \in Nat
                      /\ SumOf(sizes(i + 1)) = SumOf(sizes(i)) + L(i + 1)
    OBVIOUS
  <2> DEFINE s == sizes(i)
             t == sizes(i + 1)
  <2>1. i \in Nat /\ i \in 0..(m - 1) /\ i + 1 \in 0..(m - 1)
    BY <1>1
  <2>2. Sizes(s, i) /\ Sizes(t, i + 1)
    BY <1>4, <2>1
  <2>3. \A k \in 1..i : s[k] = t[k]
    BY <2>1
  <2>4. t[i + 1] = L(i + 1)
    BY <2>1
  <2> HIDE DEF s, t
  <2>5. SumOf(s) \in Nat /\ SumOf(t) = SumOf(s) + t[i + 1]
    BY <2>1, <2>2, <2>3, SumOfNext
  <2> QED
    BY <2>4, <2>5 DEF s, t
<1>6. SumOf(sizes(0)) = 0
  <2> DEFINE z == sizes(0)
  <2>1. 0 \in 0..(m - 1)
    BY <1>1
  <2>2. Sizes(z, 0)
    BY <1>4, <2>1
  <2> HIDE DEF z
  <2>3. SumOf(z) = 0
    BY <2>2, SumOfNone
  <2> QED
    BY <2>3 DEF z
<1> DEFINE S(i) == SumOf(sizes(i))
<1>7. S(0) = 0 /\ \A i \in 0..(m - 2) : S(i) \in Nat /\ S(i + 1) = S(i) + L(i + 1)
  BY <1>5, <1>6
<1>8. \A i : End(cells, i) = first + S(i - 1)
  BY <1>3
<1> HIDE DEF S
<1>9. \A i \in 0..(m - 1) : S(i) \in Nat
  <2> SUFFICES ASSUME NEW i \in 0..(m - 1)
               PROVE  S(i) \in Nat
    OBVIOUS
  <2>1. CASE i \in 0..(m - 2)
    BY <1>7, <2>1
  <2>2. CASE i = m - 1 /\ m > 1
    <3>1. i - 1 \in 0..(m - 2) /\ (i - 1) + 1 = i /\ i \in 1..(m - 1)
      BY <1>1, <2>2
    <3>2. S(i - 1) \in Nat /\ S((i - 1) + 1) = S(i - 1) + L((i - 1) + 1)
      BY <1>7, <3>1
    <3> QED
      BY <1>2, <3>1, <3>2
  <2>3. CASE i = 0
    BY <1>7, <2>3
  <2> QED
    BY <1>1, <2>1, <2>2, <2>3
<1>10. End(cells, 1) = first
  <2>1. End(cells, 1) = first + S(0)
    BY <1>8
  <2> QED
    BY <1>1, <1>7, <2>1
<1>11. ASSUME NEW i \in 1..m
       PROVE  End(cells, i) \in Nat \ {0}
  <2>1. i - 1 \in 0..(m - 1)
    BY <1>1
  <2>2. End(cells, i) = first + S(i - 1) /\ S(i - 1) \in Nat
    BY <1>8, <1>9, <2>1
  <2> QED
    BY <1>1, <2>2
<1>12. ASSUME NEW i \in 1..(m - 1)
       PROVE  End(cells, i + 1) = End(cells, i) + L(i)
  <2>1. i - 1 \in 0..(m - 2) /\ (i + 1) - 1 = i /\ (i - 1) + 1 = i
    BY <1>1
  <2>2. S(i) = S(i - 1) + L(i) /\ S(i - 1) \in Nat
    BY <1>7, <2>1
  <2>3. End(cells, i + 1) = first + S(i) /\ End(cells, i) = first + S(i - 1)
    BY <1>8, <2>1
  <2> QED
    BY <1>1, <1>2, <2>2, <2>3
<1> QED
  BY <1>2, <1>10, <1>11, <1>12 DEF m, L, first

LEMMA StandsInItself ==
    ASSUME NEW s, Octets(s)
    PROVE  Stands(s, s, 0)
<1>1. s \in Seq(Octet)
  BY DEF Octets
<1>2. DOMAIN s = 1..Len(s) /\ Len(s) \in Nat
  BY <1>1
<1>3. ASSUME NEW e \in 1..Len(s)
      PROVE  ByteAt(s, 0 + e - 1) = s[e]
  <2>1. (0 + e - 1) + 1 = e
    BY <1>2
  <2> QED
    BY <1>2, <2>1 DEF ByteAt
<1> QED
  BY <1>2, <1>3 DEF Stands

LEMMA StandsWithin ==
    ASSUME NEW flat, NEW bytes, NEW at \in Nat, Stands(flat, bytes, at), Len(flat) \in Nat,
           NEW s, NEW n \in Nat, NEW offset, Spread(flat, offset, s, n),
           NEW i \in 1..n, Len(s[i]) \in Nat
    PROVE  Stands(s[i], bytes, at + offset[i]) /\ offset[i] \in Nat
<1> DEFINE p == offset[i]
           l == Len(s[i])
<1>1. p \in Nat
  BY DEF Spread
<1>2. \A k \in 1..l : p + k \in 1..Len(flat) /\ flat[p + k] = s[i][k]
  BY DEF Spread
<1>3. /\ Len(bytes) \in Nat /\ Len(flat) <= Len(bytes)
      /\ \A e \in 1..Len(flat) : ByteAt(bytes, at + e - 1) = flat[e]
  BY DEF Stands
<1>4. l \in Nat
  OBVIOUS
<1> HIDE DEF p
<1>5. ASSUME NEW k \in 1..l
      PROVE  ByteAt(bytes, (at + p) + k - 1) = s[i][k]
  <2>1. p + k \in 1..Len(flat) /\ flat[p + k] = s[i][k]
    BY <1>2
  <2>2. ByteAt(bytes, at + (p + k) - 1) = flat[p + k]
    BY <1>3, <2>1
  <2>3. at + (p + k) - 1 = (at + p) + k - 1
    BY <1>1, <1>4
  <2> QED
    BY <2>1, <2>2, <2>3
<1>6. l <= Len(bytes)
  <2>1. CASE l = 0
    BY <1>3, <2>1
  <2>2. CASE l # 0
    <3>1. l \in 1..l
      BY <1>4, <2>2
    <3>2. p + l \in 1..Len(flat)
      BY <1>2, <3>1
    <3> HIDE DEF l
    <3> QED
      BY <1>1, <1>3, <1>4, <3>2
  <2> QED
    BY <2>1, <2>2
<1> QED
  BY <1>1, <1>3, <1>5, <1>6 DEF Stands, p, l

LEMMA TransactionIsLaidOut ==
    ASSUME NEW cells, Encodable(cells)
    PROVE  /\ Stands(HostHeader(cells[1]), HostTx(cells), 0)
           /\ \A i \in 1..(Len(cells) - 1) :
                Stands(HostAction(cells[i + 1]), HostTx(cells), End(cells, i))
           /\ Stands(HostTrailer, HostTx(cells), End(cells, Len(cells)))
           /\ Octets(HostTx(cells)) /\ Len(HostTx(cells)) = End(cells, Len(cells)) + 33
<1> DEFINE m == Len(cells)
           n == m - 1
           tx == HostTx(cells)
           head == HostHeader(cells[1])
           first == Len(head)
           f(i) == HostAction(cells[i + 1])
           actions == [i \in 1..n |-> f(i)]
           flat == FlattenSeq(actions)
           B == Seq(Octet)
<1>1. m \in Nat \ {0} /\ n \in Nat
  BY PlanIsActions
<1>2. Octets(head) /\ first \in Nat
  BY HeaderIsOctets
<1>3. \A i \in 1..n : f(i) \in B /\ Len(f(i)) \in Nat
  BY PlanIsActions, ActionIsOctets, OctetsHaveLength DEF Octets
<1>4. /\ End(cells, 1) = first
      /\ \A i \in 1..m : End(cells, i) \in Nat
      /\ \A i \in 1..n : End(cells, i + 1) = End(cells, i) + Len(f(i))
  BY EndNext
<1>5. Octets(HostTrailer) /\ Len(HostTrailer) = 33
  <2>1. 0 \in Octet /\ 33 \in Nat
    BY DEF Octet
  <2> QED
    BY <2>1, FilledOctets DEF HostTrailer
<1>6. tx = (head \o flat) \o HostTrailer
  BY DEF HostTx
<1>7. m = n + 1
  BY <1>1
<1> HIDE DEF f, B, head, first, tx, m, n
<1>8. /\ actions \in Seq(B) /\ Len(actions) = n
      /\ \A i \in 1..n : actions[i] = f(i)
  <2>1. actions \in [1..n -> B]
    BY <1>3
  <2> QED
    BY <1>1, <2>1
<1> HIDE DEF actions, flat
<1>9. actions \in Seq(Seq(Octet))
  BY <1>8 DEF B
<1>10. Octets(flat) /\ Len(flat) \in Nat
  <2>1. Octets(flat)
    BY <1>9, FlattenedOctets DEF flat
  <2> QED
    BY <2>1, OctetsHaveLength
<1> DEFINE front == head \o flat
<1>11. Octets(front) /\ Len(front) = first + Len(flat)
  BY <1>2, <1>10, JoinedIs DEF first
<1> HIDE DEF front
<1>12. Octets(tx) /\ Len(tx) = Len(front) + 33
  <2>1. tx = front \o HostTrailer
    BY <1>6 DEF front
  <2>2. Octets(front \o HostTrailer) /\ Len(front \o HostTrailer) = Len(front) + Len(HostTrailer)
    <3>1. Octets(front) /\ Octets(HostTrailer)
      BY <1>5, <1>11
    <3> QED
      BY <3>1, JoinedIs
  <2> QED
    BY <1>5, <2>1, <2>2
<1>13. Stands(tx, tx, 0) /\ 0 \in Nat
  BY <1>12, StandsInItself
<1>14. Stands(front, tx, 0) /\ Stands(HostTrailer, tx, 0 + Len(front))
  <2>1. Stands(front \o HostTrailer, tx, 0)
    BY <1>6, <1>13 DEF front
  <2> QED
    BY <1>5, <1>11, <1>13, <2>1, StandBoth
<1>15. Stands(head, tx, 0) /\ Stands(flat, tx, 0 + Len(head)) /\ 0 + Len(head) \in Nat
  <2>1. Stands(head \o flat, tx, 0)
    BY <1>14 DEF front
  <2> QED
    BY <1>2, <1>10, <1>13, <2>1, StandBoth
<1>16. Stands(flat, tx, first)
  BY <1>2, <1>15 DEF first
<1>17. /\ Len(flat) = End(cells, m) - first
       /\ \A i \in 1..n : Stands(f(i), tx, End(cells, i))
  <2>1. CASE n = 0
    <3>1. flat = <<>>
      <4>1. Len(actions) = 0
        BY <1>8, <2>1
      <4> QED
        BY <4>1 DEF flat, FlattenSeq
    <3> QED
      BY <1>2, <1>4, <1>7, <2>1, <3>1
  <2>2. CASE n # 0
    <3>1. actions # <<>>
      BY <1>8, <2>2
    <3>2. PICK offset : Spread(flat, offset, actions, n)
      BY <1>8, <1>9, <3>1, FlattenedSpread DEF flat
    <3>3. /\ offset \in [1..n -> Nat] /\ offset[1] = 0
          /\ \A i \in 1..(n - 1) : offset[i + 1] = offset[i] + Len(f(i))
          /\ Len(flat) = offset[n] + Len(f(n))
      <4>1. n \in 1..n /\ \A i \in 1..(n - 1) : i \in 1..n
        BY <1>1, <2>2
      <4> QED
        BY <1>8, <3>2, <4>1 DEF Spread
    <3>4. \A i \in 1..n : first + offset[i] = End(cells, i)
      <4> DEFINE S == {k \in Nat : k + 1 <= n => first + offset[k + 1] = End(cells, k + 1)}
      <4>1. 0 \in S
        BY <1>2, <1>4, <3>3
      <4>2. ASSUME NEW k \in Nat, k \in S
            PROVE  k + 1 \in S
        <5> DEFINE o == k + 1
        <5>1. o \in Nat
          OBVIOUS
        <5>2. o <= n => first + offset[o] = End(cells, o)
          BY <4>2
        <5> HIDE DEF o
        <5> SUFFICES ASSUME o + 1 <= n
                     PROVE  first + offset[o + 1] = End(cells, o + 1)
          BY <5>1 DEF o
        <5>3. o \in 1..(n - 1) /\ o \in 1..n /\ o <= n
          BY <1>1, <5>1 DEF o
        <5>4. offset[o + 1] = offset[o] + Len(f(o)) /\ offset[o] \in Nat
          BY <3>3, <5>3
        <5>5. End(cells, o + 1) = End(cells, o) + Len(f(o)) /\ Len(f(o)) \in Nat
          BY <1>3, <1>4, <5>3
        <5>6. first + offset[o] = End(cells, o)
          BY <5>2, <5>3
        <5> QED
          BY <1>2, <5>4, <5>5, <5>6
      <4> HIDE DEF S
      <4>3. Nat \subseteq S
        BY <4>1, <4>2, SetInduction
      <4> TAKE i \in 1..n
      <4>4. i - 1 \in S /\ (i - 1) + 1 = i /\ i <= n
        BY <1>1, <4>3
      <4> QED
        BY <4>4 DEF S
    <3>5. Len(flat) = End(cells, m) - first
      <4>1. n \in 1..n
        BY <1>1, <2>2
      <4>2. first + offset[n] = End(cells, n) /\ offset[n] \in Nat
        BY <3>3, <3>4, <4>1
      <4>3. End(cells, m) = End(cells, n) + Len(f(n)) /\ Len(f(n)) \in Nat
        BY <1>3, <1>4, <1>7, <4>1
      <4> QED
        BY <1>2, <3>3, <4>2, <4>3
    <3>6. ASSUME NEW i \in 1..n
          PROVE  Stands(f(i), tx, End(cells, i))
      <4>1. actions[i] = f(i) /\ Len(actions[i]) \in Nat
        BY <1>3, <1>8
      <4>2. Stands(actions[i], tx, first + offset[i])
        BY <1>1, <1>2, <1>10, <1>16, <3>2, <4>1, StandsWithin
      <4> QED
        BY <3>4, <4>1, <4>2
    <3> QED
      BY <3>5, <3>6
  <2> QED
    BY <2>1, <2>2
<1>18. End(cells, m) \in Nat
  BY <1>1, <1>4
<1>19. Len(front) = End(cells, m) /\ 0 + Len(front) = End(cells, m)
  BY <1>2, <1>10, <1>11, <1>17, <1>18
<1> QED
  BY <1>7, <1>12, <1>14, <1>15, <1>17, <1>19 DEF m, n, tx, head, f

\* 42 bytes of the header come before its first varint.
LEMMA TransactionIs ==
    ASSUME NEW cells, Encodable(cells)
    PROVE  /\ cells[1].data \in Nat
           /\ Octets(HostTx(cells))
           /\ Stands(Encode(cells[1].data), HostTx(cells), 42)
<1> DEFINE a == Fill(42, 9)
           v == cells[1].data
           b == Encode(v)
           z == <<0>>
           c == Encode(cells[1].count)
           tx == HostTx(cells)
<1>1. v \in Nat /\ cells[1].count \in Nat
  BY PlanIsActions
<1>2. Octets(a) /\ Len(a) = 42
  <2>1. 9 \in Octet /\ 42 \in Nat
    BY DEF Octet
  <2> QED
    BY <2>1, FilledOctets
<1>3. Octets(z)
  BY DEF Octets, Octet
<1>4. Octets(b) /\ Octets(c)
  <2> HIDE DEF v
  <2> QED
    BY <1>1, EncodedOctets
<1>5. Stands(a \o b \o z \o z \o z \o c, tx, 0) /\ 0 \in Nat
  BY TransactionIsLaidOut DEF HostHeader
<1> HIDE DEF a, b, z, c, tx
<1>6. Stands(b, tx, 0 + Len(a))
  <2>1. Octets(a) /\ Octets(b) /\ Octets(z) /\ Octets(c)
    BY <1>2, <1>3, <1>4
  <2> HIDE DEF v
  <2> QED
    BY <1>5, <2>1, StandSix
<1>7. 0 + Len(a) = 42
  BY <1>2
<1>8. Octets(tx)
  BY TransactionIsLaidOut DEF tx
<1> QED
  BY <1>1, <1>6, <1>7, <1>8 DEF b, tx, v

-----------------------------------------------------------------------------
(***************************************************************************)
(* The bytes that the parser reads are those that the host wrote: no step  *)
(* changes them (tx.raw is filled before parse_tx is called).              *)
(***************************************************************************)
Written == plan \in Plans /\ raw = HostTx(plan)

LEMMA WrittenInit == Init => Written
BY DEF Init, Written

LEMMA WrittenNext == Written /\ [parse_tx]_vars => Written'
BY DEF Written, parse_tx, vars

LEMMA WrittenInvariant == Spec => []Written
<1> QED
  BY WrittenInit, WrittenNext, PTL DEF Spec

(***************************************************************************)
(* Where char is signed, as on the host of the tests, every number of 64   *)
(* bits that is encoded is read back by parse_varint32 over exactly the    *)
(* bytes that varint_encoding_length promises, whatever follows them, and  *)
(* only its bits beyond the 32nd are lost (varint_encode, varint_decode).  *)
(***************************************************************************)
THEOREM VarintsAlwaysComeBack ==
    ASSUME CHAR_SIGNED
    PROVE  Spec => []VarintsComeBack
<1>1. Written => VarintsComeBack
  <2> SUFFICES ASSUME Written
               PROVE  VarintsComeBack
    OBVIOUS
  <2> DEFINE v == plan[1].data
             s == Encode(v)
  <2>1. Encodable(plan)
    BY PlansAssumption DEF Written
  <2>2. v \in Nat /\ Stands(s, raw, 42)
    BY <2>1, TransactionIs DEF Written
  <2>3. v < Power(128, 10)
    <3>1. PICK k \in 1..10 : v < Power(128, k)
      BY <2>1 DEF Encodable
    <3> HIDE DEF v
    <3> DEFINE p == Power(128, k)
               q == Power(128, 10)
    <3>2. p <= q /\ p \in Nat /\ q \in Nat
      <4>1. k \in Nat /\ 10 \in Nat /\ k <= 10 /\ 128 \in Nat \ {0} /\ 128 \in Nat
        OBVIOUS
      <4> QED
        BY <4>1, PowerMonotone, PowerNext
    <3>3. v < p
      BY <3>1
    <3> HIDE DEF p, q
    <3>4. v < q
      BY <2>2, <3>2, <3>3
    <3> QED
      BY <3>4 DEF q
  <2> HIDE DEF v
  <2>4. IsCode(s, v)
    BY <2>2, EncodeIsWritten DEF IsWritten
  <2> HIDE DEF s
  <2>5. 42 \in Nat /\ NetUsageAt = 42
    BY DEF NetUsageAt
  <2>6. Bytes(raw, 42) = Len(s)
    BY <2>2, <2>4, <2>5, BytesOfCode
  <2>7. EncodingLength(v) = Len(s)
    BY <2>2, <2>3, <2>4, LengthOfCode
  <2>8. Varint(raw, 42) = v % UINT32
    BY <2>2, <2>4, <2>5, SumOfCode
  <2> QED
    BY <2>5, <2>6, <2>7, <2>8 DEF VarintsComeBack, v
<1> QED
  BY <1>1, WrittenInvariant, PTL

-----------------------------------------------------------------------------
(***************************************************************************)
(* Wherever the parser reads a varint, there is one: zeros follow the      *)
(* bytes of the host.                                                      *)
(***************************************************************************)
LEMMA ByteIsOctet ==
    ASSUME NEW bytes, Octets(bytes), NEW at \in Nat
    PROVE  ByteAt(bytes, at) \in 0..255 /\ (at >= Len(bytes) => ByteAt(bytes, at) = 0)
<1>1. bytes \in Seq(Octet)
  BY DEF Octets
<1>2. DOMAIN bytes = 1..Len(bytes) /\ Len(bytes) \in Nat
  BY <1>1
<1>3. \A i \in 1..Len(bytes) : bytes[i] \in Octet
  BY <1>1
<1>4. CASE at + 1 \in 1..Len(bytes)
  BY <1>2, <1>3, <1>4 DEF ByteAt, Octet
<1>5. CASE at + 1 \notin 1..Len(bytes)
  BY <1>2, <1>5 DEF ByteAt
<1>6. at >= Len(bytes) => at + 1 \notin 1..Len(bytes)
  BY <1>2
<1> QED
  BY <1>4, <1>5, <1>6

LEMMA BytesIsNatural ==
    ASSUME NEW bytes, Octets(bytes), NEW at \in Nat
    PROVE  Bytes(bytes, at) \in Nat \ {0}
<1> DEFINE N == Len(bytes)
           b(k) == ByteAt(bytes, at + k - 1)
           Ends(k) == b(k) < 128 /\ \A j \in 1..(k - 1) : b(j) >= 128
           S == {k \in Nat \ {0} : b(k) < 128}
<1>1. N \in Nat
  BY DEF Octets
<1>2. \A k \in Nat \ {0} : b(k) \in 0..255 /\ (k > N => b(k) = 0)
  <2> SUFFICES ASSUME NEW k \in Nat \ {0}
               PROVE  b(k) \in 0..255 /\ (k > N => b(k) = 0)
    OBVIOUS
  <2> DEFINE h == at + k - 1
  <2>1. h \in Nat /\ (k > N => h >= N)
    BY <1>1
  <2> HIDE DEF h, N
  <2>2. ByteAt(bytes, h) \in 0..255 /\ (h >= N => ByteAt(bytes, h) = 0)
    BY <2>1, ByteIsOctet DEF N
  <2> QED
    BY <2>1, <2>2 DEF h
<1>3. Bytes(bytes, at) = CHOOSE k \in 1..(N + 1) : Ends(k)
  BY DEF Bytes
<1> HIDE DEF N, b
<1>4. N + 1 \in S
  BY <1>1, <1>2
<1>5. PICK k \in S : \A h \in S : k <= h
  <2> HIDE DEF S
  <2>1. S \subseteq Nat /\ S # {}
    BY <1>4 DEF S
  <2> QED
    BY <2>1, LeastNatural
<1>6. k \in 1..(N + 1)
  BY <1>1, <1>4, <1>5
<1>7. Ends(k)
  <2>1. ASSUME NEW j \in 1..(k - 1)
        PROVE  b(j) >= 128
    <3>1. j \in Nat \ {0} /\ ~(k <= j)
      BY <1>6
    <3>2. j \notin S
      BY <1>5, <3>1
    <3>3. b(j) \in 0..255
      BY <1>2, <3>1
    <3> QED
      BY <3>1, <3>2, <3>3
  <2> QED
    BY <1>5, <2>1
<1> HIDE DEF Ends, S
<1>8. Bytes(bytes, at) \in 1..(N + 1)
  BY <1>3, <1>6, <1>7
<1> QED
  BY <1>1, <1>8

LEMMA VarintIsNatural ==
    ASSUME NEW bytes, Octets(bytes), NEW at \in Nat
    PROVE  Varint(bytes, at) \in Nat
<1> DEFINE n == Bytes(bytes, at)
           f == CHOOSE f : Sums(f, bytes, at, n)
           p(k) == Piece(bytes, at, k)
<1>1. n \in Nat
  BY BytesIsNatural
<1>2. Varint(bytes, at) = f[n] % UINT32
  BY DEF Varint, Sums, Piece
<1> HIDE DEF n
<1>3. \A k \in 1..n : p(k) \in Nat
  <2> SUFFICES ASSUME NEW k \in 1..n
               PROVE  p(k) \in Nat
    OBVIOUS
  <2> DEFINE h == k - 1
             g == at + k - 1
             d == ByteAt(bytes, g) % 128
             q == Power(128, h)
  <2>1. h \in Nat /\ g \in Nat /\ 128 \in Nat
    BY <1>1
  <2>2. p(k) = d * q
    BY DEF Piece
  <2> HIDE DEF h, g
  <2>3. q \in Nat
    BY <2>1, PowerNext
  <2>4. ByteAt(bytes, g) \in 0..255
    BY <2>1, ByteIsOctet
  <2>5. d \in Nat
    BY <2>4
  <2> HIDE DEF d, q, p
  <2> QED
    BY <2>2, <2>3, <2>5, Multiplied
<1>4. Sums(f, bytes, at, n)
  <2>1. \E g : Sums(g, bytes, at, n)
    BY <1>1, <1>3, SumsExist
  <2> QED
    BY <2>1
<1> HIDE DEF f, p
<1>5. f[0] = 0 /\ \A k \in 1..n : f[k] = f[k - 1] + p(k)
  <2>1. f = [k \in 0..n |-> IF k = 0 THEN 0 ELSE f[k - 1] + p(k)]
    BY <1>4 DEF Sums, p
  <2>2. 0 \in 0..n /\ \A k \in 1..n : k \in 0..n /\ k # 0
    BY <1>1
  <2> QED
    BY <2>1, <2>2
<1> DEFINE S == {e \in Nat : e <= n => f[e] \in Nat}
<1>6. 0 \in S
  BY <1>5
<1>7. ASSUME NEW e \in Nat, e \in S
      PROVE  e + 1 \in S
  <2> SUFFICES ASSUME e + 1 <= n
               PROVE  f[e + 1] \in Nat
    OBVIOUS
  <2>1. e <= n /\ e + 1 \in 1..n /\ (e + 1) - 1 = e
    BY <1>1
  <2> QED
    BY <1>3, <1>5, <1>7, <2>1
<1> HIDE DEF S
<1>8. n \in S
  BY <1>1, <1>6, <1>7, SetInduction
<1>9. f[n] \in Nat
  BY <1>1, <1>8 DEF S
<1> QED
  BY <1>2, <1>9, Uint32Assumption

(***************************************************************************)
(* Every position that the parser computes is a number.                    *)
(***************************************************************************)
Positions(f) ==
    f = [k \in 0..4 |-> IF k = 0 THEN NetUsageAt ELSE f[k - 1] + Bytes(raw, f[k - 1])]

\* The position behind the varint at a position.
Behind(at) == at + Bytes(raw, at)

LEMMA CountAtIs == CountAt = Behind(Behind(Behind(Behind(NetUsageAt))))
<1> DEFINE a == NetUsageAt
           x1 == Behind(a)
           x2 == Behind(x1)
           x3 == Behind(x2)
           x4 == Behind(x3)
           g == [k \in 0..4 |-> CASE k = 0 -> a [] k = 1 -> x1 [] k = 2 -> x2
                                  [] k = 3 -> x3 [] k = 4 -> x4]
           f == CHOOSE f : Positions(f)
<1>1. g[0] = a /\ g[1] = x1 /\ g[2] = x2 /\ g[3] = x3 /\ g[4] = x4
  OBVIOUS
<1>2. g = [k \in 0..4 |-> g[k]]
  OBVIOUS
<1> HIDE DEF a, g
<1>3. \A k \in 0..4 : g[k] = IF k = 0 THEN a ELSE Behind(g[k - 1])
  <2> SUFFICES ASSUME NEW k \in 0..4
               PROVE  g[k] = IF k = 0 THEN a ELSE Behind(g[k - 1])
    OBVIOUS
  <2>1. k = 0 \/ k = 1 \/ k = 2 \/ k = 3 \/ k = 4
    OBVIOUS
  <2> QED
    BY <1>1, <2>1
<1>4. g = [k \in 0..4 |-> IF k = 0 THEN a ELSE Behind(g[k - 1])]
  BY <1>2, <1>3
<1>5. Positions(g)
  BY <1>4 DEF Positions, Behind, a
<1>6. Positions(f)
  BY <1>5
<1>7. CountAt = f[4]
  BY DEF CountAt, Positions
<1> HIDE DEF f
<1>8. \A k \in 0..4 : f[k] = IF k = 0 THEN a ELSE Behind(f[k - 1])
  BY <1>6 DEF Positions, Behind, a
<1>9. f[0] = a
  BY <1>8
<1>10. f[1] = Behind(f[0])
  BY <1>8
<1>11. f[2] = Behind(f[1])
  BY <1>8
<1>12. f[3] = Behind(f[2])
  BY <1>8
<1>13. f[4] = Behind(f[3])
  BY <1>8
<1> QED
  BY <1>7, <1>9, <1>10, <1>11, <1>12, <1>13 DEF a

(***************************************************************************)
(* The first action stands behind the number of actions, where parse_tx    *)
(* starts: four varints are skipped, of which three are zeros.             *)
(***************************************************************************)
LEMMA HeaderIsSkipped ==
    ASSUME CHAR_SIGNED, NEW cell, cell.data \in Nat, cell.count \in Nat,
           Stands(HostHeader(cell), raw, 0)
    PROVE  /\ CountAt \in Nat
           /\ CountAt + Bytes(raw, CountAt) = Len(HostHeader(cell))
           /\ Varint(raw, CountAt) = cell.count % UINT32
<1> DEFINE a == Fill(42, 9)
           v == cell.data
           b == Encode(v)
           z == <<0>>
           w == cell.count
           c == Encode(w)
           t == a \o b \o z \o z \o z \o c
           p == Len(b)
           q == Len(c)
<1>1. HostHeader(cell) = t
  BY DEF HostHeader
<1>2. Octets(a) /\ Len(a) = 42
  <2>1. 9 \in Octet /\ 42 \in Nat
    BY DEF Octet
  <2> QED
    BY <2>1, FilledOctets
<1>3. Octets(z) /\ Len(z) = 1
  BY DEF Octets, Octet
<1>4. Octets(b) /\ Octets(c)
  <2> HIDE DEF v, w
  <2> QED
    BY EncodedOctets DEF v, w
<1>5. Stands(t, raw, 0) /\ 0 \in Nat
  BY <1>1
<1>6. NetUsageAt = 42
  BY DEF NetUsageAt
<1> HIDE DEF a, b, c, z, v, w
<1> DEFINE t1 == a \o b
           t2 == t1 \o z
           t3 == t2 \o z
           t4 == t3 \o z
           t5 == t4 \o c
<1>7. t = t5
  OBVIOUS
<1> HIDE DEF t
<1>8. Octets(t1) /\ Len(t1) = 42 + p /\ p \in Nat
  <2>1. Octets(a) /\ Octets(b)
    BY <1>2, <1>4
  <2> HIDE DEF t2, t3, t4, t5
  <2>2. Octets(t1) /\ Len(t1) = Len(a) + Len(b) /\ Len(b) \in Nat
    BY <2>1, JoinedIs
  <2> QED
    BY <1>2, <2>2
<1> HIDE DEF t1, p
<1>9. Octets(t2) /\ Len(t2) = 43 + p
  <2>1. Octets(t2) /\ Len(t2) = Len(t1) + Len(z)
    BY <1>3, <1>8, JoinedIs
  <2> HIDE DEF t2
  <2> QED
    BY <1>3, <1>8, <2>1
<1> HIDE DEF t2
<1>10. Octets(t3) /\ Len(t3) = 44 + p
  <2>1. Octets(t3) /\ Len(t3) = Len(t2) + Len(z)
    BY <1>3, <1>9, JoinedIs
  <2> HIDE DEF t3
  <2> QED
    BY <1>3, <1>8, <1>9, <2>1
<1> HIDE DEF t3
<1>11. Octets(t4) /\ Len(t4) = 45 + p
  <2>1. Octets(t4) /\ Len(t4) = Len(t3) + Len(z)
    BY <1>3, <1>10, JoinedIs
  <2> HIDE DEF t4
  <2> QED
    BY <1>3, <1>8, <1>10, <2>1
<1> HIDE DEF t4
<1>12. Len(t5) = 45 + p + q /\ q \in Nat
  <2>1. Len(t5) = Len(t4) + Len(c) /\ Len(c) \in Nat
    BY <1>4, <1>11, JoinedIs
  <2> HIDE DEF t5
  <2> QED
    BY <1>8, <1>11, <2>1
<1>13. Stands(t5, raw, 0)
  BY <1>5, <1>7
<1>14. Stands(t4, raw, 0) /\ Stands(c, raw, 0 + Len(t4))
  BY <1>4, <1>5, <1>11, <1>13, StandBoth
<1> HIDE DEF t5
<1>15. Stands(t3, raw, 0) /\ Stands(z, raw, 0 + Len(t3))
  BY <1>3, <1>5, <1>10, <1>14, StandBoth DEF t4
<1>16. Stands(t2, raw, 0) /\ Stands(z, raw, 0 + Len(t2))
  BY <1>3, <1>5, <1>9, <1>15, StandBoth DEF t3
<1>17. Stands(t1, raw, 0) /\ Stands(z, raw, 0 + Len(t1))
  BY <1>3, <1>5, <1>8, <1>16, StandBoth DEF t2
<1>18. Stands(b, raw, 0 + 42)
  BY <1>2, <1>4, <1>5, <1>17, StandBoth DEF t1
<1>19. /\ 0 + 42 = 42 /\ 0 + Len(t1) = 42 + p /\ 0 + Len(t2) = 43 + p /\ 0 + Len(t3) = 44 + p
       /\ 0 + Len(t4) = 45 + p
       /\ 42 \in Nat /\ 42 + p \in Nat /\ 43 + p \in Nat /\ 44 + p \in Nat /\ 45 + p \in Nat
  BY <1>8, <1>9, <1>10, <1>11
<1>20. Behind(42) = 42 + p
  <2>1. v \in Nat
    BY DEF v
  <2>2. Bytes(raw, 42) = Len(b)
    BY <1>18, <1>19, <2>1, EncodedIsRead DEF b
  <2> QED
    BY <2>2 DEF Behind, p
<1>21. ASSUME NEW at \in Nat, Stands(z, raw, at)
       PROVE  Behind(at) = at + 1
  <2>1. IsCode(z, 0) /\ 0 \in Nat
    BY ZeroIsCode DEF z
  <2>2. Bytes(raw, at) = Len(z)
    BY <1>21, <2>1, BytesOfCode
  <2> QED
    BY <1>3, <2>2 DEF Behind
<1>22. Behind(42 + p) = 43 + p /\ Behind(43 + p) = 44 + p /\ Behind(44 + p) = 45 + p
  <2>1. /\ (42 + p) + 1 = 43 + p /\ (43 + p) + 1 = 44 + p /\ (44 + p) + 1 = 45 + p
    BY <1>8
  <2>2. Behind(42 + p) = (42 + p) + 1
    BY <1>17, <1>19, <1>21
  <2>3. Behind(43 + p) = (43 + p) + 1
    BY <1>16, <1>19, <1>21
  <2>4. Behind(44 + p) = (44 + p) + 1
    BY <1>15, <1>19, <1>21
  <2> QED
    BY <2>1, <2>2, <2>3, <2>4
<1>23. CountAt = 45 + p
  BY <1>6, <1>20, <1>22, CountAtIs
<1>24. Bytes(raw, CountAt) = q /\ Varint(raw, CountAt) = w % UINT32
  <2>1. w \in Nat /\ Stands(c, raw, CountAt) /\ CountAt \in Nat
    BY <1>14, <1>19, <1>23 DEF w
  <2> HIDE DEF q
  <2> QED
    BY <2>1, EncodedIsRead DEF c, q
<1> QED
  BY <1>1, <1>7, <1>12, <1>19, <1>23, <1>24 DEF w

LEMMA CountAtIsNatural ==
    ASSUME Octets(raw)
    PROVE  CountAt \in Nat
<1>1. \A x \in Nat : Behind(x) \in Nat
  <2> SUFFICES ASSUME NEW x \in Nat
               PROVE  x + Bytes(raw, x) \in Nat
    BY DEF Behind
  <2>1. Bytes(raw, x) \in Nat
    BY BytesIsNatural
  <2> QED
    BY <2>1
<1>2. NetUsageAt \in Nat
  BY DEF NetUsageAt
<1> QED
  BY <1>1, <1>2, CountAtIs

LEMMA OpEndIsOffset ==
    ASSUME Octets(raw), NEW at \in Nat
    PROVE  OpEnd(at) \in 0..(UINT16 - 1)
<1> DEFINE size == SizeAt(at)
           start == DataAt(at)
<1>1. \A x \in Nat : Bytes(raw, x) \in Nat /\ Varint(raw, x) \in Nat
  BY BytesIsNatural, VarintIsNatural
<1>2. at + 16 \in Nat
  OBVIOUS
<1>6. UINT16 \in Nat \ {0}
  BY WidthAssumption
<1>3. size \in Nat /\ size >= at
  <2> DEFINE n == 16 + Bytes(raw, at + 16) + 16 * Varint(raw, at + 16)
  <2>1. n \in Nat
    BY <1>1, <1>2
  <2>2. size = at + (n % UINT16)
    BY DEF SizeAt, Moved
  <2> HIDE DEF n, size
  <2> QED
    BY <1>6, <2>1, <2>2
<1>4. start \in Nat
  <2> DEFINE n == (size - at) + Bytes(raw, size)
  <2>1. start = at + (n % UINT16)
    BY DEF DataAt, Moved
  <2> HIDE DEF size
  <2>2. n \in Nat
    BY <1>1, <1>3
  <2> HIDE DEF n, start
  <2> QED
    BY <1>6, <2>1, <2>2
<1> HIDE DEF size, start
<1>5. start + Varint(raw, size) \in Nat
  BY <1>1, <1>3, <1>4
<1> DEFINE end == start + Varint(raw, size)
<1>7. OpEnd(at) = end % UINT16
  BY DEF OpEnd, size, start
<1> HIDE DEF end
<1> QED
  BY <1>5, <1>6, <1>7 DEF end

\* The fields of tx_context_t that the parser keeps.
IsCursor(c) ==
    /\ DOMAIN c = {"offset", "opCount", "opIdx", "op"}
    /\ c.offset \in 0..(UINT16 - 1)
    /\ c.opCount \in 0..(BYTE - 1) /\ c.opIdx \in 0..(BYTE - 1)
    /\ c.op.type \in ActionTypes

ByteInv ==
    /\ Written
    /\ IsCursor(cursor)
    /\ status \in {"9000", "6e10", "6900"}

LEMMA WrittenOctets == Written => Octets(raw)
BY PlansAssumption, TransactionIs DEF Written

LEMMA OpCountIsByte ==
    ASSUME Octets(raw)
    PROVE  OpCount \in 0..(BYTE - 1)
<1> DEFINE v == Varint(raw, CountAt)
<1>1. v \in Nat
  BY CountAtIsNatural, VarintIsNatural
<1>2. OpCount = v % BYTE /\ BYTE \in Nat \ {0}
  BY WidthAssumption DEF OpCount
<1> HIDE DEF v
<1> QED
  BY <1>1, <1>2

LEMMA ByteInit == Init => ByteInv
<1> SUFFICES ASSUME Init
             PROVE  ByteInv
  OBVIOUS
<1>1. /\ cursor.offset = 0 /\ cursor.opCount = 0 /\ cursor.opIdx = 0
      /\ cursor.op.type = "transfer" /\ DOMAIN cursor = {"offset", "opCount", "opIdx", "op"}
  BY DEF Init
<1>2. UINT16 \in Nat \ {0} /\ BYTE \in Nat \ {0}
  BY WidthAssumption
<1>3. IsCursor(cursor)
  BY <1>1, <1>2, ActionTypesAre DEF IsCursor
<1> QED
  BY <1>3, WrittenInit DEF ByteInv, Init

LEMMA ByteNext ==
    ASSUME ByteInv, parse_tx
    PROVE  IsCursor(cursor') /\ status' \in {"9000", "6e10", "6900"}
<1>1. Octets(raw) /\ IsCursor(cursor)
  BY WrittenOctets DEF ByteInv
<1>2. OpCount \in 0..(BYTE - 1)
  BY <1>1, OpCountIsByte
<1>3. CASE TooManyOps
  <2>1. cursor' = [cursor EXCEPT !.opCount = OpCount] /\ status' = "6e10"
    BY <1>3 DEF TooManyOps
  <2> QED
    BY <1>1, <1>2, <2>1 DEF IsCursor
<1> DEFINE c == Started
           x == CountAt + Bytes(raw, CountAt)
           y == OpCount
<1>4. /\ c.offset \in Nat /\ DOMAIN c = {"offset", "opCount", "opIdx", "op"}
      /\ c.opCount \in 0..(BYTE - 1) /\ c.opIdx \in 0..(BYTE - 1)
      /\ c.op.type \in ActionTypes
  <2>1. CASE cursor.offset > 0
    <3>1. c = cursor
      BY <2>1 DEF Started
    <3> HIDE DEF c
    <3> QED
      BY <1>1, <2>1, <3>1, WidthAssumption DEF IsCursor
  <2>2. CASE ~(cursor.offset > 0)
    <3>1. c = [cursor EXCEPT !.offset = x, !.opCount = y, !.opIdx = 0]
      BY <2>2 DEF Started
    <3>2. CountAt \in Nat /\ Bytes(raw, CountAt) \in Nat
      BY <1>1, CountAtIsNatural, BytesIsNatural
    <3>3. x \in Nat
      BY <3>2
    <3>4. 0 \in 0..(BYTE - 1)
      BY WidthAssumption
    <3> HIDE DEF c, x, y
    <3> QED
      BY <1>1, <1>2, <3>1, <3>3, <3>4 DEF IsCursor, y
  <2> QED
    BY <2>1, <2>2
<1>5. CASE UnknownAction
  <2>1. cursor' = [c EXCEPT !.offset = cursor.offset] /\ status' = "6900"
    BY <1>5 DEF UnknownAction
  <2> HIDE DEF c
  <2> QED
    BY <1>1, <1>4, <2>1 DEF IsCursor
<1>6. CASE parse_op
  <2> DEFINE at == c.offset
             i == (c.opIdx + 1) % BYTE
             next == NextOffset(at, i, c.opCount)
             op == Details(TypeAt(at), DataAt(at))
  <2>1. /\ Known(at) /\ status' = "9000"
        /\ cursor' = [offset |-> next, opCount |-> c.opCount, opIdx |-> i, op |-> op]
    BY <1>6 DEF parse_op
  <2> HIDE DEF c
  <2>2. i \in 0..(BYTE - 1)
    BY <1>4, WidthAssumption
  <2>3. next \in 0..(UINT16 - 1)
    <3>1. OpEnd(at) \in 0..(UINT16 - 1)
      BY <1>1, <1>4, OpEndIsOffset
    <3>2. 0 \in 0..(UINT16 - 1)
      BY WidthAssumption
    <3> QED
      BY <3>1, <3>2 DEF NextOffset
  <2>4. op.type \in ActionTypes
    <3>1. op.type = TypeAt(at)
      BY DEF Details
    <3>2. TypeAt(at) \in ActionTypes
      <4>1. \E type \in ActionTypes : Names[type] = Slice(at + 8, 8)
        BY <2>1 DEF Known
      <4> QED
        BY <4>1 DEF TypeAt
    <3> QED
      BY <3>1, <3>2
  <2> HIDE DEF at, i, next, op
  <2> QED
    BY <1>4, <2>1, <2>2, <2>3, <2>4 DEF IsCursor
<1> QED
  BY <1>3, <1>5, <1>6 DEF parse_tx

LEMMA ByteInvariant == Spec => []ByteInv
<1>1. ByteInv /\ [parse_tx]_vars => ByteInv'
  <2> SUFFICES ASSUME ByteInv, [parse_tx]_vars
               PROVE  ByteInv'
    OBVIOUS
  <2>1. Written'
    BY WrittenNext DEF ByteInv
  <2>2. CASE parse_tx
    BY <2>1, <2>2, ByteNext DEF ByteInv, IsCursor
  <2>3. CASE UNCHANGED vars
    BY <2>1, <2>3 DEF ByteInv, IsCursor, vars
  <2> QED
    BY <2>2, <2>3
<1> QED
  BY <1>1, ByteInit, PTL DEF Spec

(***************************************************************************)
(* For every plan, the raw buffer is bytes, the offset has 16 bits, the    *)
(* counts have eight, and opDetails is an action that the parser knows     *)
(* (tx_context_t of eos_types.h, parse_tx).                                *)
(***************************************************************************)
THEOREM BytesTypeCorrect == Spec => []TypeOK
<1>1. ByteInv => TypeOK
  <2> SUFFICES ASSUME ByteInv
               PROVE  TypeOK
    OBVIOUS
  <2>1. raw \in Seq(0..(BYTE - 1))
    <3> DEFINE B == 0..(BYTE - 1)
    <3>1. raw \in Seq(Octet)
      BY WrittenOctets DEF ByteInv, Octets
    <3>2. Octet \subseteq B
      BY WidthAssumption, ByteAssumption DEF Octet
    <3> HIDE DEF B
    <3>3. raw \in Seq(B)
      BY <3>1, <3>2, Widened
    <3> QED
      BY <3>3 DEF B
  <2> QED
    BY <2>1 DEF ByteInv, Written, IsCursor, TypeOK
<1> QED
  BY <1>1, ByteInvariant, PTL

-----------------------------------------------------------------------------
(***************************************************************************)
(* A call starts, and stops, where an action of the plan does.             *)
(***************************************************************************)
\* No action is called by eight zeros.
LEMMA TrailerIsUnknown ==
    ASSUME NEW at \in Nat, Stands(HostTrailer, raw, at)
    PROVE  ~Known(at)
<1> SUFFICES ASSUME NEW type \in ActionTypes, Names[type] = Slice(at + 8, 8)
             PROVE  FALSE
  BY DEF Known
<1>1. Slice(at + 8, 8)[8] = ByteAt(raw, at + 8 + 8 - 1)
  BY DEF Slice
<1>2. Len(HostTrailer) = 33 /\ HostTrailer[16] = 0
  BY DEF HostTrailer, Fill
<1>3. ByteAt(raw, at + 16 - 1) = HostTrailer[16]
  BY <1>2 DEF Stands
<1>4. Names[type][8] = 0
  BY <1>1, <1>2, <1>3
<1>5. Names.transfer[8] # 0 /\ Names.buyram[8] # 0 /\ Names.buyrambytes[8] # 0
  BY DEF Names
<1>6. Names.sellram[8] # 0 /\ Names.delegatebw[8] # 0 /\ Names.undelegatebw[8] # 0
  BY DEF Names
<1>7. Names.voteproducer[8] # 0 /\ Names.newaccount[8] # 0
  BY DEF Names
<1> QED
  BY <1>4, <1>5, <1>6, <1>7, ActionTypesAre

LEMMA EndsGrow ==
    ASSUME NEW cells, Encodable(cells)
    PROVE  /\ \A i \in 1..Len(cells) : End(cells, i) <= End(cells, Len(cells))
           /\ \A i \in 1..(Len(cells) - 1) : End(cells, i) <= End(cells, i + 1)
<1> DEFINE m == Len(cells)
           e(i) == End(cells, i)
<1>1. m \in Nat \ {0}
  BY PlanIsActions
<1>2. \A i \in 1..m : e(i) \in Nat
  BY EndNext
<1>3. \A i \in 1..(m - 1) : e(i) <= e(i + 1)
  <2> SUFFICES ASSUME NEW i \in 1..(m - 1)
               PROVE  e(i) <= e(i + 1)
    OBVIOUS
  <2> DEFINE l == Len(HostAction(cells[i + 1]))
  <2>1. l \in Nat /\ e(i + 1) = e(i) + l
    BY EndNext
  <2>2. i \in 1..m
    BY <1>1
  <2>3. e(i) \in Nat
    BY <1>2, <2>2
  <2> HIDE DEF l, e
  <2> QED
    BY <2>1, <2>3
<1> HIDE DEF m, e
<1> DEFINE S == {k \in Nat : k < m => e(m - k) <= e(m)}
<1>4. 0 \in S
  <2>1. m \in 1..m /\ m - 0 = m
    BY <1>1
  <2>2. e(m) \in Nat
    BY <1>2, <2>1
  <2>3. e(m) <= e(m)
    BY <2>2
  <2> QED
    BY <2>1, <2>3
<1>5. ASSUME NEW k \in Nat, k \in S
      PROVE  k + 1 \in S
  <2> SUFFICES ASSUME k + 1 < m
               PROVE  e(m - (k + 1)) <= e(m)
    OBVIOUS
  <2> DEFINE i == m - (k + 1)
  <2>1. i \in 1..(m - 1) /\ i + 1 = m - k /\ k < m /\ i \in 1..m /\ i + 1 \in 1..m /\ m \in 1..m
    BY <1>1
  <2>2. e(m - k) <= e(m)
    BY <1>5, <2>1
  <2> HIDE DEF i
  <2>3. e(i) <= e(i + 1) /\ e(i) \in Nat /\ e(i + 1) \in Nat /\ e(m) \in Nat
    BY <1>2, <1>3, <2>1
  <2>4. e(i + 1) <= e(m)
    BY <2>1, <2>2
  <2>5. e(i) <= e(m)
    BY <2>3, <2>4
  <2> QED
    BY <2>5 DEF i
<1> HIDE DEF S
<1>6. Nat \subseteq S
  BY <1>4, <1>5, SetInduction
<1>7. ASSUME NEW i \in 1..m
      PROVE  e(i) <= e(m)
  <2>1. m - i \in S /\ m - i < m /\ m - (m - i) = i
    BY <1>1, <1>6
  <2> QED
    BY <2>1 DEF S
<1> QED
  BY <1>3, <1>7 DEF m, e

(***************************************************************************)
(* Between two calls the offset is 0, or the end of the cell of the plan   *)
(* that was parsed last; the number of the action, a byte, has not passed  *)
(* the number of actions, unless that is 0.                                *)
(***************************************************************************)
Bounded(c, cells) ==
    c.offset > 0 =>
        /\ c.opIdx + 1 \in 1..Len(cells)
        /\ c.offset = End(cells, c.opIdx + 1)
        /\ c.opCount = 0 \/ c.opIdx < c.opCount

OnABoundary == Bounded(cursor, plan)

LEMMA PlanIsWritten ==
    ASSUME Written
    PROVE  /\ Encodable(plan) /\ raw = HostTx(plan)
           /\ Len(raw) < UINT16 /\ Len(raw) < UINT32 /\ Len(raw) \in Nat
<1>1. Encodable(plan) /\ raw = HostTx(plan) /\ plan \in Plans
  BY PlansAssumption DEF Written
<1>2. Len(raw) < UINT16
  BY <1>1, LengthAssumption DEF Fits
<1>3. Len(raw) \in Nat
  BY WrittenOctets, OctetsHaveLength
<1>4. UINT16 <= UINT32
  BY LengthAssumption
<1> QED
  BY <1>1, <1>2, <1>3, <1>4, WidthAssumption, Uint32Assumption

LEMMA CellEndIs ==
    ASSUME NEW i
    PROVE  CellEnd(i) = End(plan, i)
BY DEF CellEnd, End

\* Where a call starts to parse an action.
LEMMA StartsOnABoundary ==
    ASSUME CHAR_SIGNED, ByteInv, OnABoundary
    PROVE  /\ Started.opIdx \in 0..(BYTE - 1) /\ Started.opCount \in 0..(BYTE - 1)
           /\ Started.opIdx + 1 \in 1..Len(plan)
           /\ Started.offset = CellEnd(Started.opIdx + 1)
           /\ Started.opCount = 0 \/ Started.opIdx < Started.opCount
           /\ cursor.offset = 0 => Started.opIdx = 0
<1>1. Written /\ IsCursor(cursor)
  BY DEF ByteInv
<1>2. Encodable(plan) /\ raw = HostTx(plan)
  BY <1>1, PlanIsWritten
<1>3. CASE cursor.offset > 0
  <2>1. Started = cursor
    BY <1>3 DEF Started
  <2> QED
    BY <1>1, <1>3, <2>1, CellEndIs, WidthAssumption DEF OnABoundary, Bounded, IsCursor
<1>4. CASE ~(cursor.offset > 0)
  <2> DEFINE x == CountAt + Bytes(raw, CountAt)
             y == OpCount
             c == Started
  <2>1. c = [cursor EXCEPT !.offset = x, !.opCount = y, !.opIdx = 0]
    BY <1>4 DEF Started
  <2>2. DOMAIN cursor = {"offset", "opCount", "opIdx", "op"}
    BY <1>1 DEF IsCursor
  <2>3. y \in 0..(BYTE - 1)
    BY <1>1, WrittenOctets, OpCountIsByte
  <2>4. x = CellEnd(1)
    <3>1. Stands(HostHeader(plan[1]), raw, 0)
      BY <1>2, TransactionIsLaidOut
    <3>2. plan[1].data \in Nat /\ plan[1].count \in Nat
      BY <1>2, PlanIsActions
    <3>3. x = Len(HostHeader(plan[1]))
      BY <3>1, <3>2, HeaderIsSkipped
    <3>4. End(plan, 1) = Len(HostHeader(plan[1]))
      BY <1>2, EndNext
    <3> QED
      BY <3>3, <3>4, CellEndIs
  <2>5. 1 \in 1..Len(plan)
    BY <1>2, PlanIsActions
  <2> HIDE DEF c, x, y
  <2>6. c.opIdx = 0 /\ c.opCount = y /\ c.offset = x
    BY <2>1, <2>2
  <2>7. 0 \in 0..(BYTE - 1) /\ 0 + 1 = 1
    BY WidthAssumption
  <2>8. y = 0 \/ 0 < y
    BY <2>3, WidthAssumption
  <2> QED
    BY <2>3, <2>4, <2>5, <2>6, <2>7, <2>8 DEF c
<1> QED
  BY <1>3, <1>4

\* An action that the parser knows is one of the plan, and is skipped over.
LEMMA KnownIsAction ==
    ASSUME CHAR_SIGNED, Written, NEW i \in 1..Len(plan), Known(CellEnd(i))
    PROVE  /\ i + 1 \in 1..Len(plan)
           /\ OpEnd(CellEnd(i)) = CellEnd(i + 1) /\ CellEnd(i + 1) > 0
<1> DEFINE m == Len(plan)
           at == CellEnd(i)
           cell == plan[i + 1]
<1>1. Encodable(plan) /\ raw = HostTx(plan) /\ Len(raw) < UINT16 /\ Len(raw) < UINT32
  BY PlanIsWritten
<1>2. m \in Nat \ {0}
  BY <1>1, PlanIsActions
<1>3. \A k \in 1..m : CellEnd(k) \in Nat \ {0} /\ CellEnd(k) <= CellEnd(m)
  BY <1>1, CellEndIs, EndNext, EndsGrow
<1>4. Stands(HostTrailer, raw, CellEnd(m)) /\ Len(raw) = CellEnd(m) + 33
  BY <1>1, CellEndIs, TransactionIsLaidOut
<1>5. i # m
  <2>1. CellEnd(m) \in Nat
    BY <1>2, <1>3
  <2> QED
    BY <1>4, <2>1, TrailerIsUnknown
<1>6. i \in 1..(m - 1) /\ i + 1 \in 1..m
  BY <1>2, <1>5
<1>7. IsAction(cell) /\ Stands(HostAction(cell), raw, at)
  BY <1>1, <1>6, CellEndIs, PlanIsActions, TransactionIsLaidOut
<1>8. CellEnd(i + 1) = at + Len(HostAction(cell))
  BY <1>1, <1>6, CellEndIs, EndNext
<1>9. at \in Nat
  BY <1>3
<1> HIDE DEF cell, at
<1>10. DataAt(at) + Varint(raw, SizeAt(at)) = CellEnd(i + 1)
  BY <1>1, <1>7, <1>8, <1>9, LengthAssumption, ActionIsSkipped
<1>11. OpEnd(at) = CellEnd(i + 1) % UINT16
  BY <1>10 DEF OpEnd
<1> DEFINE n == CellEnd(i + 1)
<1>12. n \in Nat \ {0} /\ n < UINT16 /\ UINT16 \in Nat
  <2>1. n <= CellEnd(m) /\ n \in Nat \ {0} /\ CellEnd(m) \in Nat
    BY <1>2, <1>3, <1>6
  <2> HIDE DEF n
  <2> QED
    BY <1>1, <1>4, <2>1, WidthAssumption
<1> HIDE DEF n
<1>13. n % UINT16 = n /\ n > 0
  BY <1>12
<1> QED
  BY <1>6, <1>11, <1>13 DEF n, at

LEMMA BoundaryInit == Init => OnABoundary
<1> SUFFICES ASSUME Init
             PROVE  OnABoundary
  OBVIOUS
<1>1. cursor.offset = 0
  BY DEF Init
<1> QED
  BY <1>1 DEF OnABoundary, Bounded

LEMMA BoundaryNext ==
    ASSUME CHAR_SIGNED, ByteInv, OnABoundary, parse_tx
    PROVE  OnABoundary'
<1> DEFINE c == Started
<1>1. Written /\ IsCursor(cursor) /\ plan' = plan
  BY DEF ByteInv, parse_tx
<1>2. /\ c.opIdx \in 0..(BYTE - 1) /\ c.opCount \in 0..(BYTE - 1)
      /\ c.opIdx + 1 \in 1..Len(plan)
      /\ c.offset = CellEnd(c.opIdx + 1)
      /\ c.opCount = 0 \/ c.opIdx < c.opCount
      /\ cursor.offset = 0 => c.opIdx = 0
  BY StartsOnABoundary
<1>3. CASE TooManyOps
  <2>1. cursor.offset = 0 /\ cursor' = [cursor EXCEPT !.opCount = OpCount] /\ status' = "6e10"
    BY <1>3 DEF TooManyOps
  <2>2. cursor'.offset = 0
    BY <1>1, <2>1 DEF IsCursor
  <2> QED
    BY <2>1, <2>2 DEF OnABoundary, Bounded
<1>4. CASE UnknownAction
  <2>1. cursor' = [c EXCEPT !.offset = cursor.offset] /\ status' = "6900"
    BY <1>4 DEF UnknownAction
  <2>2. CASE cursor.offset > 0
    <3>1. c = cursor
      BY <2>2 DEF Started
    <3>2. /\ cursor'.offset = cursor.offset /\ cursor'.opIdx = cursor.opIdx
          /\ cursor'.opCount = cursor.opCount
      <4>1. DOMAIN cursor = {"offset", "opCount", "opIdx", "op"}
        BY <1>1 DEF IsCursor
      <4>2. cursor' = [cursor EXCEPT !.offset = cursor.offset]
        BY <2>1, <3>1
      <4> QED
        BY <4>1, <4>2
    <3> QED
      BY <1>1, <2>1, <3>2 DEF OnABoundary, Bounded
  <2>3. CASE ~(cursor.offset > 0)
    <3>1. cursor.offset = 0
      BY <1>1, <2>3, WidthAssumption DEF IsCursor
    <3>2. c = [cursor EXCEPT !.offset = CountAt + Bytes(raw, CountAt), !.opCount = OpCount,
                             !.opIdx = 0]
      BY <2>3 DEF Started
    <3>3. cursor'.offset = 0
      <4> DEFINE x == CountAt + Bytes(raw, CountAt)
                 y == OpCount
      <4>1. DOMAIN cursor = {"offset", "opCount", "opIdx", "op"}
        BY <1>1 DEF IsCursor
      <4>2. c = [cursor EXCEPT !.offset = x, !.opCount = y, !.opIdx = 0]
        BY <3>2
      <4> HIDE DEF c, x, y
      <4> QED
        BY <2>1, <3>1, <4>1, <4>2
    <3> QED
      BY <2>1, <3>3 DEF OnABoundary, Bounded
  <2> QED
    BY <2>2, <2>3
<1>5. CASE parse_op
  <2> DEFINE i == c.opIdx + 1
             at == c.offset
             o == i % BYTE
             next == NextOffset(at, o, c.opCount)
             op == Details(TypeAt(at), DataAt(at))
  <2>1. /\ Known(at) /\ status' = "9000"
        /\ cursor' = [offset |-> next, opCount |-> c.opCount, opIdx |-> o, op |-> op]
    BY <1>5 DEF parse_op
  <2> HIDE DEF op, c
  <2>2. cursor'.offset = next /\ cursor'.opCount = c.opCount /\ cursor'.opIdx = o
    BY <2>1
  <2>3. i + 1 \in 1..Len(plan) /\ OpEnd(at) = CellEnd(i + 1) /\ CellEnd(i + 1) > 0
    BY <1>1, <1>2, <2>1, KnownIsAction
  <2>4. i \in 1..BYTE /\ BYTE \in Nat \ {0}
    BY <1>2, WidthAssumption
  <2>5. CASE c.opCount = o
    <3>1. next = 0
      BY <2>5 DEF NextOffset
    <3> QED
      BY <2>2, <2>5, <3>1 DEF OnABoundary, Bounded
  <2>6. CASE c.opCount # o
    <3>1. next = CellEnd(i + 1)
      BY <2>3, <2>6 DEF NextOffset
    <3>2. i < BYTE /\ o = i
      <4>1. CASE i = BYTE
        <5>1. o = 0
          BY <2>4, <4>1
        <5> QED
          BY <1>2, <2>4, <2>6, <4>1, <5>1
      <4>2. CASE i # BYTE
        BY <2>4, <4>2
      <4> QED
        BY <4>1, <4>2
    <3>3. c.opCount = 0 \/ o < c.opCount
      BY <1>2, <2>4, <2>6, <3>2
    <3>6. ~(next = 0)
      <4>1. CellEnd(i + 1) # 0
        BY <2>3
      <4> QED
        BY <3>1, <4>1
    <3>7. next = End(plan, o + 1)
      BY <3>1, <3>2, CellEndIs
    <3>8. OnABoundary'
      <4>1. o + 1 \in 1..Len(plan)
        BY <2>3, <3>2
      <4> HIDE DEF o, next
      <4>2. Bounded(cursor', plan)
        BY <2>2, <3>3, <3>7, <4>1 DEF Bounded
      <4> QED
        BY <1>1, <4>2 DEF OnABoundary
    <3> QED
      BY <2>2, <3>6, <3>8
  <2> QED
    BY <2>5, <2>6
<1> QED
  BY <1>3, <1>4, <1>5 DEF parse_tx

LEMMA BoundaryInvariant ==
    ASSUME CHAR_SIGNED
    PROVE  Spec => [](ByteInv /\ OnABoundary)
<1>1. OnABoundary /\ ByteInv /\ [parse_tx]_vars => OnABoundary'
  <2> SUFFICES ASSUME OnABoundary, ByteInv, [parse_tx]_vars
               PROVE  OnABoundary'
    OBVIOUS
  <2>1. CASE parse_tx
    BY <2>1, BoundaryNext
  <2>2. CASE UNCHANGED vars
    BY <2>2 DEF OnABoundary, vars
  <2> QED
    BY <2>1, <2>2
<1> QED
  BY <1>1, BoundaryInit, ByteInvariant, PTL DEF Spec

-----------------------------------------------------------------------------
(***************************************************************************)
(* An action is read as the action that it is: its name is its own, and    *)
(* its fields are copied from where the host put them.                     *)
(***************************************************************************)
LEMMA NamesDiffer ==
    ASSUME NEW type \in ActionTypes
    PROVE  /\ \A other \in ActionTypes : Names[type] = Names[other] => type = other
           /\ Names[type] # Fill(8, 1)
<1>1. /\ Names.transfer[8] = 205 /\ Names.buyram[8] = 62 /\ Names.buyram[2] = 0
      /\ Names.buyrambytes[8] = 62 /\ Names.buyrambytes[2] = 176
  BY DEF Names
<1>2. Names.sellram[8] = 194 /\ Names.delegatebw[8] = 74 /\ Names.undelegatebw[8] = 212
  BY DEF Names
<1>3. Names.voteproducer[8] = 221 /\ Names.newaccount[8] = 154
  BY DEF Names
<1>4. Fill(8, 1)[8] = 1
  BY DEF Fill
<1> QED
  BY <1>1, <1>2, <1>3, <1>4, ActionTypesAre

LEMMA SliceIs ==
    ASSUME NEW s, Octets(s), NEW at \in Nat, Stands(s, raw, at),
           NEW size \in Nat, Len(s) <= size
    PROVE  /\ SubSeq(Slice(at, size), 1, Len(s)) = s
           /\ Len(s) = size => Slice(at, size) = s
           /\ Len(Slice(at, size)) = size
<1> DEFINE l == Len(s)
           t == Slice(at, size)
<1>1. s \in Seq(Octet)
  BY DEF Octets
<1>2. l \in Nat /\ s = [e \in 1..l |-> s[e]]
  BY <1>1
<1>3. \A e \in 1..l : ByteAt(raw, at + e - 1) = s[e]
  BY DEF Stands
<1>4. t = [e \in 1..size |-> ByteAt(raw, at + e - 1)]
  BY DEF Slice
<1>5. Len(t) = size
  BY <1>4
<1> HIDE DEF l
<1>6. \A e \in 1..l : e \in 1..size /\ t[e] = s[e]
  BY <1>2, <1>3, <1>4 DEF l
<1> HIDE DEF t
<1>7. SubSeq(t, 1, l) = [e \in 1..l |-> t[e]]
  BY <1>2
<1>8. [e \in 1..l |-> t[e]] = [e \in 1..l |-> s[e]]
  BY <1>6
<1>9. SubSeq(t, 1, l) = s
  BY <1>2, <1>7, <1>8
<1>10. l = size => t = s
  BY <1>2, <1>4, <1>6 DEF t
<1> QED
  BY <1>5, <1>9, <1>10 DEF l, t

\* So many sizes, of which the first and the last are known.
Spans(s, n, first, last) == Sizes(s, n) /\ s[1] = first /\ s[n] = last

LEMMA JoinedSpans ==
    ASSUME NEW m \in Nat, NEW n \in Nat, m > 0, n > 0, NEW s, NEW t, NEW a, NEW b, NEW c, NEW d,
           Spans(s, m, a, b), Spans(t, n, c, d)
    PROVE  Spans(s \o t, m + n, a, d)
<1>1. Sizes(s, m) /\ Sizes(t, n) /\ s[1] = a /\ t[n] = d
  BY DEF Spans
<1>2. s \in Seq(Nat) /\ t \in Seq(Nat)
  BY <1>1 DEF Sizes
<1>3. /\ \A i \in 1..Len(s) : (s \o t)[i] = s[i]
      /\ \A i \in 1..Len(t) : (s \o t)[Len(s) + i] = t[i]
  BY <1>2, Joined
<1>4. Len(s) = m /\ Len(t) = n /\ 1 \in 1..m /\ n \in 1..n
  BY <1>1 DEF Sizes
<1>5. Sizes(s \o t, m + n)
  BY <1>1, JoinedSizes
<1> QED
  BY <1>1, <1>3, <1>4, <1>5 DEF Spans

\* The sizes that the parser copies are those of the ABI, but for the last
\* field of delegatebw, of which the parser copies more.
LEMMA SizesAgree ==
    ASSUME NEW type \in ActionTypes
    PROVE  /\ \E n \in 2..7 :
                /\ Sizes(FieldSizes[type], n) /\ Sizes(AbiSizes[type], n)
                /\ \A i \in 1..(n - 1) : FieldSizes[type][i] = AbiSizes[type][i]
                /\ AbiSizes[type][n] <= FieldSizes[type][n]
                /\ AbiSizes[type][1] = 8
           /\ type \in {"voteproducer", "newaccount"} =>
                FieldSizes[type] = <<8, 8>> /\ AbiSizes[type] = <<8, 8>>
<1> DEFINE names == <<8, 8>>
           price == <<8, 8, 4>>
           four == <<4>>
<1>1. /\ Spans(names, 2, 8, 8) /\ Spans(Asset, 2, 8, 8) /\ Spans(four, 1, 4, 4)
      /\ Spans(price, 3, 8, 4)
  BY DEF Spans, Sizes, Asset
<1> HIDE DEF names, price, four
<1> DEFINE one == names \o Asset
<1>4. Spans(one, 2 + 2, 8, 8)
  BY <1>1, JoinedSpans
<1> HIDE DEF one
<1> DEFINE two == one \o Asset
<1>5. Spans(two, 4 + 2, 8, 8)
  BY <1>1, <1>4, JoinedSpans
<1> HIDE DEF two
<1> DEFINE all == two \o four
<1>6. Spans(all, 6 + 1, 8, 4)
  BY <1>1, <1>5, JoinedSpans
<1> HIDE DEF all
<1> DEFINE F == [transfer |-> one, buyram |-> one, buyrambytes |-> price,
                 sellram |-> names, delegatebw |-> all, undelegatebw |-> two,
                 voteproducer |-> names, newaccount |-> names]
<1>7. FieldSizes = F
  BY DEF FieldSizes, all, two, one, names, price, four
<1>8. AbiSizes = [FieldSizes EXCEPT !.delegatebw = [@ EXCEPT ![7] = 1]]
  BY DEF AbiSizes
<1>9. CASE type = "delegatebw"
  <2> DEFINE abi == [all EXCEPT ![7] = 1]
  <2>1. AbiSizes[type] = abi /\ FieldSizes[type] = all
    BY <1>7, <1>8, <1>9
  <2>2. Sizes(all, 7) /\ all[1] = 8 /\ all[7] = 4
    BY <1>6 DEF Spans
  <2>3. Sizes(abi, 7)
    BY <2>2, LastOfSeven
  <2>4. DOMAIN all = 1..7
    <3>1. all \in Seq(Nat) /\ Len(all) = 7
      BY <2>2 DEF Sizes
    <3>2. DOMAIN all = 1..Len(all)
      BY <3>1
    <3> QED
      BY <3>1, <3>2
  <2>5. abi[7] = 1 /\ \A i \in 1..6 : abi[i] = all[i]
    BY <2>4
  <2> HIDE DEF abi
  <2>6. /\ 7 \in 2..7 /\ 7 - 1 = 6 /\ 1 <= 4 /\ abi[1] = 8
    BY <2>2, <2>5
  <2>7. abi[7] <= all[7]
    BY <2>2, <2>5
  <2>8. \A i \in 1..(7 - 1) : all[i] = abi[i]
    BY <2>5, <2>6
  <2> QED
    BY <1>9, <2>1, <2>2, <2>3, <2>6, <2>7, <2>8
<1>10. CASE type # "delegatebw"
  <2> DEFINE s == F[type]
  <2>1. AbiSizes[type] = s /\ FieldSizes[type] = s
    BY <1>7, <1>8, <1>10, ActionTypesAre
  <2>2. s \in {one, names, two, price}
    BY <1>10, ActionTypesAre
  <2>3. type \in {"voteproducer", "newaccount"} => s = <<8, 8>>
    BY DEF names
  <2> HIDE DEF s
  <2>4. PICK n \in 2..7 : Sizes(s, n)
    BY <1>1, <1>4, <1>5, <2>2 DEF Spans
  <2>5. s[n] <= s[n]
    <3>1. s \in Seq(Nat) /\ Len(s) = n
      BY <2>4 DEF Sizes
    <3>2. s[n] \in Nat
      BY <3>1
    <3> QED
      BY <3>2
  <2>6. s[1] = 8
    BY <1>1, <1>4, <1>5, <2>2 DEF Spans
  <2> QED
    BY <2>1, <2>3, <2>4, <2>5, <2>6
<1> QED
  BY <1>9, <1>10

\* What was copied for each field begins with the field.
Begin(read, fields) ==
    /\ Len(read) = Len(fields)
    /\ \A i \in 1..Len(fields) : SubSeq(read[i], 1, Len(fields[i])) = fields[i]

LEMMA FirstSizes ==
    ASSUME NEW n \in Nat, NEW s, Sizes(s, n), NEW k \in 0..n
    PROVE  Sizes(SubSeq(s, 1, k), k) /\ \A j \in 1..k : SubSeq(s, 1, k)[j] = s[j]
<1>1. s \in Seq(Nat) /\ Len(s) = n
  BY DEF Sizes
<1> DEFINE t == SubSeq(s, 1, k)
<1>2. k \in Nat /\ \A j \in 1..k : j \in 1..Len(s)
  BY <1>1
<1>3. t = [j \in 1..k |-> s[j]]
  BY <1>1, <1>2
<1>4. \A j \in 1..k : s[j] \in Nat
  BY <1>1, <1>2
<1> HIDE DEF t
<1>5. t \in Seq(Nat) /\ Len(t) = k /\ \A j \in 1..k : t[j] = s[j]
  BY <1>2, <1>3, <1>4
<1> QED
  BY <1>5 DEF Sizes, t

LEMMA FieldsAreRead ==
    ASSUME NEW n \in Nat \ {0}, NEW fields, Fields(fields), Len(fields) = n,
           NEW sizes, Sizes(sizes, n),
           \A i \in 1..(n - 1) : sizes[i] = Len(fields[i]),
           Len(fields[n]) <= sizes[n],
           NEW at \in Nat, Stands(FlattenSeq(fields), raw, at)
    PROVE  Begin(Struct(at, sizes), fields) /\ Len(Struct(at, sizes)) = n
<1> DEFINE flat == FlattenSeq(fields)
           t == Struct(at, sizes)
           S(i) == SumOf(SubSeq(sizes, 1, i))
<1>1. fields \in Seq(Seq(Octet)) /\ fields # <<>>
  BY DEF Fields
<1>2. PICK offset : Spread(flat, offset, fields, n)
  BY <1>1, FlattenedSpread
<1>3. Octets(flat) /\ Len(flat) \in Nat
  BY <1>1, FlattenedOctets, OctetsHaveLength
<1>4. \A i \in 1..n : Octets(fields[i]) /\ Len(fields[i]) \in Nat
  BY FieldIsOctets, OctetsHaveLength
<1>5. DOMAIN sizes = 1..n /\ \A i \in 1..n : sizes[i] \in Nat
  <2>1. sizes \in Seq(Nat) /\ Len(sizes) = n
    BY DEF Sizes
  <2>2. DOMAIN sizes = 1..Len(sizes) /\ \A i \in 1..Len(sizes) : sizes[i] \in Nat
    BY <2>1
  <2> QED
    BY <2>1, <2>2
<1>6. /\ offset \in [1..n -> Nat] /\ offset[1] = 0
      /\ \A i \in 1..(n - 1) : offset[i + 1] = offset[i] + Len(fields[i])
  BY <1>2 DEF Spread
<1>7. ASSUME NEW i \in 0..(n - 1)
      PROVE  S(i) \in Nat /\ S(i + 1) = S(i) + sizes[i + 1]
  <2> DEFINE u == SubSeq(sizes, 1, i)
             v == SubSeq(sizes, 1, i + 1)
  <2>1. i \in Nat /\ i \in 0..n /\ i + 1 \in 0..n /\ i + 1 \in 1..(i + 1)
    OBVIOUS
  <2>2. Sizes(u, i) /\ Sizes(v, i + 1)
    BY <2>1, FirstSizes
  <2>3. /\ \A j \in 1..i : u[j] = sizes[j]
        /\ \A j \in 1..(i + 1) : v[j] = sizes[j]
    BY <2>1, FirstSizes
  <2> HIDE DEF u, v
  <2>4. \A j \in 1..i : u[j] = v[j]
    BY <2>3
  <2>5. SumOf(u) \in Nat /\ SumOf(v) = SumOf(u) + v[i + 1]
    BY <2>1, <2>2, <2>4, SumOfNext
  <2> QED
    BY <2>1, <2>3, <2>5 DEF u, v
<1>8. S(0) = 0
  <2>1. 0 \in 0..n
    OBVIOUS
  <2>2. Sizes(SubSeq(sizes, 1, 0), 0)
    BY <2>1, FirstSizes
  <2> QED
    BY <2>2, SumOfNone
<1>9. t = [i \in 1..n |-> Slice(at + S(i - 1), sizes[i])]
  BY <1>5 DEF Struct
<1> HIDE DEF S, t, flat
<1> DEFINE T == {k \in Nat : k + 1 <= n => offset[k + 1] = S(k)}
<1>10. 0 \in T
  BY <1>6, <1>8
<1>11. ASSUME NEW k \in Nat, k \in T
       PROVE  k + 1 \in T
  <2> DEFINE o == k + 1
  <2>1. o \in Nat /\ (o <= n => offset[o] = S(k))
    BY <1>11
  <2> SUFFICES ASSUME o + 1 <= n
               PROVE  offset[o + 1] = S(o)
    OBVIOUS
  <2>2. o \in 1..(n - 1) /\ o <= n /\ k \in 0..(n - 1) /\ k + 1 = o
    OBVIOUS
  <2> HIDE DEF o
  <2>3. offset[o + 1] = offset[o] + Len(fields[o]) /\ sizes[o] = Len(fields[o])
    BY <1>6, <2>2
  <2>4. S(o) = S(k) + sizes[o]
    BY <1>7, <2>2
  <2> QED
    BY <2>1, <2>2, <2>3, <2>4
<1> HIDE DEF T
<1>12. Nat \subseteq T
  BY <1>10, <1>11, SetInduction
<1>13. ASSUME NEW i \in 1..n
       PROVE  SubSeq(t[i], 1, Len(fields[i])) = fields[i]
  <2> DEFINE p == offset[i]
             s == fields[i]
  <2>1. p = S(i - 1)
    <3>1. i - 1 \in T /\ (i - 1) + 1 = i /\ i <= n
      BY <1>12
    <3> QED
      BY <3>1 DEF T
  <2>2. Stands(s, raw, at + p) /\ p \in Nat
    <3>1. n \in Nat /\ Stands(flat, raw, at)
      BY DEF flat
    <3> QED
      BY <1>2, <1>3, <1>4, <3>1, StandsWithin
  <2>3. at + p \in Nat
    BY <2>2
  <2>4. t[i] = Slice(at + p, sizes[i])
    BY <1>9, <2>1
  <2>5. Len(s) <= sizes[i] /\ sizes[i] \in Nat
    <3>1. CASE i = n
      BY <1>5, <3>1
    <3>2. CASE i # n
      <4>1. i \in 1..(n - 1)
        BY <3>2
      <4>2. sizes[i] = Len(s) /\ sizes[i] \in Nat
        BY <1>5, <4>1
      <4> QED
        BY <4>2
    <3> QED
      BY <3>1, <3>2
  <2>6. Octets(s)
    BY <1>4
  <2> HIDE DEF p, s
  <2>7. SubSeq(Slice(at + p, sizes[i]), 1, Len(s)) = s
    BY <2>2, <2>3, <2>5, <2>6, SliceIs
  <2> QED
    BY <2>4, <2>7 DEF s
<1>14. Len(t) = n
  BY <1>9
<1> QED
  BY <1>13, <1>14 DEF Begin, t

LEMMA Uint32IsWide == UINT32 \in Nat /\ UINT32 >= 256
<1>1. UINT32 \in Nat \ {0} /\ BYTE \in Nat /\ BYTE >= 256 /\ UINT32 % BYTE = 0
  BY Uint32Assumption, WidthAssumption, ByteAssumption
<1>2. ~(UINT32 < BYTE)
  <2> SUFFICES ASSUME UINT32 < BYTE
               PROVE  FALSE
    OBVIOUS
  <2>1. UINT32 % BYTE = UINT32
    BY <1>1
  <2> QED
    BY <1>1, <2>1
<1> QED
  BY <1>1, <1>2

\* A number of the host that is a byte is read whole.
LEMMA ByteIsRead ==
    ASSUME CHAR_SIGNED, NEW v \in 0..255, NEW at \in Nat, Stands(Encode(v), raw, at)
    PROVE  Bytes(raw, at) = Len(Encode(v)) /\ Varint(raw, at) = v
<1>1. v \in Nat
  OBVIOUS
<1>2. v % UINT32 = v
  BY Uint32IsWide
<1> QED
  BY <1>1, <1>2, EncodedIsRead

LEMMA StructHasSizes ==
    ASSUME NEW n \in 2..7, NEW sizes, Sizes(sizes, n), NEW d \in 1..20
    PROVE  \A i \in 1..n : Len(HostStruct(sizes, d)[i]) = sizes[i]
<1>1. DOMAIN sizes = 1..n /\ \A i \in 1..n : sizes[i] \in Nat
  <2>1. sizes \in Seq(Nat) /\ Len(sizes) = n
    BY DEF Sizes
  <2>2. DOMAIN sizes = 1..Len(sizes) /\ \A i \in 1..Len(sizes) : sizes[i] \in Nat
    BY <2>1
  <2> QED
    BY <2>1, <2>2
<1> DEFINE byte(i) == IF d = 0 THEN 0 ELSE 10 * d + i
<1>2. \A i \in 1..n : HostStruct(sizes, d)[i] = Fill(sizes[i], byte(i))
  BY <1>1 DEF HostStruct
<1>3. \A i \in 1..n : byte(i) \in Octet
  BY DEF Octet
<1> HIDE DEF byte
<1>5. \A i \in 1..n : Len(Fill(sizes[i], byte(i))) = sizes[i]
  BY <1>1, <1>3, FilledOctets
<1> QED
  BY <1>2, <1>5

LEMMA StructBegins ==
    ASSUME NEW n \in 2..7, NEW sizes, Sizes(sizes, n), NEW d \in 1..20
    PROVE  HostStruct(sizes, d)[1] = Fill(sizes[1], 10 * d + 1)
<1>1. sizes \in Seq(Nat) /\ Len(sizes) = n
  BY DEF Sizes
<1>2. 1 \in DOMAIN sizes
  BY <1>1
<1> QED
  BY <1>2 DEF HostStruct

LEMMA SumOfFirst ==
    ASSUME NEW n \in Nat, NEW s, Sizes(s, n), NEW k \in 0..n
    PROVE  SumOf(SubSeq(s, 1, k)) \in Nat
<1> DEFINE t == SubSeq(s, 1, k)
<1>1. Sizes(t, k) /\ k \in Nat
  BY FirstSizes
<1> HIDE DEF t
<1>2. PICK f \in [0..k -> Nat] :
         SumOf(t) = f[k] /\ f[0] = 0 /\ \A j \in 1..k : f[j] = f[j - 1] + t[j]
  BY <1>1, SumIs
<1>3. k \in 0..k
  BY <1>1
<1>4. SumOf(t) \in Nat
  BY <1>2, <1>3
<1> QED
  BY <1>4 DEF t

LEMMA SliceIsOctets ==
    ASSUME Octets(raw), NEW at \in Nat, NEW size \in Nat
    PROVE  Octets(Slice(at, size)) /\ Len(Slice(at, size)) = size
<1>1. \A i \in 1..size : ByteAt(raw, at + i - 1) \in Octet
  <2> SUFFICES ASSUME NEW i \in 1..size
               PROVE  ByteAt(raw, at + i - 1) \in Octet
    OBVIOUS
  <2> DEFINE h == at + i - 1
  <2>1. h \in Nat
    OBVIOUS
  <2> HIDE DEF h
  <2>2. ByteAt(raw, h) \in 0..255
    BY <2>1, ByteIsOctet
  <2> QED
    BY <2>2 DEF h, Octet
<1>2. Slice(at, size) = [i \in 1..size |-> ByteAt(raw, at + i - 1)]
  BY DEF Slice
<1> DEFINE b(i) == ByteAt(raw, at + i - 1)
<1> HIDE DEF b
<1>3. [i \in 1..size |-> b(i)] \in Seq(Octet) /\ Len([i \in 1..size |-> b(i)]) = size
  BY <1>1 DEF b
<1> QED
  BY <1>2, <1>3 DEF Octets, b

LEMMA StructIsRead ==
    ASSUME Octets(raw), NEW at \in Nat, NEW n \in Nat, NEW sizes, Sizes(sizes, n)
    PROVE  Fields(Struct(at, sizes)) /\ Len(Struct(at, sizes)) = n
<1> DEFINE p(i) == at + SumOf(SubSeq(sizes, 1, i - 1))
           B == Seq(Octet)
           f(i) == Slice(p(i), sizes[i])
<1>1. DOMAIN sizes = 1..n /\ \A i \in 1..n : sizes[i] \in Nat
  <2>1. sizes \in Seq(Nat) /\ Len(sizes) = n
    BY DEF Sizes
  <2>2. DOMAIN sizes = 1..Len(sizes) /\ \A i \in 1..Len(sizes) : sizes[i] \in Nat
    BY <2>1
  <2> QED
    BY <2>1, <2>2
<1>2. ASSUME NEW i \in 1..n
      PROVE  f(i) \in B
  <2>1. i - 1 \in 0..n
    OBVIOUS
  <2>2. SumOf(SubSeq(sizes, 1, i - 1)) \in Nat
    BY <2>1, SumOfFirst
  <2>3. p(i) \in Nat
    BY <2>2
  <2> HIDE DEF p
  <2>4. Octets(Slice(p(i), sizes[i]))
    BY <1>1, <2>3, SliceIsOctets
  <2> QED
    BY <2>4 DEF Octets
<1>3. Struct(at, sizes) = [i \in 1..n |-> f(i)]
  BY <1>1 DEF Struct
<1> HIDE DEF f, B
<1>4. [i \in 1..n |-> f(i)] \in Seq(B) /\ Len([i \in 1..n |-> f(i)]) = n
  BY <1>2
<1> QED
  BY <1>3, <1>4 DEF Fields, B

LEMMA JoinedBegin ==
    ASSUME NEW r, NEW s, NEW f, NEW g, Fields(r), Fields(s), Fields(f), Fields(g),
           Begin(r, f), Begin(s, g)
    PROVE  Begin(r \o s, f \o g)
<1> DEFINE B == Seq(Octet)
           rs == r \o s
           fg == f \o g
<1>1. r \in Seq(B) /\ s \in Seq(B) /\ f \in Seq(B) /\ g \in Seq(B)
  BY DEF Fields
<1> HIDE DEF B
<1>2. /\ Len(rs) = Len(r) + Len(s)
      /\ \A i \in 1..Len(r) : rs[i] = r[i]
      /\ \A i \in 1..Len(s) : rs[Len(r) + i] = s[i]
  BY <1>1, Joined
<1>3. /\ Len(fg) = Len(f) + Len(g)
      /\ \A i \in 1..Len(f) : fg[i] = f[i]
      /\ \A i \in 1..Len(g) : fg[Len(f) + i] = g[i]
  BY <1>1, Joined
<1>4. Len(f) \in Nat /\ Len(g) \in Nat /\ Len(r) = Len(f) /\ Len(s) = Len(g)
  BY <1>1 DEF Begin
<1> HIDE DEF rs, fg
<1>5. ASSUME NEW i \in 1..Len(fg)
      PROVE  SubSeq(rs[i], 1, Len(fg[i])) = fg[i]
  <2>1. CASE i \in 1..Len(f)
    BY <1>2, <1>3, <1>4, <2>1 DEF Begin
  <2>2. CASE i \notin 1..Len(f)
    <3> DEFINE j == i - Len(f)
    <3>1. j \in 1..Len(g) /\ i = Len(f) + j
      BY <1>3, <1>4, <2>2
    <3> HIDE DEF j
    <3>2. rs[i] = s[j] /\ fg[i] = g[j]
      BY <1>2, <1>3, <1>4, <3>1
    <3> QED
      BY <3>1, <3>2 DEF Begin
  <2> QED
    BY <2>1, <2>2
<1> QED
  BY <1>2, <1>3, <1>4, <1>5 DEF Begin, rs, fg

\* One part, or two, behind one another.
LEMMA FlattenOne ==
    ASSUME NEW s, Len(s) = 1
    PROVE  FlattenSeq(s) = s[1]
<1>1. Len(s) \in Nat \ {0}
  OBVIOUS
<1>2. PICK f : Flattens(f, s, Len(s)) /\ FlattenSeq(s) = f[Len(s)]
  BY <1>1, FlattenIs
<1>3. Flattens(f, s, 1) /\ 1 \in 1..1
  BY <1>2
<1>4. f[1] = s[1]
  BY <1>3, FlattensAt
<1> QED
  BY <1>2, <1>4

LEMMA FlattenTwo ==
    ASSUME NEW s, Len(s) = 2
    PROVE  FlattenSeq(s) = s[1] \o s[2]
<1>1. Len(s) \in Nat \ {0}
  OBVIOUS
<1>2. PICK f : Flattens(f, s, Len(s)) /\ FlattenSeq(s) = f[Len(s)]
  BY <1>1, FlattenIs
<1>3. Flattens(f, s, 2) /\ 1 \in 1..2 /\ 2 \in 1..2
  BY <1>2
<1>4. f[1] = s[1]
  BY <1>3, FlattensAt
<1>5. f[2] = f[1] \o s[2]
  <2> DEFINE i == 2
  <2>1. i \in 1..2 /\ i # 1 /\ i - 1 = 1
    OBVIOUS
  <2> HIDE DEF i
  <2>2. i \in 1..2
    BY <2>1
  <2>3. Flattens(f, s, 2)
    BY <1>3
  <2>4. f[i] = IF i = 1 THEN s[i] ELSE f[i - 1] \o s[i]
    BY <2>2, <2>3, FlattensAt
  <2>5. f[i] = f[i - 1] \o s[i]
    BY <2>1, <2>4
  <2> QED
    BY <2>1, <2>5 DEF i
<1> QED
  BY <1>2, <1>4, <1>5

LEMMA OctetsAreFields ==
    ASSUME NEW a, NEW b, Octets(a), Octets(b)
    PROVE  Fields(<<a, b>>) /\ Len(<<a, b>>) = 2
<1> DEFINE B == Seq(Octet)
<1>1. a \in B /\ b \in B
  BY DEF Octets
<1> HIDE DEF B
<1>2. <<a, b>> \in Seq(B) /\ Len(<<a, b>>) = 2
  BY <1>1
<1> QED
  BY <1>2 DEF Fields, B

LEMMA NoneJoined ==
    ASSUME NEW s, Fields(s)
    PROVE  s \o <<>> = s
<1> DEFINE B == Seq(Octet)
<1>1. s \in Seq(B)
  BY DEF Fields
<1> HIDE DEF B
<1> QED
  BY <1>1

\* The fields of an action without a list.
LEMMA PlainActionIsRead ==
    ASSUME NEW cell, IsAction(cell), cell.type \in ActionTypes \ {"voteproducer", "newaccount"},
           Octets(raw), NEW at \in Nat, Stands(HostData(cell), raw, at)
    PROVE  Begin(Details(cell.type, at).fields, HostFields(cell))
<1> DEFINE type == cell.type
           d == cell.data
           read == FieldSizes[type]
           abi == AbiSizes[type]
           f == HostStruct(abi, d)
           flat == FlattenSeq(f)
           memo == HostMemo(cell)
<1>1. PICK n \in 2..7 : /\ Sizes(read, n) /\ Sizes(abi, n)
                        /\ \A i \in 1..(n - 1) : read[i] = abi[i]
                        /\ abi[n] <= read[n]
  BY SizesAgree
<1>2. d \in 1..20
  BY DEF IsAction
<1>3. HostFields(cell) = f
  BY DEF HostFields
<1>4. HostData(cell) = IF type = "transfer" THEN flat \o memo ELSE flat
  <2>1. type # "unknown" /\ type # "voteproducer" /\ type # "newaccount"
    BY ActionTypesAre
  <2>2. CASE type = "transfer"
    BY <1>3, <2>2 DEF HostData
  <2>3. CASE type # "transfer"
    BY <1>3, <2>1, <2>3 DEF HostData
  <2> QED
    BY <2>2, <2>3
<1>5. Details(type, at).fields = Struct(at, read) \o <<>>
  BY DEF Details
<1> HIDE DEF type, d, read, abi, f
<1>6. Fields(f) /\ Len(f) = n /\ \A i \in 1..n : Len(f[i]) = abi[i]
  <2>1. Sizes(abi, n) /\ d \in 1..20
    BY <1>1, <1>2
  <2>2. Fields(f) /\ Len(f) = n
    BY <2>1, StructIsFields DEF f
  <2>3. \A i \in 1..n : Len(f[i]) = abi[i]
    <3>1. \A i \in 1..n : Len(HostStruct(abi, d)[i]) = abi[i]
      BY <2>1, StructHasSizes
    <3> QED
      BY <3>1 DEF f
  <2> QED
    BY <2>2, <2>3
<1>7. Octets(flat)
  BY <1>6, FieldsFlattened
<1>8. Stands(flat, raw, at)
  <2>1. CASE type = "transfer"
    <3>1. Octets(memo)
      BY MemoIsOctets
    <3>2. Stands(flat \o memo, raw, at)
      BY <1>4, <2>1
    <3> HIDE DEF memo, flat
    <3> QED
      BY <1>7, <3>1, <3>2, StandBoth
  <2>2. CASE type # "transfer"
    BY <1>4, <2>2
  <2> QED
    BY <2>1, <2>2
<1>9. Begin(Struct(at, read), f)
  <2>1. n \in Nat \ {0} /\ n \in 1..n /\ \A i \in 1..(n - 1) : i \in 1..n
    OBVIOUS
  <2>2. \A i \in 1..(n - 1) : read[i] = Len(f[i])
    BY <1>1, <1>6, <2>1
  <2>3. Len(f[n]) <= read[n]
    BY <1>1, <1>6, <2>1
  <2> QED
    BY <1>1, <1>6, <1>8, <2>1, <2>2, <2>3, FieldsAreRead
<1>10. Struct(at, read) \o <<>> = Struct(at, read)
  <2>1. n \in Nat
    OBVIOUS
  <2>2. Fields(Struct(at, read))
    BY <1>1, <2>1, StructIsRead
  <2> QED
    BY <2>2, NoneJoined
<1> QED
  BY <1>3, <1>5, <1>9, <1>10 DEF type

\* Fields of eight bytes.
LEMMA SumOfEights ==
    ASSUME NEW n \in Nat, NEW s, Sizes(s, n), \A i \in 1..n : s[i] = 8, NEW k \in 0..n
    PROVE  SumOf(SubSeq(s, 1, k)) = 8 * k
<1> DEFINE t == SubSeq(s, 1, k)
<1>1. Sizes(t, k) /\ k \in Nat /\ \A j \in 1..k : t[j] = s[j]
  BY FirstSizes
<1> HIDE DEF t
<1>2. \A j \in 1..k : t[j] = 8
  BY <1>1
<1>3. PICK f \in [0..k -> Nat] :
         SumOf(t) = f[k] /\ f[0] = 0 /\ \A j \in 1..k : f[j] = f[j - 1] + t[j]
  BY <1>1, SumIs
<1> DEFINE S == {j \in Nat : j <= k => f[j] = 8 * j}
<1>4. 0 \in S
  BY <1>3
<1>5. ASSUME NEW j \in Nat, j \in S
      PROVE  j + 1 \in S
  <2> SUFFICES ASSUME j + 1 <= k
               PROVE  f[j + 1] = 8 * (j + 1)
    OBVIOUS
  <2>1. j <= k /\ j + 1 \in 1..k /\ (j + 1) - 1 = j
    BY <1>1
  <2>2. f[j] = 8 * j
    BY <1>5, <2>1
  <2>3. f[j + 1] = f[j] + 8
    BY <1>2, <1>3, <2>1
  <2> QED
    BY <2>2, <2>3
<1> HIDE DEF S
<1>6. k \in S
  BY <1>1, <1>4, <1>5, SetInduction
<1>7. f[k] = 8 * k
  BY <1>1, <1>6 DEF S
<1> QED
  BY <1>3, <1>7 DEF t

\* The two names in front of a list.
LEMMA NamesAreRead ==
    ASSUME Octets(raw), NEW a, NEW b, Octets(a), Octets(b), Len(a) = 8, Len(b) = 8,
           NEW at \in Nat, Stands(a \o b, raw, at)
    PROVE  Fields(Struct(at, <<8, 8>>)) /\ Begin(Struct(at, <<8, 8>>), <<a, b>>)
<1> DEFINE two == <<8, 8>>
           f == <<a, b>>
<1>1. Fields(f) /\ Len(f) = 2
  BY OctetsAreFields
<1>2. f[1] = a /\ f[2] = b
  OBVIOUS
<1>3. Sizes(two, 2) /\ two[1] = 8 /\ two[2] = 8
  BY DEF Sizes
<1> HIDE DEF two, f
<1>4. FlattenSeq(f) = a \o b
  BY <1>1, <1>2, FlattenTwo
<1> DEFINE n == 2
<1>5. n \in Nat \ {0} /\ n \in Nat /\ \A i \in 1..(n - 1) : i = 1
  OBVIOUS
<1>8. Len(f) = n /\ Sizes(two, n) /\ two[n] = 8 /\ f[n] = b
  BY <1>1, <1>2, <1>3
<1> HIDE DEF n
<1>6. Stands(FlattenSeq(f), raw, at)
  BY <1>4
<1>7. Fields(Struct(at, two))
  BY <1>5, <1>8, StructIsRead
<1>9. Begin(Struct(at, two), f)
  <2>1. \A i \in 1..(n - 1) : two[i] = Len(f[i])
    BY <1>2, <1>3, <1>5
  <2>2. Len(f[n]) <= two[n]
    <3>1. Len(f[n]) = 8
      BY <1>8
    <3>2. 8 <= 8
      OBVIOUS
    <3> QED
      BY <1>8, <3>1, <3>2, Zenon
  <2> QED
    BY <1>1, <1>5, <1>6, <1>8, <2>1, <2>2, FieldsAreRead
<1> QED
  BY <1>7, <1>9 DEF two, f

\* The producers of a vote, as many as the number in front of them says.
LEMMA ProducersAreRead ==
    ASSUME CHAR_SIGNED, NEW cell, cell.producers \in 0..255, Octets(raw), NEW at \in Nat,
           Stands(Encode(cell.producers) \o FlattenSeq(HostProducers(cell)), raw, at + 16)
    PROVE  Fields(Producers(at)) /\ Begin(Producers(at), HostProducers(cell))
<1> DEFINE p == cell.producers
           c == Encode(p)
           g == HostProducers(cell)
           e == FlattenSeq(g)
           h == at + 16
           first == h + Len(c)
           eights == [i \in 1..p |-> 8]
<1>1. p \in Nat /\ p \in 0..255 /\ h \in Nat
  OBVIOUS
<1>2. Octets(c)
  <2> HIDE DEF p
  <2> QED
    BY <1>1, EncodedOctets
<1>3. Fields(g)
  BY ProducersAreFields
<1>4. Octets(e)
  <2> HIDE DEF g
  <2> QED
    BY <1>3, FieldsFlattened
<1>5. g = [i \in 1..p |-> Fill(8, i)]
  BY DEF HostProducers
<1> HIDE DEF p, g
<1> HIDE DEF c, e, h, first, eights
<1>6. Len(g) = p /\ \A i \in 1..p : Len(g[i]) = 8
  <2>1. ASSUME NEW i \in 1..p
        PROVE  Len(g[i]) = 8
    <3>1. i \in Octet /\ 8 \in Nat
      BY <1>1 DEF Octet
    <3>2. Len(Fill(8, i)) = 8
      BY <3>1, FilledOctets
    <3>3. g[i] = Fill(8, i)
      BY <1>5
    <3> QED
      BY <3>2, <3>3
  <2>2. Len(g) = p
    BY <1>1, <1>5
  <2> QED
    BY <2>1, <2>2
<1>7. Stands(c, raw, h) /\ Stands(e, raw, first) /\ first \in Nat
  <2>1. Stands(c \o e, raw, h)
    BY DEF c, e, h, g, p
  <2>2. Stands(c, raw, h) /\ Stands(e, raw, h + Len(c)) /\ h + Len(c) \in Nat
    BY <1>1, <1>2, <1>4, <2>1, StandBoth
  <2> QED
    BY <2>2 DEF first
<1>8. Bytes(raw, h) = Len(c) /\ Varint(raw, h) = p
  BY <1>1, <1>7, ByteIsRead DEF c
<1>9. NumProducers(at) = p /\ at + 16 + Bytes(raw, at + 16) = first
  BY <1>8 DEF NumProducers, h, first
<1>10. Producers(at) = [i \in 1..p |-> Slice(first + 8 * (i - 1), 8)]
  BY <1>9 DEF Producers
<1>11. Sizes(eights, p) /\ \A i \in 1..p : eights[i] = 8
  BY <1>1 DEF Sizes, eights
<1>12. Producers(at) = Struct(first, eights)
  <2>1. DOMAIN eights = 1..p
    BY DEF eights
  <2>2. \A i \in 1..p : SumOf(SubSeq(eights, 1, i - 1)) = 8 * (i - 1)
    <3> SUFFICES ASSUME NEW i \in 1..p
                 PROVE  SumOf(SubSeq(eights, 1, i - 1)) = 8 * (i - 1)
      OBVIOUS
    <3> DEFINE k == i - 1
    <3>1. k \in 0..p
      BY <1>1
    <3> HIDE DEF k
    <3>2. SumOf(SubSeq(eights, 1, k)) = 8 * k
      BY <1>1, <1>11, <3>1, SumOfEights
    <3> QED
      BY <3>2 DEF k
  <2> QED
    BY <1>10, <1>11, <2>1, <2>2 DEF Struct
<1>13. Fields(Struct(first, eights)) /\ Len(Struct(first, eights)) = p
  BY <1>1, <1>7, <1>11, StructIsRead
<1>14. Begin(Struct(first, eights), g)
  <2>1. CASE p = 0
    <3>1. Len(g) = 0 /\ Len(Struct(first, eights)) = 0
      BY <1>6, <1>13, <2>1
    <3> QED
      BY <3>1 DEF Begin
  <2>2. CASE p # 0
    <3>1. p \in Nat \ {0} /\ p \in 1..p /\ \A i \in 1..(p - 1) : i \in 1..p
      BY <1>1, <2>2
    <3>2. ASSUME NEW i \in 1..(p - 1)
          PROVE  eights[i] = Len(g[i])
      <4>1. eights[i] = 8 /\ Len(g[i]) = 8
        BY <1>6, <1>11, <3>1
      <4> QED
        BY <4>1
    <3>3. Len(g[p]) = 8 /\ eights[p] = 8 /\ 8 <= 8
      BY <1>6, <1>11, <3>1
    <3>4. Len(g[p]) <= eights[p]
      BY <3>3, Zenon
    <3>5. Stands(FlattenSeq(g), raw, first)
      BY <1>7 DEF e
    <3> QED
      BY <1>3, <1>6, <1>7, <1>11, <3>1, <3>2, <3>4, <3>5, FieldsAreRead
  <2> QED
    BY <2>1, <2>2
<1> QED
  BY <1>12, <1>13, <1>14 DEF g

LEMMA VoteIsRead ==
    ASSUME CHAR_SIGNED, NEW cell, IsAction(cell), cell.type = "voteproducer",
           Octets(raw), NEW at \in Nat, Stands(HostData(cell), raw, at)
    PROVE  Begin(Details(cell.type, at).fields, HostFields(cell))
<1> DEFINE d == cell.data
           byte == IF cell.proxy THEN 7 ELSE 0
           a == HostStruct(<<8, 8>>, d)[1]
           b == Fill(8, byte)
           c == Encode(cell.producers)
           g == HostProducers(cell)
           e == FlattenSeq(g)
           two == <<a, b>>
           ab == a \o b
<1>1. d \in 1..20 /\ cell.producers \in 0..255
  BY DEF IsAction
<1>2. "voteproducer" \in ActionTypes
  BY ActionTypesAre
<1>3. FieldSizes.voteproducer = <<8, 8>> /\ AbiSizes.voteproducer = <<8, 8>>
  BY <1>2, SizesAgree
<1>4. HostFields(cell) = two \o g
  BY <1>3 DEF HostFields
<1>5. Octets(a) /\ Len(a) = 8
  <2> DEFINE s == <<8, 8>>
             n == 2
  <2>1. Sizes(s, n) /\ n \in 2..7 /\ 1 \in 1..n /\ s[1] = 8
    BY DEF Sizes
  <2> HIDE DEF s, n, d
  <2>2. Fields(HostStruct(s, d)) /\ Len(HostStruct(s, d)) = n
    BY <1>1, <2>1, StructIsFields
  <2>3. Len(HostStruct(s, d)[1]) = s[1]
    BY <1>1, <2>1, StructHasSizes
  <2>4. Octets(HostStruct(s, d)[1])
    BY <2>1, <2>2, FieldIsOctets
  <2> QED
    BY <2>1, <2>3, <2>4 DEF s
<1>6. Octets(b) /\ Len(b) = 8
  <2>1. byte \in Octet /\ 8 \in Nat
    BY DEF Octet
  <2> HIDE DEF byte
  <2> QED
    BY <2>1, FilledOctets
<1>7. Fields(g)
  BY <1>1, ProducersAreFields
<1>8. Octets(c) /\ Octets(e)
  <2>1. cell.producers \in Nat
    BY <1>1
  <2> HIDE DEF g
  <2> QED
    BY <1>7, <2>1, EncodedOctets, FieldsFlattened
<1> HIDE DEF a, b, d, byte
<1>9. Fields(two) /\ Len(two) = 2
  BY <1>5, <1>6, OctetsAreFields
<1>10. HostFields(cell)[1] = a /\ HostFields(cell)[2] = b
  <2> DEFINE B == Seq(Octet)
  <2>1. two \in Seq(B) /\ g \in Seq(B)
    BY <1>7, <1>9 DEF Fields
  <2>2. two[1] = a /\ two[2] = b /\ 1 \in 1..2 /\ 2 \in 1..2
    OBVIOUS
  <2> HIDE DEF B, two, g
  <2>3. \A i \in 1..Len(two) : (two \o g)[i] = two[i]
    BY <2>1, Joined
  <2>4. (two \o g)[1] = two[1] /\ (two \o g)[2] = two[2]
    BY <1>9, <2>2, <2>3
  <2> QED
    BY <1>4, <2>2, <2>4
<1>11. HostData(cell) = ab \o c \o e
  BY <1>10 DEF HostData
<1> HIDE DEF c, e, g
<1>12. Octets(ab) /\ Len(ab) = 16
  <2>1. Octets(a) /\ Octets(b)
    BY <1>5, <1>6
  <2>2. Octets(ab) /\ Len(ab) = Len(a) + Len(b)
    BY <2>1, JoinedIs
  <2> QED
    BY <1>5, <1>6, <2>2
<1> HIDE DEF ab
<1>13. Stands(ab, raw, at) /\ Stands(c \o e, raw, at + 16)
  <2> DEFINE ce == c \o e
  <2>1. Octets(ce)
    BY <1>8, JoinedOctets
  <2>2. ab \o c \o e = ab \o ce
    <3>1. ab \in Seq(Octet) /\ c \in Seq(Octet) /\ e \in Seq(Octet)
      BY <1>8, <1>12 DEF Octets
    <3> QED
      BY <3>1
  <2>3. Stands(ab \o ce, raw, at)
    BY <1>11, <2>2
  <2> HIDE DEF ce
  <2>4. Stands(ab, raw, at) /\ Stands(ce, raw, at + Len(ab))
    BY <1>12, <2>1, <2>3, StandBoth
  <2> QED
    BY <1>12, <2>4 DEF ce
<1>14. Fields(Struct(at, <<8, 8>>)) /\ Begin(Struct(at, <<8, 8>>), two)
  <2>1. Stands(a \o b, raw, at)
    BY <1>13 DEF ab
  <2> QED
    BY <1>5, <1>6, <2>1, NamesAreRead
<1>15. Fields(Producers(at)) /\ Begin(Producers(at), g)
  BY <1>1, <1>13, ProducersAreRead DEF c, e, g
<1>16. Details(cell.type, at).fields = Struct(at, <<8, 8>>) \o Producers(at)
  BY <1>3 DEF Details
<1> DEFINE r == Struct(at, <<8, 8>>)
<1> HIDE DEF two, r
<1>17. Begin(r \o Producers(at), two \o g)
  BY <1>7, <1>9, <1>14, <1>15, JoinedBegin DEF r
<1> QED
  BY <1>4, <1>16, <1>17 DEF r

(***************************************************************************)
(* An authority with one key, which is where parse_newaccount expects it,  *)
(* ends where it says: behind its accounts and its waits.                  *)
(***************************************************************************)
LEMMA AuthorityIsSkipped ==
    ASSUME CHAR_SIGNED, KEYS = 1, NEW cell, IsAction(cell), NEW who \in 1..2, NEW at \in Nat,
           Stands(HostAuthority(cell, who), raw, at), Len(raw) < UINT16, UINT16 <= UINT32
    PROVE  /\ KeyAt(at) \in Nat /\ Stands(HostKey(cell, who), raw, KeyAt(at))
           /\ AuthorityEnd(at) = at + Len(HostAuthority(cell, who))
<1> DEFINE few == Contents[cell.data].accounts
           many == Contents[cell.data].waits
           key == HostKey(cell, who)
           w(i) == <<0>> \o (IF i = 1 THEN key ELSE Fill(33, 99)) \o <<1, 0>>
           keys == [i \in 1..KEYS |-> w(i)]
           zero == <<0>>
           weight == <<1, 0>>
           a == Fill(4, 1)
           b == Encode(1)
           c == (zero \o key) \o weight
           e == Encode(few)
           g == Fill(18 * few, 5)
           u == Encode(many)
           h == Fill(6 * many, 6)
           t == a \o b \o c \o e \o g \o u
<1>1. few \in Nat /\ many \in Nat /\ 18 * few \in Nat /\ 6 * many \in Nat
  BY DEF IsAction, ContentTypes
<1>2. HostAuthority(cell, who) = t \o h
  <2>1. Len(keys) = 1 /\ keys[1] = c
    OBVIOUS
  <2>2. FlattenSeq(keys) = c
    <3> HIDE DEF keys, c
    <3> QED
      BY <2>1, FlattenOne
  <2>3. HostAuthority(cell, who) = a \o Encode(KEYS) \o FlattenSeq(keys) \o e \o g \o u \o h
    BY DEF HostAuthority
  <2> HIDE DEF a, c, e, g, u, h, keys
  <2> QED
    BY <2>2, <2>3
<1>3. /\ Octets(key) /\ Len(key) = 33 /\ Octets(zero) /\ Len(zero) = 1
      /\ Octets(weight) /\ Len(weight) = 2
  <2>1. Octets(key)
    BY KeyIsOctets
  <2>2. Len(key) = 33
    BY DEF HostKey, Fill
  <2> HIDE DEF key
  <2> QED
    BY <2>1, <2>2 DEF Octets, Octet
<1>4. Octets(a) /\ Len(a) = 4 /\ Octets(b) /\ Octets(e) /\ Octets(u)
  <2>1. 1 \in Octet /\ 4 \in Nat /\ 1 \in Nat
    BY DEF Octet
  <2>2. Octets(a) /\ Len(a) = 4
    BY <2>1, FilledOctets
  <2>3. Octets(b)
    BY <2>1, EncodedOctets
  <2> HIDE DEF few, many
  <2>4. Octets(e) /\ Octets(u)
    BY <1>1, EncodedOctets
  <2> QED
    BY <2>2, <2>3, <2>4
<1>5. Octets(g) /\ Len(g) = 18 * few /\ Octets(h) /\ Len(h) = 6 * many
  <2>1. 5 \in Octet /\ 6 \in Octet
    BY DEF Octet
  <2> DEFINE m == 18 * few
             n == 6 * many
  <2>2. m \in Nat /\ n \in Nat
    BY <1>1
  <2> HIDE DEF m, n
  <2>3. Octets(Fill(m, 5)) /\ Len(Fill(m, 5)) = m /\ Octets(Fill(n, 6)) /\ Len(Fill(n, 6)) = n
    BY <2>1, <2>2, FilledOctets
  <2> QED
    BY <2>3 DEF m, n
<1> HIDE DEF few, many, key, keys, zero, weight, a, b, e, g, u, h
<1>6. Octets(zero \o key) /\ Octets(c) /\ Len(c) = 36
  <2> DEFINE zk == zero \o key
  <2>1. Octets(zero) /\ Octets(key) /\ Octets(weight)
    BY <1>3
  <2>2. Octets(zk) /\ Len(zk) = Len(zero) + Len(key)
    BY <2>1, JoinedIs
  <2> HIDE DEF zk
  <2>3. Octets(zk \o weight) /\ Len(zk \o weight) = Len(zk) + Len(weight)
    BY <2>1, <2>2, JoinedIs
  <2> QED
    BY <1>3, <2>2, <2>3 DEF zk
<1> HIDE DEF c
<1>7. /\ {Len(a), Len(b), Len(c), Len(e), Len(g), Len(u)} \subseteq Nat
      /\ Octets(t) /\ Octets(h)
  <2>1. Octets(a) /\ Octets(b) /\ Octets(c) /\ Octets(e) /\ Octets(g) /\ Octets(u)
    BY <1>4, <1>5, <1>6
  <2> DEFINE t1 == a \o b
             t2 == t1 \o c
             t3 == t2 \o e
             t4 == t3 \o g
  <2>2. Octets(t1)
    BY <2>1, JoinedOctets
  <2>3. Octets(t2)
    BY <2>1, <2>2, JoinedOctets
  <2>4. Octets(t3)
    BY <2>1, <2>3, JoinedOctets
  <2>5. Octets(t4)
    BY <2>1, <2>4, JoinedOctets
  <2>6. Octets(t4 \o u)
    BY <2>1, <2>5, JoinedOctets
  <2>7. Len(a) \in Nat /\ Len(b) \in Nat /\ Len(c) \in Nat /\ Len(e) \in Nat /\ Len(g) \in Nat
        /\ Len(u) \in Nat
    BY <2>1, OctetsHaveLength
  <2> QED
    BY <1>5, <2>6, <2>7
<1>8. Stands(t, raw, at) /\ Len(t \o h) = Len(t) + Len(h)
  <2>1. Stands(t \o h, raw, at)
    BY <1>2
  <2> HIDE DEF t
  <2> QED
    BY <1>7, <2>1, StandBoth, JoinedIs
<1>9. /\ Len(t) = Len(a) + Len(b) + Len(c) + Len(e) + Len(g) + Len(u)
      /\ Stands(b, raw, at + Len(a))
      /\ Stands(c, raw, at + Len(a) + Len(b))
      /\ Stands(e, raw, at + Len(a) + Len(b) + Len(c))
      /\ Stands(u, raw, at + Len(a) + Len(b) + Len(c) + Len(e) + Len(g))
  <2>1. Octets(a) /\ Octets(b) /\ Octets(c) /\ Octets(e) /\ Octets(g) /\ Octets(u)
    BY <1>4, <1>5, <1>6
  <2>2. Stands(a \o b \o c \o e \o g \o u, raw, at)
    BY <1>8
  <2> QED
    BY <2>1, <2>2, StandSix
<1> HIDE DEF t
<1> DEFINE p == Len(b)
           q == Len(e)
           v == Len(u)
           k == at + 4 + p
<1>10. p \in Nat /\ q \in Nat /\ v \in Nat
  BY <1>7
<1>11. /\ Stands(b, raw, at + 4) /\ Stands(c, raw, k)
       /\ Stands(e, raw, k + 36) /\ Stands(u, raw, k + 36 + q + 18 * few)
  <2>1. /\ at + Len(a) = at + 4 /\ at + Len(a) + Len(b) = k
        /\ at + Len(a) + Len(b) + Len(c) = k + 36
        /\ at + Len(a) + Len(b) + Len(c) + Len(e) + Len(g) = k + 36 + q + 18 * few
    BY <1>1, <1>4, <1>5, <1>6, <1>10
  <2> QED
    BY <1>9, <2>1
<1>12. k \in Nat /\ k + 1 \in Nat /\ k + 36 \in Nat /\ at + 4 \in Nat
       /\ k + 36 + q + 18 * few \in Nat
  BY <1>1, <1>10
<1>13. Len(t \o h) = 4 + p + 36 + q + 18 * few + v + 6 * many
  BY <1>1, <1>4, <1>5, <1>6, <1>8, <1>9, <1>10
<1>24. /\ 4 + p + 36 + q + 18 * few < UINT16
       /\ 4 + p + 36 + q + 18 * few + v + 6 * many < UINT16
       /\ few < UINT32 /\ many < UINT32 /\ UINT16 \in Nat /\ UINT32 \in Nat
  <2> DEFINE l == Len(t \o h)
  <2>1. l <= Len(raw) /\ Len(raw) \in Nat
    BY <1>2 DEF Stands
  <2>2. l = 4 + p + 36 + q + 18 * few + v + 6 * many
    BY <1>13
  <2> HIDE DEF l, t, p, q, v
  <2> QED
    BY <1>1, <1>10, <2>1, <2>2, WidthAssumption, Uint32Assumption
<1>14. Stands(zero, raw, k) /\ Stands(key, raw, k + 1)
  <2> DEFINE zk == zero \o key
  <2>1. Octets(zero) /\ Octets(key) /\ Octets(weight) /\ Octets(zk) /\ Len(zero) = 1
    BY <1>3, <1>6
  <2>2. Stands(zk \o weight, raw, k)
    BY <1>11 DEF c
  <2> HIDE DEF zk, k
  <2>3. Stands(zk, raw, k)
    BY <1>12, <2>1, <2>2, StandBoth
  <2>4. Stands(zero, raw, k) /\ Stands(key, raw, k + Len(zero))
    BY <1>12, <2>1, <2>3, StandBoth DEF zk
  <2> QED
    BY <2>1, <2>4
<1>15. Bytes(raw, at + 4) = p
  <2>1. 1 \in 0..255
    OBVIOUS
  <2> HIDE DEF p
  <2> QED
    BY <1>11, <1>12, <2>1, ByteIsRead DEF b, p
<1> HIDE DEF k, p
<1>16. at + 4 + Bytes(raw, at + 4) = k
  BY <1>15 DEF k
<1>17. Bytes(raw, k) = 1
  <2>1. IsCode(zero, 0) /\ 0 \in Nat
    BY ZeroIsCode DEF zero
  <2>2. Bytes(raw, k) = Len(zero)
    BY <1>12, <1>14, <2>1, BytesOfCode
  <2> QED
    BY <1>3, <2>2
<1>18. KeyAt(at) = k + 1
  BY <1>16, <1>17 DEF KeyAt
<1>19. AccountsAt(at) = k + 36
  <2>1. (k + 1) + 35 = k + 36
    BY <1>12
  <2> QED
    BY <1>18, <2>1 DEF AccountsAt
<1>20. Bytes(raw, k + 36) = q /\ Varint(raw, k + 36) = few
  <2>1. few % UINT32 = few
    BY <1>1, <1>24
  <2> HIDE DEF q
  <2> QED
    BY <1>1, <1>11, <1>12, <2>1, EncodedIsRead DEF e, q
<1> DEFINE x == k + 36 + q + 18 * few
<1>21. Bytes(raw, x) = v /\ Varint(raw, x) = many
  <2>1. Stands(u, raw, x) /\ x \in Nat
    BY <1>11, <1>12
  <2>2. many % UINT32 = many
    BY <1>1, <1>24
  <2> HIDE DEF v, x
  <2> QED
    BY <1>1, <2>1, <2>2, EncodedIsRead DEF u, v
<1> HIDE DEF q, v
<1> DEFINE m == 4 + p + 36 + q + 18 * few
           l == m + v + 6 * many
<1>25. /\ m \in Nat /\ l \in Nat /\ m < UINT16 /\ l < UINT16
       /\ x = at + m /\ ((k + 36) - at) + q + 18 * few = m
       /\ (x - at) + v + 6 * many = l
  BY <1>1, <1>10, <1>24 DEF k
<1>22. WaitsAt(at) = x
  <2>1. WaitsAt(at) = Moved(at, ((k + 36) - at) + q + 18 * few)
    BY <1>19, <1>20 DEF WaitsAt
  <2>2. WaitsAt(at) = Moved(at, m)
    BY <1>25, <2>1
  <2> HIDE DEF m, x
  <2> QED
    BY <1>25, <2>2, MovedIs
<1>26. AuthorityEnd(at) = at + l
  <2>1. AuthorityEnd(at) = Moved(at, (x - at) + v + 6 * many)
    <3> HIDE DEF x
    <3> QED
      BY <1>21, <1>22 DEF AuthorityEnd
  <2>2. AuthorityEnd(at) = Moved(at, l)
    BY <1>25, <2>1
  <2> HIDE DEF l, m, x
  <2> QED
    BY <1>25, <2>2, MovedIs
<1>23. l = Len(t \o h)
  BY <1>13
<1> QED
  BY <1>2, <1>12, <1>14, <1>18, <1>23, <1>26 DEF key

-----------------------------------------------------------------------------
LEMMA BeginThemselves ==
    ASSUME NEW s, Fields(s)
    PROVE  Begin(s, s)
<1>1. ASSUME NEW i \in 1..Len(s)
      PROVE  SubSeq(s[i], 1, Len(s[i])) = s[i]
  <2> DEFINE t == s[i]
  <2>1. Octets(t)
    BY FieldIsOctets
  <2> HIDE DEF t
  <2>2. t \in Seq(Octet)
    BY <2>1 DEF Octets
  <2>3. SubSeq(t, 1, Len(t)) = t
    BY <2>2
  <2> QED
    BY <2>3 DEF t
<1> QED
  BY <1>1 DEF Begin

LEMMA NewAccountIsRead ==
    ASSUME CHAR_SIGNED, KEYS = 1, NEW cell, IsAction(cell), cell.type = "newaccount",
           Octets(raw), NEW at \in Nat, Stands(HostData(cell), raw, at),
           Len(raw) < UINT16, UINT16 <= UINT32
    PROVE  Begin(Details(cell.type, at).fields, HostFields(cell))
<1> DEFINE d == cell.data
           sizes == <<8, 8>>
           f == HostStruct(sizes, d)
           flat == FlattenSeq(f)
           a == HostAuthority(cell, 1)
           b == HostAuthority(cell, 2)
           ka == HostKey(cell, 1)
           kb == HostKey(cell, 2)
           h == at + 16
           o == h + Len(a)
           keys == <<ka, kb>>
           r == Struct(at, sizes)
<1>1. d \in 1..20
  BY DEF IsAction
<1>2. "newaccount" \in ActionTypes
  BY ActionTypesAre
<1>3. FieldSizes.newaccount = sizes /\ AbiSizes.newaccount = sizes
  BY <1>2, SizesAgree
<1>4. HostFields(cell) = f \o keys /\ HostData(cell) = flat \o a \o b
  BY <1>3 DEF HostFields, HostData
<1>5. Sizes(sizes, 2) /\ \A i \in 1..2 : sizes[i] = 8
  BY DEF Sizes
<1>6. Details(cell.type, at).fields = r \o <<Slice(KeyAt(h), 33), Slice(KeyAt(ActiveAt(at)), 33)>>
  BY <1>3 DEF Details
<1>7. Octets(a) /\ Octets(b) /\ Len(a) \in Nat /\ Octets(ka) /\ Octets(kb)
  <2>1. 1 \in 1..2 /\ 2 \in 1..2
    OBVIOUS
  <2>2. Octets(HostAuthority(cell, 1)) /\ Octets(HostAuthority(cell, 2))
    BY <2>1, AuthorityIsOctets
  <2>3. Octets(HostKey(cell, 1)) /\ Octets(HostKey(cell, 2))
    BY <2>1, KeyIsOctets
  <2> HIDE DEF a, b, ka, kb
  <2>4. Octets(a) /\ Octets(b)
    BY <2>2 DEF a, b
  <2>5. Octets(ka) /\ Octets(kb)
    BY <2>3 DEF ka, kb
  <2> QED
    BY <2>4, <2>5, OctetsHaveLength
<1>8. Len(ka) = 33 /\ Len(kb) = 33
  BY DEF HostKey, Fill
<1> HIDE DEF d, sizes, f, a, b, ka, kb
<1>9. Fields(f) /\ Len(f) = 2 /\ \A i \in 1..2 : Len(f[i]) = 8
  <2> DEFINE n == 2
  <2>1. n \in 2..7 /\ Sizes(sizes, n)
    BY <1>5
  <2> HIDE DEF n
  <2>2. Fields(HostStruct(sizes, d)) /\ Len(HostStruct(sizes, d)) = n
    BY <1>1, <2>1, StructIsFields
  <2>3. \A i \in 1..n : Len(HostStruct(sizes, d)[i]) = sizes[i]
    BY <1>1, <2>1, StructHasSizes
  <2>4. \A i \in 1..n : Len(f[i]) = sizes[i]
    BY <2>3 DEF f
  <2> QED
    BY <1>5, <2>2, <2>4 DEF f, n
<1>10. Octets(flat) /\ Len(flat) = 16
  <2>1. flat = f[1] \o f[2]
    BY <1>9, FlattenTwo
  <2>2. 1 \in 1..Len(f) /\ 2 \in 1..Len(f) /\ Len(f[1]) = 8 /\ Len(f[2]) = 8
    BY <1>9
  <2>3. Octets(f[1]) /\ Octets(f[2])
    BY <1>9, <2>2, FieldIsOctets
  <2> DEFINE x == f[1]
             y == f[2]
  <2> HIDE DEF x, y
  <2>4. Octets(x) /\ Octets(y)
    BY <2>3 DEF x, y
  <2>5. Octets(x \o y) /\ Len(x \o y) = Len(x) + Len(y)
    BY <2>4, JoinedIs
  <2>6. Len(x) = 8 /\ Len(y) = 8
    BY <2>2 DEF x, y
  <2>7. Len(x \o y) = 16
    BY <2>5, <2>6
  <2>8. flat = x \o y
    BY <2>1 DEF x, y
  <2> HIDE DEF flat
  <2> QED
    BY <2>5, <2>7, <2>8
<1> HIDE DEF flat
<1>11. /\ Stands(flat, raw, at) /\ Stands(a, raw, h) /\ Stands(b, raw, o)
       /\ h \in Nat /\ o \in Nat
  <2> DEFINE g == flat \o a
  <2>1. Octets(g) /\ Len(g) = Len(flat) + Len(a)
    BY <1>7, <1>10, JoinedIs
  <2>2. Stands(g \o b, raw, at)
    BY <1>4
  <2> HIDE DEF g
  <2>3. Stands(g, raw, at) /\ Stands(b, raw, at + Len(g))
    BY <1>7, <2>1, <2>2, StandBoth
  <2>4. Stands(flat \o a, raw, at)
    BY <2>3 DEF g
  <2>5. Stands(flat, raw, at) /\ Stands(a, raw, at + Len(flat))
    BY <1>7, <1>10, <2>4, StandBoth
  <2>6. at + Len(flat) = h /\ at + Len(g) = o /\ h \in Nat /\ o \in Nat
    BY <1>7, <1>10, <2>1
  <2> QED
    BY <2>3, <2>5, <2>6
<1>19. 16 + Len(a) < UINT16
  <2> DEFINE g == flat \o a
  <2>1. Octets(g) /\ Len(g) = Len(flat) + Len(a)
    BY <1>7, <1>10, JoinedIs
  <2>2. Stands(g \o b, raw, at)
    BY <1>4
  <2> HIDE DEF g
  <2>3. Stands(g, raw, at)
    BY <1>7, <2>1, <2>2, StandBoth
  <2>4. Len(g) <= Len(raw) /\ Len(raw) \in Nat
    BY <2>3 DEF Stands
  <2> QED
    BY <1>7, <1>10, <2>1, <2>4, WidthAssumption
<1> DEFINE p == KeyAt(h)
           q == KeyAt(o)
<1> HIDE DEF h
<1>12. p \in Nat /\ Stands(ka, raw, p) /\ AuthorityEnd(h) = o
  <2>1. Stands(HostAuthority(cell, 1), raw, h) /\ 1 \in 1..2
    BY <1>11 DEF a
  <2>2. /\ KeyAt(h) \in Nat /\ Stands(HostKey(cell, 1), raw, KeyAt(h))
        /\ AuthorityEnd(h) = h + Len(HostAuthority(cell, 1))
    BY <1>11, <2>1, AuthorityIsSkipped
  <2> QED
    BY <2>2 DEF a, ka
<1> HIDE DEF o
<1>13. q \in Nat /\ Stands(kb, raw, q)
  <2>1. Stands(HostAuthority(cell, 2), raw, o) /\ 2 \in 1..2
    BY <1>11 DEF b
  <2>2. KeyAt(o) \in Nat /\ Stands(HostKey(cell, 2), raw, KeyAt(o))
    BY <1>11, <2>1, AuthorityIsSkipped
  <2> QED
    BY <2>2 DEF kb
<1> HIDE DEF p, q
<1>14. Slice(p, 33) = ka /\ Slice(q, 33) = kb
  <2> DEFINE n == 33
  <2>1. n \in Nat /\ n <= n /\ Len(ka) = n /\ Len(kb) = n
    BY <1>8
  <2> HIDE DEF n
  <2>2. Len(ka) <= n /\ Len(kb) <= n
    BY <2>1
  <2>3. Slice(p, n) = ka
    BY <1>7, <1>12, <2>1, <2>2, SliceIs
  <2>4. Slice(q, n) = kb
    BY <1>7, <1>13, <2>1, <2>2, SliceIs
  <2> QED
    BY <2>3, <2>4 DEF n
<1>15. Details(cell.type, at).fields = r \o keys
  <2>1. ActiveAt(at) = o
    <3>1. ActiveAt(at) = Moved(at, o - at)
      BY <1>12 DEF ActiveAt, h
    <3> DEFINE n == 16 + Len(a)
    <3>2. o - at = n /\ at + n = o /\ n \in Nat
      BY <1>7, <1>11 DEF o, h
    <3>3. n < UINT16
      BY <1>7, <1>19, WidthAssumption
    <3> HIDE DEF n
    <3> QED
      BY <3>1, <3>2, <3>3, MovedIs
  <2>2. KeyAt(h) = p /\ KeyAt(ActiveAt(at)) = q
    BY <2>1 DEF p, q
  <2> QED
    BY <1>6, <1>14, <2>2
<1>16. Fields(keys) /\ Begin(keys, keys)
  <2>1. Fields(<<ka, kb>>)
    BY <1>7, OctetsAreFields
  <2> HIDE DEF keys
  <2>2. Fields(keys)
    BY <2>1 DEF keys
  <2> QED
    BY <2>2, BeginThemselves
<1>17. Fields(r) /\ Begin(r, f)
  <2> DEFINE n == 2
  <2>1. n \in Nat \ {0} /\ n \in Nat /\ \A i \in 1..(n - 1) : i \in 1..2
    OBVIOUS
  <2>2. /\ Sizes(sizes, n) /\ Len(f) = n /\ sizes[n] = 8 /\ Len(f[n]) = 8
    BY <1>5, <1>9
  <2>3. \A i \in 1..(n - 1) : sizes[i] = Len(f[i])
    BY <1>5, <1>9, <2>1
  <2> HIDE DEF n
  <2>4. Fields(r)
    BY <2>1, <2>2, StructIsRead
  <2>5. 8 <= 8
    OBVIOUS
  <2>6. Len(f[n]) <= sizes[n]
    BY <2>2, <2>5, Zenon
  <2>7. Stands(FlattenSeq(f), raw, at)
    BY <1>11 DEF flat
  <2>8. Begin(Struct(at, sizes), f)
    BY <1>9, <2>1, <2>2, <2>3, <2>6, <2>7, FieldsAreRead
  <2> QED
    BY <2>4, <2>8
<1> HIDE DEF keys, r
<1>18. Begin(r \o keys, f \o keys)
  BY <1>9, <1>16, <1>17, JoinedBegin
<1> QED
  BY <1>4, <1>15, <1>18

\* opDetails holds the fields of the action whose data it read.
LEMMA ActionIsRead ==
    ASSUME CHAR_SIGNED, KEYS = 1, NEW cell, IsAction(cell), cell.type \in ActionTypes,
           Octets(raw), NEW at \in Nat, Stands(HostData(cell), raw, at),
           Len(raw) < UINT16, UINT16 <= UINT32
    PROVE  /\ Begin(Details(cell.type, at).fields, HostFields(cell))
           /\ Details(cell.type, at).type = cell.type
<1>1. Begin(Details(cell.type, at).fields, HostFields(cell))
  <2>1. CASE cell.type = "voteproducer"
    BY <2>1, VoteIsRead
  <2>2. CASE cell.type = "newaccount"
    BY <2>2, NewAccountIsRead
  <2>3. CASE cell.type \in ActionTypes \ {"voteproducer", "newaccount"}
    BY <2>3, PlainActionIsRead
  <2> QED
    BY <2>1, <2>2, <2>3
<1>2. Details(cell.type, at).type = cell.type
  BY DEF Details
<1> QED
  BY <1>1, <1>2

-----------------------------------------------------------------------------
(***************************************************************************)
(* A call reads the action that the cell stands for.                       *)
(***************************************************************************)
LEMMA NameIsRead ==
    ASSUME NEW cell, NEW at \in Nat, Stands(HostName(cell), raw, at + 8)
    PROVE  /\ Known(at) <=> cell.type \in ActionTypes
           /\ cell.type \in ActionTypes => TypeAt(at) = cell.type
<1> DEFINE s == HostName(cell)
           h == at + 8
           n == 8
<1>1. Octets(s) /\ Len(s) = n /\ n \in Nat /\ h \in Nat /\ n <= n
  BY NameIsOctets
<1> HIDE DEF s, n, h
<1>2. Stands(s, raw, h)
  BY DEF s, h
<1>3. Len(s) <= n
  BY <1>1
<1>4. Slice(h, n) = s
  BY <1>1, <1>2, <1>3, SliceIs
<1>5. Slice(at + 8, 8) = HostName(cell)
  BY <1>4 DEF s, n, h
<1>6. CASE cell.type \in ActionTypes
  <2>1. HostName(cell) = Names[cell.type]
    BY <1>6 DEF HostName
  <2>2. Known(at)
    BY <1>5, <1>6, <2>1 DEF Known
  <2>3. \A type \in ActionTypes : Names[type] = Slice(at + 8, 8) => type = cell.type
    BY <1>5, <1>6, <2>1, NamesDiffer
  <2>4. Names[cell.type] = Slice(at + 8, 8)
    BY <1>5, <2>1
  <2>5. TypeAt(at) = cell.type
    BY <1>6, <2>3, <2>4 DEF TypeAt
  <2> QED
    BY <1>6, <2>2, <2>5
<1>7. CASE cell.type \notin ActionTypes
  <2>1. HostName(cell) = Fill(8, 1)
    BY <1>7 DEF HostName
  <2>2. ~Known(at)
    BY <1>5, <2>1, NamesDiffer DEF Known
  <2> QED
    BY <1>7, <2>2
<1> QED
  BY <1>6, <1>7

LEMMA OneQuotient ==
    ASSUME NEW b \in Nat \ {0}, NEW a \in Nat, NEW c \in Nat,
           NEW r \in 0..(b - 1), NEW s \in 0..(b - 1), a * b + r = c * b + s
    PROVE  ~(a < c)
<1> SUFFICES ASSUME a < c
             PROVE  FALSE
  OBVIOUS
<1> DEFINE e == c - (a + 1)
<1>1. e \in Nat /\ c = a + 1 + e
  OBVIOUS
<1> HIDE DEF e
<1>2. c * b = a * b + b + e * b
  BY <1>1
<1>3. a * b \in Nat /\ e * b \in Nat
  BY <1>1, Multiplied
<1> DEFINE x == a * b
           y == e * b
<1>4. x \in Nat /\ y \in Nat /\ x + r = x + b + y + s
  BY <1>2, <1>3
<1> HIDE DEF x, y
<1> QED
  BY <1>4

LEMMA AddedMultiple ==
    ASSUME NEW b \in Nat \ {0}, NEW k \in Nat, NEW t \in Nat
    PROVE  (k * b + t) % b = t % b
<1> DEFINE x == k * b + t
           q == x \div b
           r == x % b
           p == t \div b
           s == t % b
           c == k + p
<1>1. x \in Nat
  BY Multiplied
<1> HIDE DEF x
<1>2. q \in Nat /\ r \in 0..(b - 1) /\ x = q * b + r
  BY <1>1, Divided
<1>3. p \in Nat /\ s \in 0..(b - 1) /\ t = p * b + s
  BY Divided
<1> HIDE DEF q, r, p, s
<1>4. c \in Nat /\ c * b = k * b + p * b
  BY <1>3
<1>5. x = k * b + t
  BY DEF x
<1> HIDE DEF c
<1>6. k * b \in Nat /\ p * b \in Nat
  BY <1>3, Multiplied
<1>7. q * b + r = c * b + s
  BY <1>2, <1>3, <1>4, <1>5, <1>6
<1>8. ~(q < c)
  BY <1>2, <1>3, <1>4, <1>7, OneQuotient
<1>9. c * b + s = q * b + r
  BY <1>7
<1>10. ~(c < q)
  BY <1>2, <1>3, <1>4, <1>9, OneQuotient
<1>11. q = c
  BY <1>2, <1>4, <1>8, <1>10
<1>12. c * b \in Nat
  BY <1>4, <1>6
<1>13. r = s
  BY <1>2, <1>3, <1>7, <1>11, <1>12
<1> QED
  BY <1>13 DEF r, s, x

\* A number that is cut to 32 bits and then to eight.
LEMMA CutTwice ==
    ASSUME NEW v \in Nat
    PROVE  (v % UINT32) % BYTE = v % BYTE
<1> DEFINE u == UINT32
           b == BYTE
           k == v \div u
           r == v % u
           q == u \div b
<1>1. u \in Nat \ {0} /\ b \in Nat \ {0} /\ u % b = 0
  BY Uint32Assumption, WidthAssumption, ByteAssumption
<1> HIDE DEF u, b
<1>2. k \in Nat /\ r \in Nat /\ v = k * u + r
  BY <1>1, Divided
<1>3. q \in Nat /\ u = q * b + (u % b)
  BY <1>1, Divided
<1> HIDE DEF k, r, q
<1>4. u = q * b
  <2>1. q * b \in Nat
    BY <1>1, <1>3, Multiplied
  <2> QED
    BY <1>1, <1>3, <2>1
<1>5. k * q \in Nat
  BY <1>2, <1>3, Multiplied
<1>6. k * u = (k * q) * b
  BY <1>1, <1>2, <1>3, <1>4
<1>7. ((k * q) * b + r) % b = r % b
  BY <1>1, <1>2, <1>5, AddedMultiple
<1>8. v % b = r % b
  BY <1>2, <1>6, <1>7
<1> QED
  BY <1>8 DEF u, b, r

-----------------------------------------------------------------------------
(***************************************************************************)
(* What is in opDetails tells which action it is.                          *)
(***************************************************************************)
CellsOfPlan == [count : Nat, type : ActionTypes \cup {"unknown"}, proxy : BOOLEAN,
                producers : Nat, data : Nat]

\* An action of a plan, or the zeros that opDetails is cleared to.
IsShown(cell) ==
    /\ cell \in CellsOfPlan /\ cell.count = 0 /\ cell.type \in ActionTypes
    /\ cell.producers \in 0..255 /\ cell.data \in 0..20
    /\ cell.type # "voteproducer" => ~cell.proxy /\ cell.producers = 0
    /\ IF cell.data = 0 THEN cell.type = "transfer" ELSE Contents[cell.data] \in ContentTypes

Reads(op, cell) == op.type = cell.type /\ Begin(op.fields, HostFields(cell))

\* The byte of the first field.
Mark(d) == IF d = 0 THEN 0 ELSE 10 * d + 1

LEMMA MarksDiffer ==
    ASSUME NEW a \in 0..20, NEW b \in 0..20, Fill(8, Mark(a)) = Fill(8, Mark(b))
    PROVE  a = b
<1>1. Fill(8, Mark(a))[1] = Mark(a) /\ Fill(8, Mark(b))[1] = Mark(b)
  BY DEF Fill
<1>2. Mark(a) = Mark(b)
  BY <1>1
<1> QED
  BY <1>2 DEF Mark

LEMMA VoteFields ==
    ASSUME NEW cell, IsShown(cell), cell.type = "voteproducer"
    PROVE  /\ HostFields(cell)[1] = Fill(8, Mark(cell.data))
           /\ HostFields(cell)[2] = Fill(8, IF cell.proxy THEN 7 ELSE 0)
           /\ Len(HostFields(cell)) = 2 + cell.producers
<1> DEFINE p == cell.producers
           byte == IF cell.proxy THEN 7 ELSE 0
           a == HostStruct(AbiSizes.voteproducer, cell.data)[1]
           b == Fill(8, byte)
           two == <<a, b>>
           g == HostProducers(cell)
<1>1. HostFields(cell) = two \o g
  BY DEF HostFields
<1>2. p \in 0..255 /\ cell.data \in 1..20
  BY DEF IsShown
<1>3. Fields(g) /\ Len(g) = p
  <2>1. g = [i \in 1..p |-> Fill(8, i)]
    BY DEF HostProducers
  <2>2. Fields(g)
    BY <1>2, ProducersAreFields
  <2> HIDE DEF g, p
  <2> QED
    BY <1>2, <2>1, <2>2
<1>4. a = Fill(8, Mark(cell.data)) /\ Octets(a)
  <2>1. AbiSizes.voteproducer = <<8, 8>>
    BY SizesAgree, ActionTypesAre
  <2>2. a = Fill(8, Mark(cell.data))
    BY <2>1 DEF HostStruct, Mark
  <2>3. Mark(cell.data) \in Octet /\ 8 \in Nat
    BY <1>2 DEF Mark, Octet
  <2> QED
    BY <2>2, <2>3, FilledOctets
<1>5. Octets(b)
  <2>1. byte \in Octet /\ 8 \in Nat
    BY DEF Octet
  <2> HIDE DEF byte
  <2> QED
    BY <2>1, FilledOctets
<1>6. two[1] = a /\ two[2] = b
  OBVIOUS
<1> HIDE DEF p, g, a, b
<1>7. Fields(two) /\ Len(two) = 2
  BY <1>4, <1>5, OctetsAreFields
<1> DEFINE B == Seq(Octet)
<1>8. two \in Seq(B) /\ g \in Seq(B)
  BY <1>3, <1>7 DEF Fields
<1> HIDE DEF two, B
<1>9. Len(two \o g) = Len(two) + Len(g) /\ \A i \in 1..Len(two) : (two \o g)[i] = two[i]
  BY <1>8, Joined
<1>10. Len(two \o g) = 2 + p
  BY <1>3, <1>7, <1>9
<1>11. (two \o g)[1] = two[1] /\ (two \o g)[2] = two[2]
  <2>1. 1 \in 1..Len(two) /\ 2 \in 1..Len(two)
    BY <1>7
  <2> QED
    BY <1>9, <2>1
<1> QED
  BY <1>1, <1>4, <1>6, <1>10, <1>11 DEF b, p

LEMMA FirstField ==
    ASSUME NEW cell, IsShown(cell)
    PROVE  HostFields(cell)[1] = Fill(8, Mark(cell.data)) /\ 1 \in 1..Len(HostFields(cell))
<1> DEFINE d == cell.data
           sizes == AbiSizes[cell.type]
           f == HostStruct(sizes, d)
<1>1. cell.type \in ActionTypes /\ d \in 0..20 /\ cell.producers \in 0..255
  BY DEF IsShown
<1>2. PICK n \in 2..7 : Sizes(sizes, n) /\ sizes[1] = 8
  BY <1>1, SizesAgree
<1>3. DOMAIN sizes = 1..n
  <2>1. sizes \in Seq(Nat) /\ Len(sizes) = n
    BY <1>2 DEF Sizes
  <2> QED
    BY <2>1
<1>4. f[1] = Fill(8, Mark(d))
  <2>1. 1 \in DOMAIN sizes
    BY <1>3
  <2>2. f[1] = Fill(sizes[1], IF d = 0 THEN 0 ELSE 10 * d + 1)
    BY <2>1 DEF HostStruct
  <2> HIDE DEF f, sizes, d
  <2> QED
    BY <1>2, <2>2 DEF Mark
<1>5. Len(f) = n
  <2> DEFINE g(i) == Fill(sizes[i], IF d = 0 THEN 0 ELSE 10 * d + i)
  <2>1. f = [i \in 1..n |-> g(i)]
    BY <1>3 DEF HostStruct
  <2> HIDE DEF f, g
  <2> QED
    BY <1>2, <2>1
<1>6. CASE cell.type = "voteproducer"
  <2> DEFINE g == HostFields(cell)
             p == cell.producers
  <2>1. g[1] = Fill(8, Mark(cell.data)) /\ Len(g) = 2 + p
    BY <1>6, VoteFields
  <2>3. p \in Nat
    BY <1>1
  <2> HIDE DEF g, p
  <2>2. 1 \in 1..Len(g)
    BY <2>1, <2>3
  <2> QED
    BY <2>1, <2>2 DEF g
<1>7. CASE cell.type = "newaccount"
  <2> DEFINE ka == HostKey(cell, 1)
             kb == HostKey(cell, 2)
             keys == <<ka, kb>>
  <2>1. HostFields(cell) = f \o keys
    BY <1>7 DEF HostFields
  <2>2. d \in 1..20
    BY <1>1, <1>7 DEF IsShown
  <2>3. IsAction(cell) /\ 1 \in 1..2 /\ 2 \in 1..2
    <3>1. d # 0 /\ Contents[cell.data] \in ContentTypes
      BY <1>7 DEF IsShown
    <3> QED
      BY <1>1, <2>2, <3>1 DEF IsAction
  <2>4. Octets(ka) /\ Octets(kb)
    BY <2>3, KeyIsOctets
  <2> HIDE DEF ka, kb, d, sizes
  <2>5. Fields(keys) /\ Len(keys) = 2
    BY <2>4, OctetsAreFields
  <2>6. Fields(f)
    BY <1>2, <2>2, StructIsFields
  <2> DEFINE B == Seq(Octet)
  <2>7. f \in Seq(B) /\ keys \in Seq(B)
    BY <2>5, <2>6 DEF Fields
  <2> HIDE DEF f, keys, B
  <2>8. Len(f \o keys) = Len(f) + Len(keys) /\ \A i \in 1..Len(f) : (f \o keys)[i] = f[i]
    BY <2>7, Joined
  <2>9. 1 \in 1..Len(f) /\ 1 \in 1..Len(f \o keys)
    BY <1>2, <1>5, <2>5, <2>8
  <2> QED
    BY <1>4, <2>1, <2>8, <2>9 DEF d
<1>8. CASE cell.type \notin {"voteproducer", "newaccount"}
  <2>1. HostFields(cell) = f
    BY <1>8 DEF HostFields
  <2> QED
    BY <1>2, <1>4, <1>5, <2>1
<1> QED
  BY <1>6, <1>7, <1>8

LEMMA Identified ==
    ASSUME NEW op, NEW a, NEW b, IsShown(a), IsShown(b), Reads(op, a), Reads(op, b)
    PROVE  a = b
<1> DEFINE f == HostFields(a)
           g == HostFields(b)
           r == op.fields
<1>1. a.type = b.type /\ Begin(r, f) /\ Begin(r, g)
  BY DEF Reads
<1>2. f[1] = Fill(8, Mark(a.data)) /\ 1 \in 1..Len(f)
  BY FirstField
<1>3. g[1] = Fill(8, Mark(b.data)) /\ 1 \in 1..Len(g)
  BY FirstField
<1>4. ASSUME NEW x, NEW y
      PROVE  Len(Fill(8, x)) = 8 /\ Len(Fill(8, y)) = 8
  BY DEF Fill
<1>5. a.data \in 0..20 /\ b.data \in 0..20
  BY DEF IsShown
<1>6. Len(f) = Len(g)
  BY <1>1 DEF Begin
<1>7. ASSUME NEW i \in 1..Len(f), Len(f[i]) = 8, Len(g[i]) = 8
      PROVE  f[i] = g[i]
  <2>1. SubSeq(r[i], 1, 8) = f[i]
    BY <1>1, <1>7 DEF Begin
  <2>2. SubSeq(r[i], 1, 8) = g[i]
    BY <1>1, <1>6, <1>7 DEF Begin
  <2> QED
    BY <2>1, <2>2
<1>8. a.data = b.data
  <2>1. Len(f[1]) = 8 /\ Len(g[1]) = 8
    BY <1>2, <1>3, <1>4
  <2>2. f[1] = g[1]
    BY <1>2, <1>7, <2>1
  <2>3. Fill(8, Mark(a.data)) = Fill(8, Mark(b.data))
    BY <1>2, <1>3, <2>2
  <2> QED
    BY <1>5, <2>3, MarksDiffer
<1>9. a.producers = b.producers /\ (a.proxy <=> b.proxy)
  <2>1. CASE a.type # "voteproducer"
    BY <1>1, <2>1 DEF IsShown
  <2>2. CASE a.type = "voteproducer"
    <3> DEFINE x == IF a.proxy THEN 7 ELSE 0
               y == IF b.proxy THEN 7 ELSE 0
    <3>1. f[2] = Fill(8, x) /\ Len(f) = 2 + a.producers
      BY <2>2, VoteFields
    <3>2. g[2] = Fill(8, y) /\ Len(g) = 2 + b.producers
      BY <1>1, <2>2, VoteFields
    <3>3. a.producers \in Nat /\ b.producers \in Nat
      BY DEF IsShown
    <3> HIDE DEF f, g, x, y
    <3> DEFINE p == a.producers
               q == b.producers
               k == Len(f)
    <3>a. p \in Nat /\ q \in Nat /\ k = 2 + p /\ k = 2 + q
      BY <1>6, <3>1, <3>2, <3>3
    <3> HIDE DEF p, q, k
    <3>b. p = q /\ 2 \in 1..k
      BY <3>a
    <3>4. a.producers = b.producers
      BY <3>b DEF p, q
    <3>5. 2 \in 1..Len(f)
      BY <3>b DEF k
    <3>6. x = y
      <4> HIDE DEF x, y
      <4>1. Len(f[2]) = 8 /\ Len(g[2]) = 8
        BY <1>4, <3>1, <3>2
      <4>2. f[2] = g[2]
        BY <1>7, <3>5, <4>1
      <4>3. Fill(8, x)[1] = x /\ Fill(8, y)[1] = y
        BY DEF Fill
      <4> QED
        BY <3>1, <3>2, <4>2, <4>3
    <3>7. a.proxy <=> b.proxy
      BY <3>6 DEF x, y
    <3> QED
      BY <3>4, <3>7
  <2> QED
    BY <2>1, <2>2
<1>10. a \in CellsOfPlan /\ b \in CellsOfPlan /\ a.count = b.count
  BY DEF IsShown
<1>11. a.proxy = b.proxy
  <2>1. a.proxy \in BOOLEAN /\ b.proxy \in BOOLEAN
    BY <1>10 DEF CellsOfPlan
  <2> QED
    BY <1>9, <2>1, Zenon
<1> QED
  BY <1>1, <1>8, <1>9, <1>10, <1>11 DEF CellsOfPlan

LEMMA FieldsAreListed ==
    ASSUME NEW cell, IsShown(cell)
    PROVE  DOMAIN HostFields(cell) = 1..Len(HostFields(cell))
<1> DEFINE d == cell.data
           sizes == AbiSizes[cell.type]
           f == HostStruct(sizes, d)
<1>1. cell.type \in ActionTypes /\ d \in 0..20 /\ cell.producers \in 0..255
  BY DEF IsShown
<1>2. PICK n \in 2..7 : Sizes(sizes, n)
  BY <1>1, SizesAgree
<1>3. CASE cell.type \notin {"voteproducer", "newaccount"}
  <2>1. HostFields(cell) = f
    BY <1>3 DEF HostFields
  <2>2. DOMAIN sizes = 1..n
    <3>1. sizes \in Seq(Nat) /\ Len(sizes) = n
      BY <1>2 DEF Sizes
    <3> QED
      BY <3>1
  <2> DEFINE g(i) == Fill(sizes[i], IF d = 0 THEN 0 ELSE 10 * d + i)
  <2>3. f = [i \in 1..n |-> g(i)]
    BY <2>2 DEF HostStruct
  <2> HIDE DEF f, g
  <2>4. Len(f) = n /\ DOMAIN f = 1..n
    BY <1>2, <2>3
  <2> QED
    BY <2>1, <2>4
<1>4. CASE cell.type \in {"voteproducer", "newaccount"}
  <2>1. IsAction(cell)
    BY <1>1, <1>4 DEF IsAction, IsShown
  <2>2. Fields(HostFields(cell))
    <3>1. CASE cell.type = "voteproducer"
      BY <1>1, <2>1, <3>1, FieldsOfAnAction
    <3>2. CASE cell.type = "newaccount"
      <4> DEFINE keys == <<HostKey(cell, 1), HostKey(cell, 2)>>
      <4>1. HostFields(cell) = f \o keys
        BY <3>2 DEF HostFields
      <4>2. d \in 1..20 /\ 1 \in 1..2 /\ 2 \in 1..2
        BY <2>1 DEF IsAction
      <4>3. Octets(HostKey(cell, 1)) /\ Octets(HostKey(cell, 2))
        BY <2>1, <4>2, KeyIsOctets
      <4>4. Fields(keys)
        BY <4>3, OctetsAreFields
      <4> HIDE DEF sizes, d, keys
      <4>5. Fields(f)
        BY <1>2, <4>2, StructIsFields
      <4> HIDE DEF f
      <4> QED
        BY <4>1, <4>4, <4>5, JoinedFields
    <3> QED
      BY <1>4, <3>1, <3>2
  <2> DEFINE B == Seq(Octet)
             g == HostFields(cell)
  <2>3. g \in Seq(B)
    BY <2>2 DEF Fields
  <2> HIDE DEF g, B
  <2>4. DOMAIN g = 1..Len(g)
    BY <2>3
  <2> QED
    BY <2>4 DEF g
<1> QED
  BY <1>3, <1>4

ShowsOf(op, cell) ==
    /\ op.type = cell.type
    /\ Len(op.fields) = Len(HostFields(cell))
    /\ \A i \in DOMAIN HostFields(cell) :
         SubSeq(op.fields[i], 1, Len(HostFields(cell)[i])) = HostFields(cell)[i]

Candidates(cells) == {cells[i] : i \in 2..Len(cells)} \cup {ZeroAction}

CellOpOf(op, cells) ==
    LET shown == {cell \in Candidates(cells) : cell.type \in ActionTypes /\ ShowsOf(op, cell)}
    IN  IF shown = {} THEN [ZeroAction EXCEPT !.data = Len(cells) + 1]
        ELSE CHOOSE cell \in shown : TRUE

LEMMA ShowsIsReads ==
    ASSUME NEW op, NEW cell, IsShown(cell)
    PROVE  ShowsOf(op, cell) <=> Reads(op, cell)
BY FieldsAreListed DEF ShowsOf, Reads, Begin

LEMMA CandidatesAreShown ==
    ASSUME NEW cells, Encodable(cells), NEW cell \in Candidates(cells), cell.type \in ActionTypes
    PROVE  IsShown(cell)
<1>1. CASE cell = ZeroAction
  BY <1>1, ActionTypesAre DEF IsShown, ZeroAction, CellsOfPlan
<1>2. CASE cell # ZeroAction
  <2>1. PICK i \in 2..Len(cells) : cell = cells[i]
    BY <1>2 DEF Candidates
  <2>2. cells \in Seq(CellsOfPlan) /\ Len(cells) \in Nat
    BY DEF Encodable, CellsOfPlan
  <2>3. i \in 1..Len(cells)
    BY <2>2
  <2>4. cell \in CellsOfPlan
    BY <2>1, <2>2, <2>3
  <2>5. /\ cell.count = 0 /\ cell.producers <= 255
        /\ cell.data \in 1..20 /\ Contents[cell.data] \in ContentTypes
        /\ cell.type # "voteproducer" => ~cell.proxy /\ cell.producers = 0
    BY <2>1, ContentsAssumption DEF Encodable, ContentTypes
  <2>6. cell.producers \in Nat
    BY <2>4 DEF CellsOfPlan
  <2>7. cell.producers \in 0..255 /\ cell.data \in 0..20 /\ cell.data # 0
    <3> DEFINE p == cell.producers
               d == cell.data
    <3>1. p \in Nat /\ p <= 255 /\ d \in 1..20
      BY <2>5, <2>6
    <3> HIDE DEF p, d
    <3>2. p \in 0..255 /\ d \in 0..20 /\ d # 0
      BY <3>1
    <3> QED
      BY <3>2 DEF p, d
  <2> QED
    BY <2>4, <2>5, <2>7 DEF IsShown
<1> QED
  BY <1>1, <1>2

\* The cell that the refinement finds is the one that was read.
LEMMA OneCell ==
    ASSUME NEW cells, Encodable(cells), NEW op, NEW cell \in Candidates(cells),
           cell.type \in ActionTypes, Reads(op, cell)
    PROVE  CellOpOf(op, cells) = cell
<1> DEFINE shown == {c \in Candidates(cells) : c.type \in ActionTypes /\ ShowsOf(op, c)}
           one == CHOOSE c \in shown : TRUE
<1>1. IsShown(cell)
  BY CandidatesAreShown
<1>2. cell \in shown
  BY <1>1, ShowsIsReads
<1>3. one \in shown
  BY <1>2
<1>4. CellOpOf(op, cells) = one
  BY <1>2 DEF CellOpOf
<1>5. one \in Candidates(cells) /\ one.type \in ActionTypes /\ ShowsOf(op, one)
  BY <1>3
<1> HIDE DEF one
<1>6. IsShown(one)
  BY <1>5, CandidatesAreShown
<1>7. Reads(op, one)
  BY <1>5, <1>6, ShowsIsReads
<1> QED
  BY <1>1, <1>4, <1>6, <1>7, Identified

LEMMA ZeroIsRead ==
    ASSUME NEW op, op = [type |-> "transfer", fields |-> HostStruct(FieldSizes.transfer, 0)]
    PROVE  Reads(op, ZeroAction)
<1> DEFINE s == FieldSizes.transfer
           f == HostStruct(s, 0)
<1>1. AbiSizes.transfer = s
  BY DEF AbiSizes, FieldSizes
<1>2. HostFields(ZeroAction) = f
  BY <1>1 DEF HostFields, ZeroAction
<1>3. \E n \in 2..7 : Sizes(s, n)
  BY SizesAgree, ActionTypesAre
<1> HIDE DEF s
<1>4. PICK n \in 2..7 : Sizes(s, n)
  BY <1>3
<1>5. DOMAIN s = 1..n /\ \A i \in 1..n : s[i] \in Nat
  <2>1. s \in Seq(Nat) /\ Len(s) = n
    BY <1>4 DEF Sizes
  <2>2. DOMAIN s = 1..Len(s) /\ \A i \in 1..Len(s) : s[i] \in Nat
    BY <2>1
  <2> QED
    BY <2>1, <2>2
<1>6. f = [i \in 1..n |-> Fill(s[i], 0)]
  BY <1>5 DEF HostStruct
<1> DEFINE B == Seq(Octet)
           g(i) == Fill(s[i], 0)
<1>7. \A i \in 1..n : g(i) \in B
  <2>1. 0 \in Octet
    BY DEF Octet
  <2> QED
    BY <1>5, <2>1, FilledOctets DEF Octets
<1> HIDE DEF f, g, B
<1>8. f \in Seq(B)
  BY <1>6, <1>7 DEF g
<1>9. Begin(f, f)
  BY <1>8, BeginThemselves DEF Fields, B
<1>10. op.type = "transfer" /\ op.fields = f
  BY DEF f, s
<1> QED
  BY <1>2, <1>9, <1>10 DEF Reads, ZeroAction

-----------------------------------------------------------------------------
(***************************************************************************)
(* An offset tells which cell ends there.                                  *)
(***************************************************************************)
OffsetOf(offset, cells) ==
    IF offset = 0 THEN 0
    ELSE IF \E i \in 1..Len(cells) : End(cells, i) = offset
         THEN CHOOSE i \in 1..Len(cells) : End(cells, i) = offset
         ELSE Len(cells) + 1

LEMMA ActionStands ==
    ASSUME Written, NEW i \in 1..(Len(plan) - 1)
    PROVE  /\ End(plan, i) \in Nat \ {0} /\ IsAction(plan[i + 1])
           /\ Stands(HostAction(plan[i + 1]), raw, End(plan, i))
           /\ End(plan, i + 1) = End(plan, i) + Len(HostAction(plan[i + 1]))
<1>1. Encodable(plan) /\ raw = HostTx(plan)
  BY PlanIsWritten
<1>2. Len(plan) \in Nat
  BY <1>1, PlanIsActions
<1>3. i \in 1..Len(plan)
  BY <1>2
<1> QED
  BY <1>1, <1>3, EndNext, PlanIsActions, TransactionIsLaidOut

LEMMA EndsIncrease ==
    ASSUME CHAR_SIGNED, Written
    PROVE  \A i, j \in 1..Len(plan) : i < j => End(plan, i) < End(plan, j)
<1> DEFINE m == Len(plan)
           e(i) == End(plan, i)
<1>1. Encodable(plan) /\ m \in Nat
  BY PlanIsWritten, PlanIsActions
<1>2. \A i \in 1..m : e(i) \in Nat
  BY <1>1, EndNext
<1>3. \A i \in 1..(m - 1) : e(i) < e(i + 1)
  <2> SUFFICES ASSUME NEW i \in 1..(m - 1)
               PROVE  e(i) < e(i + 1)
    OBVIOUS
  <2> DEFINE l == Len(HostAction(plan[i + 1]))
  <2>1. e(i) \in Nat /\ e(i + 1) = e(i) + l
    BY ActionStands
  <2>2. l \in Nat \ {0}
    <3> DEFINE at == End(plan, i)
               cell == plan[i + 1]
    <3>1. at \in Nat /\ IsAction(cell) /\ Stands(HostAction(cell), raw, at)
      BY ActionStands
    <3>2. Len(raw) < UINT16 /\ UINT16 <= UINT32
      BY PlanIsWritten, LengthAssumption
    <3> HIDE DEF at, cell
    <3>3. Len(HostAction(cell)) \in Nat \ {0}
      BY <3>1, <3>2, ActionIsSkipped
    <3> QED
      BY <3>3 DEF cell
  <2> HIDE DEF l, e
  <2> QED
    BY <2>1, <2>2
<1> HIDE DEF m, e
<1> DEFINE S == {k \in Nat : \A i \in 1..m : i + k + 1 <= m => e(i) < e(i + k + 1)}
<1>4. 0 \in S
  <2> SUFFICES ASSUME NEW i \in 1..m, i + 0 + 1 <= m
               PROVE  e(i) < e(i + 0 + 1)
    OBVIOUS
  <2>1. i \in 1..(m - 1) /\ i + 0 + 1 = i + 1
    BY <1>1
  <2> QED
    BY <1>3, <2>1
<1>5. ASSUME NEW k \in Nat, k \in S
      PROVE  k + 1 \in S
  <2> SUFFICES ASSUME NEW i \in 1..m, i + (k + 1) + 1 <= m
               PROVE  e(i) < e(i + (k + 1) + 1)
    OBVIOUS
  <2> DEFINE j == i + k + 1
  <2>1. j \in 1..(m - 1) /\ j <= m /\ i + (k + 1) + 1 = j + 1 /\ j \in 1..m /\ j + 1 \in 1..m
    BY <1>1
  <2>2. e(i) < e(j)
    BY <1>5, <2>1
  <2> HIDE DEF j
  <2>3. e(j) < e(j + 1)
    BY <1>3, <2>1
  <2>4. e(i) \in Nat /\ e(j) \in Nat /\ e(j + 1) \in Nat
    BY <1>2, <2>1
  <2>5. e(i) < e(j + 1)
    BY <2>2, <2>3, <2>4
  <2> QED
    BY <2>1, <2>5
<1> HIDE DEF S
<1>6. Nat \subseteq S
  BY <1>4, <1>5, SetInduction
<1>7. ASSUME NEW i \in 1..m, NEW j \in 1..m, i < j
      PROVE  e(i) < e(j)
  <2> DEFINE k == j - i - 1
  <2>1. k \in Nat /\ i + k + 1 = j /\ j <= m
    BY <1>1, <1>7
  <2> HIDE DEF k
  <2>2. k \in S
    BY <1>6, <2>1
  <2> QED
    BY <2>1, <2>2 DEF S
<1> QED
  BY <1>7 DEF m, e

LEMMA OneOffset ==
    ASSUME CHAR_SIGNED, Written, NEW i \in 1..Len(plan)
    PROVE  OffsetOf(End(plan, i), plan) = i /\ End(plan, i) # 0
<1> DEFINE m == Len(plan)
           e(j) == End(plan, j)
           one == CHOOSE j \in 1..m : e(j) = e(i)
<1>1. \A j \in 1..m : e(j) \in Nat \ {0}
  BY PlanIsWritten, EndNext
<1>2. one \in 1..m /\ e(one) = e(i)
  OBVIOUS
<1>3. OffsetOf(e(i), plan) = one
  <2>1. e(i) # 0 /\ \E j \in 1..m : e(j) = e(i)
    BY <1>1
  <2> QED
    BY <2>1 DEF OffsetOf
<1> HIDE DEF one
<1>4. \A j, k \in 1..m : j < k => e(j) < e(k)
  BY EndsIncrease
<1>5. m \in Nat
  BY PlanIsWritten, PlanIsActions
<1> HIDE DEF m, e
<1>6. e(one) \in Nat /\ e(i) \in Nat
  BY <1>1, <1>2 DEF m
<1>7. i \in 1..m
  BY DEF m
<1>8. ~(one < i)
  <2> SUFFICES ASSUME one < i
               PROVE  FALSE
    OBVIOUS
  <2>1. e(one) < e(i)
    BY <1>2, <1>4, <1>7
  <2> QED
    BY <1>2, <1>6, <2>1
<1>9. ~(i < one)
  <2> SUFFICES ASSUME i < one
               PROVE  FALSE
    OBVIOUS
  <2>1. e(i) < e(one)
    BY <1>2, <1>4, <1>7
  <2> QED
    BY <1>2, <1>6, <2>1
<1>10. one = i
  BY <1>2, <1>5, <1>7, <1>8, <1>9
<1> QED
  BY <1>1, <1>3, <1>7, <1>10 DEF e

\* What parse_op does at the start of an action, and at the end of the last.
LEMMA ActionAt ==
    ASSUME CHAR_SIGNED, KEYS = 1, Written, NEW i \in 1..(Len(plan) - 1)
    PROVE  /\ Known(End(plan, i)) <=> plan[i + 1].type \in ActionTypes
           /\ plan[i + 1].type \in ActionTypes =>
                Reads(Details(TypeAt(End(plan, i)), DataAt(End(plan, i))), plan[i + 1])
           /\ plan[i + 1] \in Candidates(plan)
<1> DEFINE at == End(plan, i)
           cell == plan[i + 1]
<1>1. at \in Nat /\ IsAction(cell) /\ Stands(HostAction(cell), raw, at)
  BY ActionStands
<1>2. Len(raw) < UINT16 /\ UINT16 <= UINT32 /\ Octets(raw)
  BY PlanIsWritten, WrittenOctets, LengthAssumption
<1>3. cell \in Candidates(plan)
  <2>1. Len(plan) \in Nat
    BY PlanIsWritten, PlanIsActions
  <2>2. i + 1 \in 2..Len(plan)
    BY <2>1
  <2> QED
    BY <2>2 DEF Candidates
<1> HIDE DEF at, cell
<1>4. /\ DataAt(at) \in Nat /\ Stands(HostName(cell), raw, at + 8)
      /\ Stands(HostData(cell), raw, DataAt(at))
  BY <1>1, <1>2, ActionIsSkipped
<1>5. /\ Known(at) <=> cell.type \in ActionTypes
      /\ cell.type \in ActionTypes => TypeAt(at) = cell.type
  BY <1>1, <1>4, NameIsRead
<1>6. ASSUME cell.type \in ActionTypes
      PROVE  Reads(Details(TypeAt(at), DataAt(at)), cell)
  <2> DEFINE op == Details(cell.type, DataAt(at))
  <2>1. Begin(op.fields, HostFields(cell)) /\ op.type = cell.type
    BY <1>1, <1>2, <1>4, <1>6, ActionIsRead
  <2> HIDE DEF op
  <2>2. Reads(op, cell)
    BY <2>1 DEF Reads
  <2> QED
    BY <1>5, <1>6, <2>2 DEF op
<1> QED
  BY <1>3, <1>5, <1>6 DEF at, cell

-----------------------------------------------------------------------------
(***************************************************************************)
(* The refinement.                                                         *)
(***************************************************************************)
OpIsRead ==
    \E cell \in Candidates(plan) : cell.type \in ActionTypes /\ Reads(cursor.op, cell)

CellCursor(c, cells) ==
    [offset |-> OffsetOf(c.offset, cells), opCount |-> c.opCount, opIdx |-> c.opIdx,
     op |-> CellOpOf(c.op, cells)]

LEMMA CellOffsetIs == CellOffset = OffsetOf(cursor.offset, plan)
BY CellEndIs DEF CellOffset, OffsetOf, CellEnd, End, NoCell

LEMMA CellOpIs == CellOp = CellOpOf(cursor.op, plan)
BY DEF CellOp, CellOpOf, Shows, ShowsOf, Candidates, NoCell

LEMMA SameCells == Cells!Cells = CellsOfPlan /\ Cells!ActionTypes = ActionTypes
BY ActionTypesAre DEF Cells!Cells, Cells!ActionTypes, CellsOfPlan

LEMMA CountIsRead ==
    ASSUME CHAR_SIGNED, Written
    PROVE  OpCount = plan[1].count % BYTE
<1>1. Encodable(plan) /\ raw = HostTx(plan)
  BY PlanIsWritten
<1>2. Stands(HostHeader(plan[1]), raw, 0)
  BY <1>1, TransactionIsLaidOut
<1>3. plan[1].data \in Nat /\ plan[1].count \in Nat
  BY <1>1, PlanIsActions
<1>4. Varint(raw, CountAt) = plan[1].count % UINT32
  BY <1>2, <1>3, HeaderIsSkipped
<1> QED
  BY <1>3, <1>4, CutTwice DEF OpCount

Restarted(c, y) == [c EXCEPT !.offset = 1, !.opCount = y, !.opIdx = 0]

Record(o, n, i, p) == [offset |-> o, opCount |-> n, opIdx |-> i, op |-> p]

LEMMA HeaderSets ==
    ASSUME NEW o, NEW n, NEW i, NEW p, NEW y
    PROVE  Restarted(Record(o, n, i, p), y) = Record(1, y, 0, p)
<1> DEFINE a == Record(o, n, i, p)
           b == [a EXCEPT !.offset = 1]
           c == [b EXCEPT !.opCount = y]
           d == [c EXCEPT !.opIdx = 0]
<1>1. b = Record(1, n, i, p)
  BY DEF Record
<1> HIDE DEF b
<1>2. c = Record(1, y, i, p)
  BY <1>1 DEF Record
<1> HIDE DEF c
<1>3. d = Record(1, y, 0, p)
  BY <1>2 DEF Record
<1> HIDE DEF d
<1>4. Restarted(a, y) = d
  BY Zenon DEF b, c, d, Restarted
<1> QED
  BY <1>3, <1>4

\* On cells, a call starts at the same action.
LEMMA StartsAlike ==
    ASSUME CHAR_SIGNED, ByteInv, OnABoundary, NEW a, a = CellCursor(cursor, plan)
    PROVE  /\ Cells!Started(plan, a) = [offset |-> Started.opIdx + 1, opCount |-> Started.opCount,
                                        opIdx |-> Started.opIdx, op |-> a.op]
           /\ Cells!ReadOpCount(plan) = OpCount
           /\ a.offset = 0 <=> cursor.offset = 0
<1>1. Written /\ IsCursor(cursor)
  BY DEF ByteInv
<1>2. Len(plan) \in Nat \ {0}
  BY <1>1, PlanIsWritten, PlanIsActions
<1>3. Cells!ReadOpCount(plan) = OpCount
  <2>1. Cells!CellAt(plan, 1) = plan[1]
    BY <1>2 DEF Cells!CellAt
  <2> QED
    BY <1>1, <2>1, CountIsRead DEF Cells!ReadOpCount
<1>4. /\ a.offset = OffsetOf(cursor.offset, plan) /\ a.opCount = cursor.opCount
      /\ a.opIdx = cursor.opIdx
      /\ a = [offset |-> a.offset, opCount |-> a.opCount, opIdx |-> a.opIdx, op |-> a.op]
  BY DEF CellCursor
<1>5. CASE cursor.offset = 0
  <2>1. a.offset = 0
    BY <1>4, <1>5 DEF OffsetOf
  <2>2. Cells!Started(plan, a) = [a EXCEPT !.offset = 1, !.opCount = OpCount, !.opIdx = 0]
    BY <1>3, <2>1 DEF Cells!Started, Cells!ReadHeader
  <2>3. Started.opIdx = 0 /\ Started.opCount = OpCount
    <3> DEFINE x == CountAt + Bytes(raw, CountAt)
               y == OpCount
               c == Started
    <3>1. c = [cursor EXCEPT !.offset = x, !.opCount = y, !.opIdx = 0]
      BY <1>5 DEF Started
    <3>2. DOMAIN cursor = {"offset", "opCount", "opIdx", "op"}
      BY <1>1 DEF IsCursor
    <3> HIDE DEF c, x, y
    <3>3. c.opIdx = 0 /\ c.opCount = y
      BY <3>1, <3>2
    <3> QED
      BY <3>3 DEF c, y
  <2> DEFINE y == OpCount
             r == [offset |-> 1, opCount |-> y, opIdx |-> 0, op |-> a.op]
  <2>4. [a EXCEPT !.offset = 1, !.opCount = y, !.opIdx = 0] = r
    <3>1. a = Record(a.offset, a.opCount, a.opIdx, a.op)
      BY <1>4 DEF Record
    <3>2. Restarted(a, y) = Record(1, y, 0, a.op)
      BY <3>1, HeaderSets
    <3> QED
      BY <3>2 DEF Restarted, Record
  <2>5. 0 + 1 = 1
    OBVIOUS
  <2> QED
    BY <1>3, <1>5, <2>1, <2>2, <2>3, <2>4, <2>5
<1>6. CASE cursor.offset # 0
  <2>1. cursor.offset > 0
    BY <1>1, <1>6, WidthAssumption DEF IsCursor
  <2>2. Started = cursor
    BY <2>1 DEF Started
  <2> DEFINE i == cursor.opIdx + 1
  <2>3. i \in 1..Len(plan) /\ cursor.offset = End(plan, i)
    BY <2>1 DEF OnABoundary, Bounded
  <2> HIDE DEF i
  <2>4. a.offset = i /\ i # 0
    BY <1>1, <1>4, <2>3, OneOffset
  <2>5. Cells!Started(plan, a) = a
    BY <2>4 DEF Cells!Started
  <2> QED
    BY <1>3, <1>4, <1>6, <2>2, <2>4, <2>5 DEF i
<1> QED
  BY <1>5, <1>6

LEMMA Retyped ==
    ASSUME NEW c, NEW t, NEW x, NEW p, NEW d, NEW u
    PROVE  [[count |-> c, type |-> t, proxy |-> x, producers |-> p, data |-> d] EXCEPT !.type = u]
             = [count |-> c, type |-> u, proxy |-> x, producers |-> p, data |-> d]
OBVIOUS

LEMMA ZeroOps == ZeroAction = Cells!ZeroOp
<1> DEFINE c == 0
           x == FALSE
           t == "unknown"
           u == "transfer"
<1>1. Cells!ZeroOp = [[count |-> c, type |-> t, proxy |-> x, producers |-> c, data |-> c]
                        EXCEPT !.type = u]
  BY DEF Cells!ZeroOp, Cells!ZeroCell
<1>2. ZeroAction = [count |-> c, type |-> u, proxy |-> x, producers |-> c, data |-> c]
  BY DEF ZeroAction
<1> HIDE DEF c, x, t, u
<1> QED
  BY <1>1, <1>2, Retyped

LEMMA CellsInit == Init => Cells!Init /\ OpIsRead
<1> SUFFICES ASSUME Init
             PROVE  Cells!Init /\ OpIsRead
  OBVIOUS
<1>1. Encodable(plan)
  BY PlansAssumption DEF Init
<1>2. Reads(cursor.op, ZeroAction)
  BY ZeroIsRead DEF Init
<1>3. ZeroAction \in Candidates(plan) /\ ZeroAction.type \in ActionTypes
  BY ActionTypesAre DEF Candidates, ZeroAction
<1>4. CellOp = ZeroAction
  BY <1>1, <1>2, <1>3, OneCell, CellOpIs
<1>5. CellOffset = 0 /\ cursor.opCount = 0 /\ cursor.opIdx = 0
  BY DEF Init, CellOffset
<1>6. ZeroAction = Cells!ZeroOp
  BY ZeroOps
<1>7. plan \in Seq(Cells!Cells)
  BY <1>1, SameCells DEF Encodable, CellsOfPlan
<1>8. status = "9000"
  BY DEF Init
<1> QED
  BY <1>2, <1>3, <1>4, <1>5, <1>6, <1>7, <1>8 DEF Cells!Init, Cells!ZeroCursor, OpIsRead

\* Whether there is an action, and whether its name is known.
LEMMA KnownAlike ==
    ASSUME CHAR_SIGNED, KEYS = 1, Written, NEW i \in 1..Len(plan)
    PROVE  Known(End(plan, i)) <=> Cells!CellAt(plan, i + 1).type \in ActionTypes
<1>1. Encodable(plan) /\ raw = HostTx(plan)
  BY PlanIsWritten
<1>2. Len(plan) \in Nat \ {0}
  BY <1>1, PlanIsActions
<1>3. CASE i = Len(plan)
  <2>1. End(plan, i) \in Nat /\ Stands(HostTrailer, raw, End(plan, i))
    BY <1>1, <1>3, EndNext, TransactionIsLaidOut
  <2>2. ~Known(End(plan, i))
    BY <2>1, TrailerIsUnknown
  <2>3. i + 1 \notin 1..Len(plan)
    BY <1>2, <1>3
  <2>4. Cells!CellAt(plan, i + 1).type = "unknown"
    BY <2>3 DEF Cells!CellAt, Cells!ZeroCell
  <2> QED
    BY <2>2, <2>4, ActionTypesAre
<1>4. CASE i # Len(plan)
  <2>1. i \in 1..(Len(plan) - 1) /\ i + 1 \in 1..Len(plan)
    BY <1>2, <1>4
  <2>2. Cells!CellAt(plan, i + 1) = plan[i + 1]
    BY <2>1 DEF Cells!CellAt
  <2> QED
    BY <2>1, <2>2, ActionAt
<1> QED
  BY <1>3, <1>4

LEMMA ThrowKeepsOffset ==
    ASSUME NEW o, NEW n, NEW i, NEW p, NEW q
    PROVE  [Record(o, n, i, p) EXCEPT !.offset = q] = Record(q, n, i, p)
BY DEF Record

LEMMA TooManyKeeps ==
    ASSUME NEW o, NEW n, NEW i, NEW p, NEW q
    PROVE  [Record(o, n, i, p) EXCEPT !.opCount = q] = Record(o, q, i, p)
BY DEF Record

LEMMA ReadOpIs ==
    ASSUME NEW o, NEW n, NEW i, NEW p, NEW cells
    PROVE  Cells!ReadOp(cells, Record(o, n, i, p))
             = Record(Cells!NextOffset(o + 1, (i + 1) % BYTE, n), n, (i + 1) % BYTE,
                      Cells!CellAt(cells, o + 1))
<1> DEFINE a == Record(o, n, i, p)
           x == Cells!CellAt(cells, o + 1)
           y == (i + 1) % BYTE
           z == Cells!NextOffset(o + 1, y, n)
           b == [a EXCEPT !.op = x]
           c == [b EXCEPT !.opIdx = y]
           d == [c EXCEPT !.offset = z]
<1>1. a.offset = o /\ a.opIdx = i /\ a.opCount = n
  BY DEF Record
<1>2. Cells!ReadOp(cells, a)
        = [a EXCEPT !.op = x, !.opIdx = y, !.offset = Cells!NextOffset(@ + 1, y, n)]
  BY <1>1 DEF Cells!ReadOp
<1> HIDE DEF x, y
<1>3. b = Record(o, n, i, x)
  BY DEF Record
<1> HIDE DEF b
<1>4. c = Record(o, n, y, x)
  BY <1>3 DEF Record
<1> HIDE DEF c
<1>5. c.offset = o
  BY <1>4 DEF Record
<1> HIDE DEF z
<1>6. d = Record(z, n, y, x)
  BY <1>4 DEF Record
<1>7. [c EXCEPT !.offset = Cells!NextOffset(@ + 1, y, n)] = d
  BY <1>5 DEF z
<1> HIDE DEF d
<1>8. Cells!ReadOp(cells, a) = [c EXCEPT !.offset = Cells!NextOffset(@ + 1, y, n)]
  BY <1>2, Zenon DEF b, c
<1> QED
  BY <1>6, <1>7, <1>8 DEF x, y, z

LEMMA CellsNext ==
    ASSUME CHAR_SIGNED, KEYS = 1, ByteInv, OnABoundary, OpIsRead, parse_tx
    PROVE  Cells!parse_tx /\ OpIsRead'
<1> DEFINE a == CellCursor(cursor, plan)
           b == CellCursor(cursor', plan)
           c == Started
           i == c.opIdx + 1
           at == c.offset
<1>1. Written /\ IsCursor(cursor) /\ plan' = plan /\ status = "9000"
  BY DEF ByteInv, parse_tx
<1>2. Encodable(plan)
  BY <1>1, PlanIsWritten
<1>3. /\ i \in 1..Len(plan) /\ at = End(plan, i)
      /\ i \in 1..BYTE /\ c.opCount \in 0..(BYTE - 1)
  <2>1. /\ c.opIdx \in 0..(BYTE - 1) /\ c.opCount \in 0..(BYTE - 1)
        /\ i \in 1..Len(plan) /\ at = CellEnd(i)
    BY StartsOnABoundary
  <2> HIDE DEF c
  <2> QED
    BY <2>1, CellEndIs, WidthAssumption
<1>4. /\ Cells!Started(plan, a) = Record(i, c.opCount, c.opIdx, a.op)
      /\ Cells!ReadOpCount(plan) = OpCount
      /\ a.offset = 0 <=> cursor.offset = 0
  BY StartsAlike DEF Record
<1>5. Cells!TooManyOps(plan, a) <=> cursor.offset = 0 /\ OpCount > MAX_OPS
  BY <1>4 DEF Cells!TooManyOps
<1>6. Cells!KnownOp(plan, a) <=> Known(at)
  <2>1. Cells!Started(plan, a).offset = i
    BY <1>4 DEF Record
  <2> QED
    BY <1>1, <1>3, <2>1, KnownAlike, SameCells DEF Cells!KnownOp
<1>7. /\ a = Record(OffsetOf(cursor.offset, plan), cursor.opCount, cursor.opIdx,
                    CellOpOf(cursor.op, plan))
      /\ b = Record(OffsetOf(cursor'.offset, plan), cursor'.opCount, cursor'.opIdx,
                    CellOpOf(cursor'.op, plan))
      /\ a.offset = OffsetOf(cursor.offset, plan) /\ a.op = CellOpOf(cursor.op, plan)
  BY DEF Record, CellCursor
<1>8. DOMAIN cursor = {"offset", "opCount", "opIdx", "op"}
  BY <1>1 DEF IsCursor
<1>9. c.op = cursor.op /\ DOMAIN c = DOMAIN cursor
  <2>1. CASE cursor.offset > 0
    BY <2>1 DEF Started
  <2>2. CASE ~(cursor.offset > 0)
    <3> DEFINE x == CountAt + Bytes(raw, CountAt)
               y == OpCount
    <3>1. c = [cursor EXCEPT !.offset = x, !.opCount = y, !.opIdx = 0]
      BY <2>2 DEF Started
    <3> HIDE DEF c, x, y
    <3> QED
      BY <1>8, <3>1
  <2> QED
    BY <2>1, <2>2
<1> HIDE DEF a, b, c, i, at
<1>10. ASSUME b = Cells!ParseTx(plan, a), status' = Cells!ParseStatus(plan, a)
       PROVE  Cells!parse_tx
  <2>1. a = [offset |-> CellOffset, opCount |-> cursor.opCount, opIdx |-> cursor.opIdx, op |-> CellOp]
    BY CellOffsetIs, CellOpIs DEF a, CellCursor
  <2>2. CellOffset' = OffsetOf(cursor'.offset, plan')
    BY CellEndIs DEF CellOffset, OffsetOf, CellEnd, End, NoCell
  <2>3. CellOp' = CellOpOf(cursor'.op, plan')
    BY DEF CellOp, CellOpOf, Shows, ShowsOf, Candidates, NoCell
  <2>4. b = [offset |-> CellOffset, opCount |-> cursor.opCount, opIdx |-> cursor.opIdx, op |-> CellOp]'
    BY <1>1, <2>2, <2>3 DEF b, CellCursor
  <2> QED
    BY <1>1, <1>10, <2>1, <2>4 DEF Cells!parse_tx
<1>11. CASE TooManyOps
  <2>1. /\ cursor.offset = 0 /\ OpCount > MAX_OPS /\ status' = "6e10"
        /\ cursor' = [cursor EXCEPT !.opCount = OpCount]
    BY <1>11 DEF TooManyOps
  <2>2. /\ cursor'.offset = cursor.offset /\ cursor'.opCount = OpCount
        /\ cursor'.opIdx = cursor.opIdx /\ cursor'.op = cursor.op
    <3> DEFINE y == OpCount
    <3> HIDE DEF y
    <3>1. cursor' = [cursor EXCEPT !.opCount = y]
      BY <2>1 DEF y
    <3> QED
      BY <1>8, <3>1 DEF y
  <2>3. Cells!ParseStatus(plan, a) = "6e10"
    BY <1>5, <2>1 DEF Cells!ParseStatus
  <2>4. Cells!ParseTx(plan, a) = [a EXCEPT !.opCount = OpCount]
    BY <1>4, <2>3 DEF Cells!ParseTx
  <2>5. b = Cells!ParseTx(plan, a)
    BY <1>7, <2>2, <2>4, TooManyKeeps
  <2>6. OpIsRead'
    BY <1>1, <2>2 DEF OpIsRead
  <2> QED
    BY <1>10, <2>1, <2>3, <2>5, <2>6
<1>12. CASE ~(cursor.offset = 0 /\ OpCount > MAX_OPS) /\ UnknownAction
  <2>1. ~Known(at) /\ cursor' = [c EXCEPT !.offset = cursor.offset] /\ status' = "6900"
    BY <1>12 DEF UnknownAction, c, at
  <2>2. /\ cursor'.offset = cursor.offset /\ cursor'.opCount = c.opCount
        /\ cursor'.opIdx = c.opIdx /\ cursor'.op = cursor.op
    BY <1>8, <1>9, <2>1
  <2>3. Cells!ParseStatus(plan, a) = "6900"
    BY <1>5, <1>6, <1>12, <2>1 DEF Cells!ParseStatus
  <2>4. Cells!ParseTx(plan, a) = [Cells!Started(plan, a) EXCEPT !.offset = a.offset]
    BY <2>3 DEF Cells!ParseTx
  <2>5. Cells!ParseTx(plan, a) = Record(a.offset, c.opCount, c.opIdx, a.op)
    BY <1>4, <2>4, ThrowKeepsOffset
  <2>6. b = Cells!ParseTx(plan, a)
    BY <1>7, <2>2, <2>5
  <2>7. OpIsRead'
    BY <1>1, <2>2 DEF OpIsRead
  <2> QED
    BY <1>10, <2>1, <2>3, <2>6, <2>7
<1>13. CASE ~(cursor.offset = 0 /\ OpCount > MAX_OPS) /\ parse_op
  <2> DEFINE o == i % BYTE
             next == NextOffset(at, o, c.opCount)
             op == Details(TypeAt(at), DataAt(at))
             cell == plan[i + 1]
  <2>1. /\ Known(at) /\ status' = "9000"
        /\ cursor' = [offset |-> next, opCount |-> c.opCount, opIdx |-> o, op |-> op]
    BY <1>13 DEF parse_op, c, at, i
  <2> HIDE DEF op
  <2>2. /\ cursor'.offset = next /\ cursor'.opCount = c.opCount
        /\ cursor'.opIdx = o /\ cursor'.op = op
    BY <2>1
  <2>3. i + 1 \in 1..Len(plan) /\ OpEnd(at) = End(plan, i + 1)
    <3>1. Known(CellEnd(i)) /\ CellEnd(i) = at
      BY <1>3, <2>1, CellEndIs
    <3>2. i + 1 \in 1..Len(plan) /\ OpEnd(CellEnd(i)) = CellEnd(i + 1)
      BY <1>1, <1>3, <3>1, KnownIsAction
    <3> QED
      BY <3>1, <3>2, CellEndIs
  <2>4. i \in 1..(Len(plan) - 1)
    <3>1. Len(plan) \in Nat
      BY <1>2, PlanIsActions
    <3> QED
      BY <1>3, <2>3, <3>1
  <2>5. cell \in Candidates(plan) /\ cell.type \in ActionTypes /\ Reads(op, cell)
    BY <1>1, <1>3, <2>1, <2>4, ActionAt DEF op
  <2>6. CellOpOf(op, plan) = cell
    BY <1>2, <2>5, OneCell
  <2>7. Cells!ParseStatus(plan, a) = "9000"
    BY <1>5, <1>6, <1>13, <2>1 DEF Cells!ParseStatus
  <2>8. Cells!ParseTx(plan, a) = Cells!ReadOp(plan, Cells!Started(plan, a))
    BY <2>7 DEF Cells!ParseTx
  <2>9. Cells!ParseTx(plan, a)
          = Record(Cells!NextOffset(i + 1, o, c.opCount), c.opCount, o, Cells!CellAt(plan, i + 1))
    BY <1>4, <2>8, ReadOpIs DEF i
  <2>10. Cells!CellAt(plan, i + 1) = cell
    BY <2>3 DEF Cells!CellAt
  <2>11. OffsetOf(next, plan) = Cells!NextOffset(i + 1, o, c.opCount)
    <3>1. CASE c.opCount = o
      BY <3>1 DEF NextOffset, Cells!NextOffset, OffsetOf
    <3>2. CASE c.opCount # o
      <4>1. next = End(plan, i + 1) /\ Cells!NextOffset(i + 1, o, c.opCount) = i + 1
        BY <2>3, <3>2 DEF NextOffset, Cells!NextOffset
      <4> HIDE DEF next
      <4> QED
        BY <1>1, <2>3, <4>1, OneOffset
    <3> QED
      BY <3>1, <3>2
  <2> HIDE DEF next, o
  <2>12. b = Cells!ParseTx(plan, a)
    BY <1>7, <2>2, <2>6, <2>9, <2>10, <2>11
  <2>13. OpIsRead'
    BY <1>1, <2>2, <2>5 DEF OpIsRead
  <2> QED
    BY <1>10, <2>1, <2>7, <2>12, <2>13
<1> QED
  BY <1>11, <1>12, <1>13 DEF parse_tx

(***************************************************************************)
(* For every set of plans and every choice of Contents (the numbers of     *)
(* authorizations, accounts and waits and the length of the memo) whose    *)
(* bytes are shorter than a uint16_t counts, where char is signed and an   *)
(* authority has the one key that parse_newaccount expects: parse_tx and   *)
(* parse_op do on the bytes what ParseLoop says of the actions.  Each call *)
(* reads the fields of the next action, from where the call before it      *)
(* stopped, and throws where ParseLoop does.  Every action declares the    *)
(* size that its data have.                                                *)
(***************************************************************************)
THEOREM BytesImplementCells ==
    ASSUME CHAR_SIGNED, KEYS = 1
    PROVE  Spec => ImplementsCells
<1>1. ByteInv /\ OnABoundary /\ OpIsRead /\ [parse_tx]_vars
      => [Cells!parse_tx]_Cells!vars /\ OpIsRead'
  <2> SUFFICES ASSUME ByteInv, OnABoundary, OpIsRead, [parse_tx]_vars
               PROVE  [Cells!parse_tx]_Cells!vars /\ OpIsRead'
    OBVIOUS
  <2>1. CASE parse_tx
    BY <2>1, CellsNext
  <2>2. CASE UNCHANGED vars
    <3>1. UNCHANGED <<plan, cursor, status>>
      BY <2>2 DEF vars
    <3>2. CellOffset' = CellOffset
      BY <3>1, CellEndIs DEF CellOffset, CellEnd, NoCell
    <3>3. CellOp' = CellOp
      BY <3>1 DEF CellOp, Shows, NoCell
    <3>4. OpIsRead'
      BY <3>1 DEF OpIsRead
    <3> QED
      BY <3>1, <3>2, <3>3, <3>4 DEF Cells!vars
  <2> QED
    BY <2>1, <2>2
<1> QED
  BY <1>1, CellsInit, BoundaryInvariant, PTL DEF Spec, ImplementsCells, Cells!Spec
=============================================================================
