------------------------- MODULE EosEncodingProofs -------------------------
(***************************************************************************)
(* Two encodings.  The text of a key loses nothing, for every key: base    *)
(* 58, for every two bases of which the digits have the margin that 58 has *)
(* over 256, and base 32, for every alphabet and checksum, whose           *)
(* characters hold the bits of the bytes in their order.  And what is sent *)
(* of a signature is the signature, for every size of a byte and of a      *)
(* number, every set of signatures and every number of attempts.           *)
(***************************************************************************)
EXTENDS EosPublicKey, EosSign, DataProofs

(***************************************************************************)
(* NumberOf, by the values of the prefixes: every function of that kind    *)
(* ends with the number.                                                   *)
(***************************************************************************)
Evaluates(v, s, base, n) ==
    v[0] = 0 /\ \A k \in 1..n : v[k] = v[k - 1] * base + s[k]

LEMMA EvaluatesOnce ==
    ASSUME NEW n \in Nat, NEW s, NEW base, NEW v, NEW w,
           Evaluates(v, s, base, n), Evaluates(w, s, base, n)
    PROVE  v[n] = w[n]
<1> DEFINE S == {k \in Nat : k <= n => v[k] = w[k]}
<1>1. 0 \in S
  BY DEF Evaluates
<1>2. ASSUME NEW k \in Nat, k \in S
      PROVE  k + 1 \in S
  <2> DEFINE m == k + 1
  <2>1. m \in Nat /\ m - 1 = k /\ (m <= n => k <= n /\ m \in 1..n)
    OBVIOUS
  <2>2. m \in S <=> (m <= n => v[m] = w[m])
    BY <2>1
  <2>3. k <= n => v[k] = w[k]
    BY <1>2
  <2> HIDE DEF m, S
  <2>4. ASSUME m <= n
        PROVE  v[m] = w[m]
    <3>1. v[m - 1] = w[m - 1]
      BY <2>1, <2>3, <2>4
    <3>2. v[m] = v[m - 1] * base + s[m] /\ w[m] = w[m - 1] * base + s[m]
      BY <2>1, <2>4 DEF Evaluates
    <3> QED
      BY <3>1, <3>2
  <2> QED
    BY <2>2, <2>4 DEF m
<1> HIDE DEF S
<1>3. Nat \subseteq S
  BY <1>1, <1>2, SetInduction
<1>4. n \in S
  BY <1>3
<1> QED
  BY <1>4 DEF S

Numbers(f, s, base, n) ==
    f = [k \in 0..n |-> IF k = 0 THEN 0 ELSE f[k - 1] * base + s[k]]

LEMMA NumberIs ==
    ASSUME NEW s \in Seq(Nat), NEW base \in Nat
    PROVE  \E v \in [0..Len(s) -> Nat] :
              Evaluates(v, s, base, Len(s)) /\ b58enc!NumberOf(s, base) = v[Len(s)]
<1> DEFINE n == Len(s)
           steps == [p \in (1..n) \X Nat |-> p[2] * base + s[p[1]]]
<1>0. n \in Nat /\ \A k \in 1..n : s[k] \in Nat
  OBVIOUS
<1>1. \A k \in 1..n, x \in Nat : steps[<<k, x>>] = x * base + s[k]
  OBVIOUS
<1>2. Stepping(steps, n, Nat)
  <2>1. \A k \in 1..n, x \in Nat : x * base + s[k] \in Nat
    BY <1>0
  <2>2. \A p \in (1..n) \X Nat : p[2] * base + s[p[1]] \in Nat
    BY <2>1
  <2> QED
    BY <2>2 DEF Stepping
<1> HIDE DEF n, steps
<1>3. PICK f : Recursive(f, 0, steps, n, Nat)
  BY <1>0, <1>2, RecursionExists
<1>4. ASSUME NEW k \in 1..n PROVE f[k] = f[k - 1] * base + s[k]
  <2>1. f[k - 1] \in Nat
    BY <1>0, <1>3 DEF Recursive
  <2>2. f[k] = steps[<<k, f[k - 1]>>]
    BY <1>3 DEF Recursive
  <2> QED
    BY <1>1, <2>1, <2>2
<1>5. f \in [0..n -> Nat] /\ f[0] = 0
  BY <1>3 DEF Recursive
<1>6. Numbers(f, s, base, n)
  BY <1>4, <1>5 DEF Numbers
<1> DEFINE g == CHOOSE g : Numbers(g, s, base, n)
<1>7. Numbers(g, s, base, n)
  BY <1>6
<1>8. b58enc!NumberOf(s, base) = g[n]
  BY DEF b58enc!NumberOf, Numbers, n
<1> HIDE DEF g
<1>9. Evaluates(g, s, base, n)
  <2>1. g = [k \in 0..n |-> IF k = 0 THEN 0 ELSE g[k - 1] * base + s[k]]
    BY <1>7 DEF Numbers
  <2>2. 0 \in 0..n /\ \A k \in 1..n : k \in 0..n /\ k # 0
    BY <1>0
  <2>3. g[0] = 0
    BY <2>1, <2>2
  <2>4. \A k \in 1..n : g[k] = g[k - 1] * base + s[k]
    BY <2>1, <2>2
  <2> QED
    BY <2>3, <2>4 DEF Evaluates
<1>10. Evaluates(f, s, base, n)
  BY <1>4, <1>5 DEF Evaluates
<1>11. f[n] = g[n]
  BY <1>0, <1>9, <1>10, EvaluatesOnce
<1> QED
  BY <1>5, <1>8, <1>10, <1>11 DEF n

LEMMA NumberOfIs ==
    ASSUME NEW s \in Seq(Nat), NEW base \in Nat, NEW v, Evaluates(v, s, base, Len(s))
    PROVE  b58enc!NumberOf(s, base) = v[Len(s)]
<1>1. PICK w \in [0..Len(s) -> Nat] :
         Evaluates(w, s, base, Len(s)) /\ b58enc!NumberOf(s, base) = w[Len(s)]
  BY NumberIs
<1>2. Len(s) \in Nat
  OBVIOUS
<1> QED
  BY <1>1, <1>2, EvaluatesOnce

(***************************************************************************)
(* LeadingZeros: there is such a number, and no other.                     *)
(***************************************************************************)
Leads(s, z) ==
    /\ z \in 0..Len(s)
    /\ \A k \in 1..z : s[k] = 0
    /\ z < Len(s) => s[z + 1] # 0

LEMMA LeadingZerosLead ==
    ASSUME NEW s \in Seq(Nat)
    PROVE  Leads(s, b58enc!LeadingZeros(s))
<1> DEFINE n == Len(s)
           S == {z \in 0..n : z < n => s[z + 1] # 0}
<1>1. n \in Nat
  OBVIOUS
<1>2. S \subseteq Nat /\ n \in S
  BY <1>1
<1>3. PICK m \in S : \A q \in S : m <= q
  BY <1>2, LeastNatural
<1>4. m \in 0..n /\ (m < n => s[m + 1] # 0)
  BY <1>3
<1>5. ASSUME NEW k \in 1..m
      PROVE  s[k] = 0
  <2> DEFINE h == k - 1
  <2>1. h \in 0..n /\ h < n /\ h < m /\ h + 1 = k
    BY <1>1, <1>4
  <2>2. h \notin S
    BY <1>3, <1>4, <2>1
  <2>3. ~(h < n => s[h + 1] # 0)
    BY <2>1, <2>2
  <2> HIDE DEF h
  <2> QED
    BY <2>1, <2>3
<1>6. \E z \in 0..Len(s) :
         /\ \A k \in 1..z : s[k] = 0
         /\ z < Len(s) => s[z + 1] # 0
  BY <1>4, <1>5
<1> HIDE DEF n, S
<1> DEFINE c == CHOOSE z \in 0..Len(s) :
                    /\ \A k \in 1..z : s[k] = 0
                    /\ z < Len(s) => s[z + 1] # 0
<1>7. Leads(s, c)
  BY <1>6 DEF Leads
<1>8. b58enc!LeadingZeros(s) = c
  BY DEF b58enc!LeadingZeros
<1> HIDE DEF c
<1> QED
  BY <1>7, <1>8

LEMMA LeadsOnce ==
    ASSUME NEW s, Len(s) \in Nat, NEW y, NEW z, Leads(s, y), Leads(s, z)
    PROVE  y = z
<1>1. y \in 0..Len(s) /\ z \in 0..Len(s)
  BY DEF Leads
<1>2. ASSUME y < z
      PROVE  FALSE
  <2>1. y + 1 \in 1..z /\ y < Len(s)
    BY <1>1, <1>2
  <2>2. s[y + 1] = 0
    BY <2>1 DEF Leads
  <2>3. s[y + 1] # 0
    BY <2>1 DEF Leads
  <2> QED
    BY <2>2, <2>3
<1>3. ASSUME z < y
      PROVE  FALSE
  <2>1. z + 1 \in 1..y /\ z < Len(s)
    BY <1>1, <1>3
  <2>2. s[z + 1] = 0
    BY <2>1 DEF Leads
  <2>3. s[z + 1] # 0
    BY <2>1 DEF Leads
  <2> QED
    BY <2>2, <2>3
<1> QED
  BY <1>1, <1>2, <1>3

-----------------------------------------------------------------------------
(***************************************************************************)
(* The digits, the highest first, as EosBase58 keeps them in buf.  Held:   *)
(* v[k] is the number that v[lo] becomes when the digits up to k are       *)
(* written behind it.                                                      *)
(***************************************************************************)
Held(v, digits, lo, hi) ==
    \A k \in (lo + 1)..hi : v[k] = v[k - 1] * DIGITS + digits[k - 1]

\* All n digits are those of the number.
BytesDone(digits, n, number) ==
    \E v \in [0..n -> Nat] : v[0] = 0 /\ Held(v, digits, 0, n) /\ v[n] = number

(***************************************************************************)
(* Up to "at" the digits are the old ones, behind it the new ones: if the  *)
(* old ones are multiplied by BASE and the carry is added, the whole is    *)
(* the new number.                                                         *)
(***************************************************************************)
ByteUnderWay(digits, n, at, c, number) ==
    \E old, v \in [0..n -> Nat] :
        /\ old[0] = 0 /\ Held(old, digits, 0, at + 1)
        /\ v[at + 1] = BASE * old[at + 1] + c
        /\ Held(v, digits, at + 1, n) /\ v[n] = number

LEMMA NextByteStarts ==
    ASSUME NEW n \in Nat, NEW digits, NEW number, BytesDone(digits, n, number), NEW byte \in Nat
    PROVE  ByteUnderWay(digits, n, n - 1, byte, number * BASE + byte)
<1>1. PICK v \in [0..n -> Nat] : v[0] = 0 /\ Held(v, digits, 0, n) /\ v[n] = number
  BY DEF BytesDone
<1> DEFINE w == [k \in 0..n |-> BASE * v[k] + byte]
<1>2. w \in [0..n -> Nat] /\ w[n] = BASE * v[n] + byte
  BY DataAssumption
<1> HIDE DEF w
<1>3. n - 1 + 1 = n /\ BASE * v[n] + byte = number * BASE + byte
  BY <1>1, DataAssumption
<1>4. Held(w, digits, n, n)
  BY DEF Held
<1> QED
  BY <1>1, <1>2, <1>3, <1>4 DEF ByteUnderWay

LEMMA NextDigitGoesOn ==
    ASSUME NEW n \in Nat, NEW at \in 0..(n - 1),
           NEW digits \in [0..(n - 1) -> 0..(DIGITS - 1)], NEW c \in Nat, NEW number,
           ByteUnderWay(digits, n, at, c, number)
    PROVE  LET sum == c + BASE * digits[at]
           IN  /\ sum \div DIGITS \in Nat /\ sum % DIGITS \in 0..(DIGITS - 1)
               /\ ByteUnderWay([digits EXCEPT ![at] = sum % DIGITS], n, at - 1,
                               sum \div DIGITS, number)
<1> DEFINE sum == c + BASE * digits[at]
           q == sum \div DIGITS
           r == sum % DIGITS
           new == [digits EXCEPT ![at] = r]
           m == at + 1
<1>1. PICK old \in [0..n -> Nat], v \in [0..n -> Nat] :
         /\ old[0] = 0 /\ Held(old, digits, 0, m)
         /\ v[m] = BASE * old[m] + c
         /\ Held(v, digits, m, n) /\ v[n] = number
  BY DEF ByteUnderWay
<1>2. digits[at] \in Nat /\ BASE \in Nat /\ DIGITS \in Nat \ {0}
  BY DataAssumption
<1>3. sum \in Nat
  <2> DEFINE d == digits[at]
  <2>1. d \in Nat
    BY <1>2
  <2> HIDE DEF d
  <2>2. c + BASE * d \in Nat
    BY <1>2, <2>1, Multiplied
  <2> QED
    BY <2>2 DEF d
<1> HIDE DEF sum
<1>4. q \in Nat /\ r \in 0..(DIGITS - 1) /\ sum = q * DIGITS + r
  BY <1>2, <1>3, Divided
<1>5. m \in 1..n /\ m - 1 = at /\ at \in 0..n /\ at # m
  OBVIOUS
<1>6. new[at] = r /\ \A k \in 0..(n - 1) : k # at => new[k] = digits[k]
  OBVIOUS
<1> HIDE DEF q, r, new, m
<1> DEFINE w == [v EXCEPT ![at] = BASE * old[at] + q]
<1>7. /\ w \in [0..n -> Nat] /\ w[at] = BASE * old[at] + q
      /\ \A k \in 0..n : k # at => w[k] = v[k]
  <2>1. BASE * old[at] + q \in Nat
    <3> DEFINE o == old[at]
    <3>1. o \in Nat
      BY <1>5
    <3> HIDE DEF o
    <3>2. BASE * o + q \in Nat
      BY <1>2, <1>4, <3>1, Multiplied
    <3> QED
      BY <3>2 DEF o
  <2> QED
    BY <1>5, <2>1
<1> HIDE DEF w
<1>8. Held(old, new, 0, at)
  <2>1. \A k \in 1..at : k \in 1..m /\ k - 1 \in 0..(n - 1) /\ k - 1 # at
    BY <1>5
  <2>2. \A k \in 1..m : old[k] = old[k - 1] * DIGITS + digits[k - 1]
    BY <1>1 DEF Held
  <2>3. \A k \in 1..at : old[k] = old[k - 1] * DIGITS + new[k - 1]
    BY <1>6, <2>1, <2>2
  <2> QED
    BY <2>3 DEF Held
<1>9. w[m] = w[at] * DIGITS + new[at]
  <2>1. old[m] = old[at] * DIGITS + digits[at]
    BY <1>1, <1>5 DEF Held
  <2>2. w[m] = BASE * old[m] + c
    BY <1>1, <1>5, <1>7
  <2> DEFINE o == old[at]
             d == digits[at]
             p == old[m]
  <2>3. o \in Nat /\ d \in Nat /\ p = o * DIGITS + d
    BY <1>2, <1>5, <2>1
  <2>4. sum = c + BASE * d
    BY DEF sum
  <2>5. w[m] = BASE * p + c /\ w[at] = BASE * o + q
    BY <1>7, <2>2
  <2> HIDE DEF o, d, p
  <2>6. BASE * p + c = BASE * (o * DIGITS) + sum
    BY <1>2, <2>3, <2>4
  <2>7. (BASE * o + q) * DIGITS + r = BASE * (o * DIGITS) + (q * DIGITS + r)
    BY <1>2, <1>4, <2>3
  <2> QED
    BY <1>4, <1>6, <2>5, <2>6, <2>7
<1>10. Held(w, new, at, n)
  <2>1. ASSUME NEW k \in (at + 1)..n
        PROVE  w[k] = w[k - 1] * DIGITS + new[k - 1]
    <3>1. CASE k = m
      BY <1>5, <1>9, <3>1
    <3>2. CASE k # m
      <4>1. /\ k \in (m + 1)..n /\ k \in 0..n /\ k # at
            /\ k - 1 \in 0..(n - 1) /\ k - 1 \in 0..n /\ k - 1 # at
        BY <1>5, <3>2 DEF m
      <4>2. v[k] = v[k - 1] * DIGITS + digits[k - 1]
        BY <1>1, <4>1 DEF Held
      <4> QED
        BY <1>6, <1>7, <4>1, <4>2
    <3> QED
      BY <3>1, <3>2
  <2> QED
    BY <2>1 DEF Held
<1>11. w[n] = number
  BY <1>1, <1>5, <1>7
<1>12. at - 1 + 1 = at
  OBVIOUS
<1>13. ByteUnderWay(new, n, at - 1, q, number)
  BY <1>1, <1>7, <1>8, <1>10, <1>11, <1>12 DEF ByteUnderWay
<1> QED
  BY <1>4, <1>13 DEF new, q, r, sum

\* Digits that are all zero denote zero.
LEMMA ZerosHeld ==
    ASSUME NEW old, old[0] = 0, NEW digits, NEW m \in Nat, Held(old, digits, 0, m),
           \A k \in 0..(m - 1) : digits[k] = 0
    PROVE  \A k \in 0..m : old[k] = 0
<1> DEFINE S == {k \in Nat : k <= m => old[k] = 0}
<1>1. 0 \in S
  OBVIOUS
<1>2. ASSUME NEW k \in Nat, k \in S
      PROVE  k + 1 \in S
  <2> DEFINE h == k + 1
  <2>1. h \in Nat /\ h - 1 = k /\ (h <= m => k <= m /\ h \in 1..m /\ k \in 0..(m - 1))
    OBVIOUS
  <2>2. h \in S <=> (h <= m => old[h] = 0)
    BY <2>1
  <2>3. k <= m => old[k] = 0
    BY <1>2
  <2> HIDE DEF h, S
  <2>4. ASSUME h <= m
        PROVE  old[h] = 0
    <3>1. old[h] = old[h - 1] * DIGITS + digits[h - 1]
      BY <2>1, <2>4 DEF Held
    <3>2. old[h - 1] = 0 /\ digits[h - 1] = 0
      BY <2>1, <2>3, <2>4
    <3> QED
      BY <3>1, <3>2, DataAssumption
  <2> QED
    BY <2>2, <2>4 DEF h
<1> HIDE DEF S
<1>3. Nat \subseteq S
  BY <1>1, <1>2, SetInduction
<1>4. ASSUME NEW k \in 0..m
      PROVE  old[k] = 0
  <2>1. k \in S /\ k <= m
    BY <1>3
  <2> QED
    BY <2>1 DEF S
<1> QED
  BY <1>4

LEMMA LastDigitDone ==
    ASSUME NEW n \in Nat, NEW at \in -1..(n - 1), NEW digits, NEW number,
           ByteUnderWay(digits, n, at, 0, number),
           \A k \in 0..at : digits[k] = 0
    PROVE  BytesDone(digits, n, number)
<1> DEFINE m == at + 1
<1>0. m \in 0..n /\ m - 1 = at
  OBVIOUS
<1>1. PICK old \in [0..n -> Nat], v \in [0..n -> Nat] :
         /\ old[0] = 0 /\ Held(old, digits, 0, m)
         /\ v[m] = BASE * old[m] + 0
         /\ Held(v, digits, m, n) /\ v[n] = number
  BY DEF ByteUnderWay
<1> HIDE DEF m
<1>2. \A k \in 0..m : old[k] = 0
  <2>1. m \in Nat /\ \A k \in 0..(m - 1) : digits[k] = 0
    BY <1>0
  <2> QED
    BY <1>1, <2>1, ZerosHeld
<1>3. v[m] = 0
  BY <1>0, <1>1, <1>2, DataAssumption
<1> DEFINE w == [k \in 0..n |-> IF k <= m THEN 0 ELSE v[k]]
<1>4. /\ w \in [0..n -> Nat]
      /\ \A k \in 0..m : w[k] = 0
      /\ \A k \in m..n : w[k] = v[k]
  BY <1>0, <1>3
<1> HIDE DEF w
<1>5. ASSUME NEW k \in 1..n
      PROVE  w[k] = w[k - 1] * DIGITS + digits[k - 1]
  <2>1. CASE k <= m
    <3>1. k \in 0..m /\ k - 1 \in 0..m /\ k - 1 \in 0..at
      BY <1>0, <2>1
    <3>2. w[k] = 0 /\ w[k - 1] = 0 /\ digits[k - 1] = 0
      BY <1>4, <3>1
    <3> QED
      BY <3>2, DataAssumption
  <2>2. CASE k > m
    <3>1. k \in m..n /\ k - 1 \in m..n /\ k \in (m + 1)..n
      BY <1>0, <2>2
    <3>2. v[k] = v[k - 1] * DIGITS + digits[k - 1]
      BY <1>1, <3>1 DEF Held
    <3>3. w[k] = v[k] /\ w[k - 1] = v[k - 1]
      BY <1>4, <3>1
    <3> QED
      BY <3>2, <3>3
  <2> QED
    BY <1>0, <2>1, <2>2
<1>6. Held(w, digits, 0, n)
  BY <1>5 DEF Held
<1>7. w[0] = 0 /\ w[n] = number
  BY <1>0, <1>1, <1>4
<1> QED
  BY <1>4, <1>6, <1>7 DEF BytesDone

\* A carry that is left over at a digit is too large for the digits behind it.
LEMMA CarryCounts ==
    ASSUME NEW n \in Nat, NEW at \in -1..(n - 1),
           NEW digits \in [0..(n - 1) -> 0..(DIGITS - 1)], NEW c \in Nat \ {0}, NEW number,
           ByteUnderWay(digits, n, at, c, number),
           \A k \in 0..at : digits[k] = 0
    PROVE  number >= Power(DIGITS, n - 1 - at) /\ number \in Nat
<1> DEFINE m == at + 1
<1>0. m \in 0..n /\ m - 1 = at /\ n - 1 - at = n - m
  OBVIOUS
<1>1. PICK old \in [0..n -> Nat], v \in [0..n -> Nat] :
         /\ old[0] = 0 /\ Held(old, digits, 0, m)
         /\ v[m] = BASE * old[m] + c
         /\ Held(v, digits, m, n) /\ v[n] = number
  BY DEF ByteUnderWay
<1> HIDE DEF m
<1>2. \A k \in 0..m : old[k] = 0
  <2>1. m \in Nat /\ \A k \in 0..(m - 1) : digits[k] = 0
    BY <1>0
  <2> QED
    BY <1>1, <2>1, ZerosHeld
<1>3. v[m] = c
  BY <1>0, <1>1, <1>2, DataAssumption
<1> DEFINE S == {k \in Nat : m + k <= n => v[m + k] >= Power(DIGITS, k)}
<1>4. 0 \in S
  <2>1. Power(DIGITS, 0) = 1
    BY DataAssumption, PowerNext
  <2>2. m + 0 = m /\ c >= 1
    BY <1>0
  <2> QED
    BY <1>3, <2>1, <2>2
<1>5. ASSUME NEW k \in Nat, k \in S
      PROVE  k + 1 \in S
  <2> DEFINE h == k + 1
             f == m + k
             g == m + h
  <2>1. h \in Nat /\ f \in Nat /\ g \in Nat /\ g - 1 = f /\ f >= m
    BY <1>0
  <2>2. h \in S <=> (g <= n => v[g] >= Power(DIGITS, h))
    BY <2>1
  <2>3. f <= n => v[f] >= Power(DIGITS, k)
    BY <1>5
  <2>4. Power(DIGITS, h) = DIGITS * Power(DIGITS, k) /\ Power(DIGITS, k) \in Nat
    BY DataAssumption, PowerNext
  <2> HIDE DEF f, g, h, S
  <2>5. ASSUME g <= n
        PROVE  v[g] >= Power(DIGITS, h)
    <3> DEFINE x == v[f]
               d == digits[f]
               p == Power(DIGITS, k)
    <3>1. f \in 0..n /\ g \in (m + 1)..n /\ f \in 0..(n - 1)
      BY <1>0, <2>1, <2>5
    <3>2. v[g] = x * DIGITS + d
      BY <1>1, <2>1, <3>1 DEF Held
    <3>3. x \in Nat /\ d \in Nat /\ p \in Nat /\ x >= p
      BY <1>1, <2>1, <2>3, <2>4, <3>1, DataAssumption
    <3> HIDE DEF x, d, p
    <3>4. x * DIGITS >= p * DIGITS
      BY <3>3, DataAssumption
    <3>5. p * DIGITS = DIGITS * p /\ p * DIGITS \in Nat /\ x * DIGITS \in Nat
      BY <3>3, DataAssumption, Multiplied
    <3> QED
      BY <2>4, <3>2, <3>3, <3>4, <3>5 DEF p
  <2> QED
    BY <2>2, <2>5 DEF h
<1> HIDE DEF S
<1>6. Nat \subseteq S
  BY <1>4, <1>5, SetInduction
<1>7. n - m \in S /\ m + (n - m) = n
  BY <1>0, <1>6
<1>8. number \in Nat
  <2>1. n \in 0..n
    OBVIOUS
  <2> QED
    BY <1>1, <2>1
<1> QED
  BY <1>0, <1>1, <1>7, <1>8 DEF S

-----------------------------------------------------------------------------
(***************************************************************************)
(* The number that the first bytes denote.                                 *)
(***************************************************************************)
Num(bytes, k) == b58enc!NumberOf(SubSeq(bytes, 1, k), BASE)

LEMMA NumIs ==
    ASSUME NEW d \in Seq(0..(BASE - 1))
    PROVE  /\ \E v \in [0..Len(d) -> Nat] :
                 Evaluates(v, d, BASE, Len(d)) /\ \A k \in 0..Len(d) : Num(d, k) = v[k]
           /\ Num(d, Len(d)) = b58enc!NumberOf(d, BASE)
<1> DEFINE n == Len(d)
<1>1. d \in Seq(Nat) /\ n \in Nat /\ BASE \in Nat
  BY DataAssumption
<1>2. PICK v \in [0..n -> Nat] :
         Evaluates(v, d, BASE, n) /\ b58enc!NumberOf(d, BASE) = v[n]
  BY <1>1, NumberIs
<1>3. ASSUME NEW k \in 0..n
      PROVE  Num(d, k) = v[k]
  <2> DEFINE s == SubSeq(d, 1, k)
  <2>1. s \in Seq(Nat) /\ Len(s) = k /\ \A q \in 1..k : s[q] = d[q] /\ q \in 1..n
    BY <1>1
  <2> HIDE DEF s, n
  <2>2. Evaluates(v, s, BASE, k)
    BY <1>2, <2>1 DEF Evaluates
  <2>3. b58enc!NumberOf(s, BASE) = v[k]
    BY <1>1, <2>1, <2>2, NumberOfIs
  <2> QED
    BY <2>3 DEF Num, s
<1>4. n \in 0..n
  BY <1>1
<1> QED
  BY <1>2, <1>3, <1>4

LEMMA NumNext ==
    ASSUME NEW d \in Seq(0..(BASE - 1))
    PROVE  /\ Num(d, 0) = 0
           /\ \A k \in 0..Len(d) : Num(d, k) \in Nat
           /\ \A k \in 0..(Len(d) - 1) : Num(d, k + 1) = Num(d, k) * BASE + d[k + 1]
<1> DEFINE n == Len(d)
<1>1. n \in Nat
  OBVIOUS
<1>2. PICK v \in [0..n -> Nat] :
         Evaluates(v, d, BASE, n) /\ \A k \in 0..n : Num(d, k) = v[k]
  BY NumIs
<1> HIDE DEF n
<1>3. Num(d, 0) = 0
  BY <1>1, <1>2 DEF Evaluates
<1>4. ASSUME NEW k \in 0..(n - 1)
      PROVE  Num(d, k + 1) = Num(d, k) * BASE + d[k + 1]
  <2> DEFINE m == k + 1
  <2>1. m \in 1..n /\ m \in 0..n /\ k \in 0..n /\ m - 1 = k
    BY <1>1
  <2> HIDE DEF m
  <2>2. v[m] = v[k] * BASE + d[m]
    BY <1>2, <2>1 DEF Evaluates
  <2> QED
    BY <1>2, <2>1, <2>2 DEF m
<1> QED
  BY <1>2, <1>3, <1>4 DEF n

\* Behind z leading zeros, k bytes hold less than the k-th power.
LEMMA NumBound ==
    ASSUME NEW d \in Seq(0..(BASE - 1)), NEW z, Leads(d, z), NEW k \in z..Len(d)
    PROVE  Num(d, k) < Power(BASE, k - z) /\ (k = z => Num(d, k) = 0)
<1> DEFINE n == Len(d)
<1>1. n \in Nat /\ z \in 0..n
  BY DEF Leads
<1>2. /\ Num(d, 0) = 0 /\ \A h \in 0..n : Num(d, h) \in Nat
      /\ \A h \in 0..(n - 1) : Num(d, h + 1) = Num(d, h) * BASE + d[h + 1]
  BY NumNext
<1>3. \A h \in 1..z : d[h] = 0
  BY DEF Leads
<1>4. \A h \in 1..n : d[h] \in 0..(BASE - 1)
  <2> DEFINE T == 0..(BASE - 1)
  <2>1. d \in Seq(T)
    OBVIOUS
  <2> HIDE DEF T
  <2>2. \A h \in 1..n : d[h] \in T
    BY <2>1
  <2> QED
    BY <2>2 DEF T
<1>5. BASE \in Nat \ {0}
  BY DataAssumption
<1> HIDE DEF n
<1> DEFINE S == {h \in Nat : h <= z => Num(d, h) = 0}
<1>6. z \in S
  <2>1. 0 \in S
    BY <1>2
  <2>2. ASSUME NEW h \in Nat, h \in S
        PROVE  h + 1 \in S
    <3> SUFFICES ASSUME h + 1 <= z
                 PROVE  Num(d, h + 1) = 0
      OBVIOUS
    <3>1. h \in 0..(n - 1) /\ h + 1 \in 1..z /\ h <= z
      BY <1>1
    <3>2. Num(d, h) = 0 /\ d[h + 1] = 0
      BY <1>3, <2>2, <3>1
    <3> QED
      BY <1>2, <1>5, <3>1, <3>2
  <2> HIDE DEF S
  <2>3. Nat \subseteq S
    BY <2>1, <2>2, SetInduction
  <2> QED
    BY <1>1, <2>3
<1>7. Num(d, z) = 0
  BY <1>1, <1>6
<1> HIDE DEF S
<1> DEFINE R == {h \in Nat : z + h <= n => Num(d, z + h) < Power(BASE, h)}
<1>8. 0 \in R
  <2>1. Power(BASE, 0) = 1
    BY <1>5, PowerNext
  <2>2. z + 0 = z
    BY <1>1
  <2> QED
    BY <1>7, <2>1, <2>2
<1>9. ASSUME NEW h \in Nat, h \in R
      PROVE  h + 1 \in R
  <2> DEFINE f == z + h
             x == Num(d, f)
             p == Power(BASE, h)
             b == d[f + 1]
  <2>1. f \in Nat /\ z + (h + 1) = f + 1
    BY <1>1
  <2>2. h + 1 \in R <=> (f + 1 <= n => Num(d, f + 1) < Power(BASE, h + 1))
    BY <2>1
  <2>3. f <= n => x < p
    BY <1>9
  <2>4. Power(BASE, h + 1) = BASE * p /\ p \in Nat
    BY <1>5, PowerNext
  <2> HIDE DEF R
  <2>5. ASSUME f + 1 <= n
        PROVE  Num(d, f + 1) < Power(BASE, h + 1)
    <3>1. f \in 0..(n - 1) /\ f + 1 \in 1..n /\ f \in 0..n
      BY <1>1, <2>1, <2>5
    <3>2. Num(d, f + 1) = x * BASE + b
      BY <1>2, <3>1
    <3>3. x \in Nat /\ b \in Nat /\ b < BASE /\ x + 1 <= p
      BY <1>2, <1>4, <1>5, <2>1, <2>3, <2>4, <3>1
    <3> HIDE DEF x, p, b
    <3>4. (x + 1) * BASE <= p * BASE
      BY <1>5, <2>4, <3>3
    <3>5. (x + 1) * BASE = x * BASE + BASE /\ p * BASE = BASE * p
      BY <1>5, <2>4, <3>3
    <3>6. x * BASE \in Nat /\ p * BASE \in Nat
      BY <1>5, <2>4, <3>3, Multiplied
    <3>7. x * BASE + b < BASE * p
      BY <1>5, <3>3, <3>4, <3>5, <3>6
    <3> QED
      BY <2>4, <3>2, <3>7
  <2> QED
    BY <2>2, <2>5
<1> HIDE DEF R
<1>10. Nat \subseteq R
  BY <1>8, <1>9, SetInduction
<1>11. k - z \in R /\ z + (k - z) = k /\ k <= n
  BY <1>1, <1>10 DEF n
<1> QED
  BY <1>7, <1>11 DEF R

-----------------------------------------------------------------------------
(***************************************************************************)
(* The digits as a sequence, and the text that is made of it.              *)
(***************************************************************************)
LEMMA DigitsDenote ==
    ASSUME NEW n \in Nat, NEW digits \in [0..(n - 1) -> 0..(DIGITS - 1)],
           NEW number, BytesDone(digits, n, number)
    PROVE  b58enc!NumberOf([k \in 1..n |-> digits[k - 1]], DIGITS) = number
<1> DEFINE d == [k \in 1..n |-> digits[k - 1]]
<1>1. PICK v \in [0..n -> Nat] : v[0] = 0 /\ Held(v, digits, 0, n) /\ v[n] = number
  BY DEF BytesDone
<1>2. d \in [1..n -> 0..(DIGITS - 1)] /\ \A k \in 1..n : d[k] = digits[k - 1]
  OBVIOUS
<1> HIDE DEF d
<1>3. d \in Seq(Nat) /\ Len(d) = n
  <2>1. d \in [1..n -> Nat]
    BY <1>2, DataAssumption
  <2> QED
    BY <2>1
<1>4. Evaluates(v, d, DIGITS, n)
  BY <1>1, <1>2 DEF Evaluates, Held
<1>5. DIGITS \in Nat
  BY DataAssumption
<1>6. b58enc!NumberOf(d, DIGITS) = v[Len(d)]
  BY <1>3, <1>4, <1>5, NumberOfIs
<1> QED
  BY <1>1, <1>3, <1>6 DEF d

TextOf(z, d) ==
    [k \in 1..z |-> 0] \o SubSeq(d, b58enc!LeadingZeros(d) + 1, Len(d))

LEMMA TextDenotes ==
    ASSUME NEW z \in Nat, NEW d \in Seq(0..(DIGITS - 1))
    PROVE  /\ TextOf(z, d) \in Seq(0..(DIGITS - 1))
           /\ b58enc!LeadingZeros(TextOf(z, d)) = z
           /\ b58enc!NumberOf(TextOf(z, d), DIGITS) = b58enc!NumberOf(d, DIGITS)
<1> DEFINE T == 0..(DIGITS - 1)
           n == Len(d)
           lz == b58enc!LeadingZeros(d)
           zeros == [k \in 1..z |-> 0]
           rest == SubSeq(d, lz + 1, n)
           text == zeros \o rest
<1>0. TextOf(z, d) = text
  BY DEF TextOf
<1>1. 0 \in T /\ T \subseteq Nat /\ DIGITS \in Nat
  BY DataAssumption
<1>2. d \in Seq(T)
  OBVIOUS
<1> HIDE DEF T
<1>3. d \in Seq(Nat) /\ n \in Nat
  BY <1>1, <1>2
<1>4. Leads(d, lz)
  BY <1>3, LeadingZerosLead
<1>5. lz \in 0..n /\ \A k \in 1..lz : d[k] = 0
  BY <1>4 DEF Leads
<1> HIDE DEF lz
<1>6. zeros \in Seq(T) /\ Len(zeros) = z /\ \A k \in 1..z : zeros[k] = 0
  BY <1>1
<1>7. /\ rest \in Seq(T) /\ Len(rest) = n - lz
      /\ \A k \in 1..(n - lz) : rest[k] = d[lz + k]
  BY <1>2, <1>3, <1>5
<1> HIDE DEF n, zeros, rest
<1>8. /\ text \in Seq(T) /\ Len(text) = z + (n - lz)
      /\ \A k \in 1..z : text[k] = 0
      /\ \A k \in 1..(n - lz) : text[z + k] = d[lz + k]
  <2>1. zeros \in Seq(T) /\ rest \in Seq(T)
    BY <1>6, <1>7
  <2>2. /\ text \in Seq(T) /\ Len(text) = Len(zeros) + Len(rest)
        /\ \A k \in 1..Len(zeros) : text[k] = zeros[k]
        /\ \A k \in 1..Len(rest) : text[Len(zeros) + k] = rest[k]
    BY <2>1, Joined
  <2> HIDE DEF text
  <2> QED
    BY <1>6, <1>7, <2>2
<1> HIDE DEF text
<1>9. text \in Seq(Nat) /\ Len(text) \in Nat
  BY <1>1, <1>8, Widened
<1>10. Leads(text, z)
  <2>1. z \in 0..Len(text)
    BY <1>3, <1>5, <1>8
  <2>2. ASSUME z < Len(text)
        PROVE  text[z + 1] # 0
    <3>1. lz < n /\ 1 \in 1..(n - lz)
      BY <1>3, <1>5, <1>8, <2>2
    <3>2. d[lz + 1] # 0
      BY <1>4, <3>1 DEF Leads, n
    <3> QED
      BY <1>8, <3>1, <3>2
  <2> QED
    BY <1>8, <2>1, <2>2 DEF Leads
<1>11. b58enc!LeadingZeros(text) = z
  <2>1. Leads(text, b58enc!LeadingZeros(text))
    BY <1>9, LeadingZerosLead
  <2> QED
    BY <1>9, <1>10, <2>1, LeadsOnce
<1>12. PICK v \in [0..n -> Nat] :
          Evaluates(v, d, DIGITS, n) /\ b58enc!NumberOf(d, DIGITS) = v[n]
  BY <1>1, <1>3, NumberIs DEF n
<1>13. \A k \in 0..lz : v[k] = 0
  <2> DEFINE digits == [k \in 0..(n - 1) |-> d[k + 1]]
  <2>1. v[0] = 0
    BY <1>12 DEF Evaluates
  <2>2. \A k \in 1..lz : k \in 1..n /\ k - 1 + 1 = k /\ k - 1 \in 0..(n - 1)
    BY <1>3, <1>5
  <2>3. Held(v, digits, 0, lz)
    BY <1>12, <2>2 DEF Held, Evaluates
  <2>4. \A k \in 0..(lz - 1) : k \in 0..(n - 1) /\ k + 1 \in 1..lz
    BY <1>3, <1>5
  <2>5. \A k \in 0..(lz - 1) : digits[k] = 0
    BY <1>5, <2>4
  <2> HIDE DEF digits
  <2> QED
    <3>1. lz \in Nat
      BY <1>3, <1>5
    <3> QED
      BY <2>1, <2>3, <2>5, <3>1, ZerosHeld
<1> DEFINE u == z + (n - lz)
           w == [k \in 0..u |-> IF k <= z THEN 0 ELSE v[lz + (k - z)]]
<1>14. u \in Nat /\ u = z + (n - lz)
  BY <1>3, <1>5
<1> HIDE DEF u
<1>15. \A k \in 0..z : w[k] = 0
  BY <1>3, <1>5, <1>14
<1>16. \A k \in 0..(n - lz) : w[z + k] = v[lz + k]
  <2>1. ASSUME NEW k \in 0..(n - lz)
        PROVE  w[z + k] = v[lz + k]
    <3>1. z + k \in 0..u /\ z + k - z = k
      BY <1>3, <1>5, <1>14
    <3>2. CASE k = 0
      BY <1>5, <1>13, <1>15, <3>1, <3>2
    <3>3. CASE k # 0
      <4>1. ~(z + k <= z)
        BY <3>3
      <4> QED
        BY <3>1, <4>1
    <3> QED
      BY <3>2, <3>3
  <2> QED
    BY <2>1
<1> HIDE DEF w
<1>17. ASSUME NEW k \in 1..u
       PROVE  w[k] = w[k - 1] * DIGITS + text[k]
  <2>1. CASE k <= z
    <3>1. k \in 0..z /\ k - 1 \in 0..z /\ k \in 1..z
      BY <2>1
    <3>2. w[k] = 0 /\ w[k - 1] = 0 /\ text[k] = 0
      BY <1>8, <1>15, <3>1
    <3> QED
      BY <1>1, <3>2
  <2>2. CASE k > z
    <3> DEFINE q == k - z
               p == q - 1
               h == lz + q
    <3>1. /\ q \in 1..(n - lz) /\ q \in 0..(n - lz) /\ p \in 0..(n - lz)
          /\ z + q = k /\ z + p = k - 1 /\ h \in 1..n /\ lz + p = h - 1 /\ h = lz + q
      BY <1>3, <1>5, <1>14, <2>2
    <3> HIDE DEF q, p, h
    <3>2. w[z + q] = v[lz + q] /\ w[z + p] = v[lz + p] /\ text[z + q] = d[lz + q]
      BY <1>8, <1>16, <3>1
    <3>3. v[h] = v[h - 1] * DIGITS + d[h]
      BY <1>12, <3>1 DEF Evaluates
    <3> QED
      BY <3>1, <3>2, <3>3
  <2> QED
    BY <1>14, <2>1, <2>2
<1>18. Evaluates(w, text, DIGITS, Len(text))
  <2>1. w[0] = 0
    BY <1>15
  <2>2. Len(text) = u
    BY <1>8, <1>14
  <2> QED
    BY <1>17, <2>1, <2>2 DEF Evaluates
<1>19. b58enc!NumberOf(text, DIGITS) = w[Len(text)]
  BY <1>1, <1>9, <1>18, NumberOfIs
<1>20. w[Len(text)] = v[n]
  <2>1. n - lz \in 0..(n - lz) /\ lz + (n - lz) = n
    BY <1>3, <1>5
  <2>2. w[z + (n - lz)] = v[lz + (n - lz)]
    BY <1>16, <2>1
  <2> QED
    BY <1>8, <2>1, <2>2
<1> QED
  BY <1>0, <1>8, <1>11, <1>12, <1>19, <1>20 DEF T

(***************************************************************************)
(* There are enough digits: for all the bytes, and with one digit less for *)
(* all bytes but one.                                                      *)
(***************************************************************************)
LEMMA SizeEnough ==
    ASSUME bin \in Inputs
    PROVE  /\ bin \in Seq(0..(BASE - 1)) /\ Len(bin) \in Nat
           /\ Leads(bin, b58enc!zcount) /\ b58enc!zcount \in 0..Len(bin)
           /\ b58enc!size \in Nat \ {0}
           /\ b58enc!zcount < Len(bin) => b58enc!size > 1
           /\ Power(BASE, Len(bin) - b58enc!zcount) <= Power(DIGITS, b58enc!size)
           /\ \A k \in Nat : k < Len(bin) - b58enc!zcount =>
                 Power(BASE, k) <= Power(DIGITS, b58enc!size - 1)
<1> DEFINE z == b58enc!zcount
           n == Len(bin)
           m == n - z
           q == (m * 138) \div 100
<1>1. bin \in Seq(0..(BASE - 1)) /\ BASE \in Nat \ {0} /\ DIGITS \in Nat \ {0}
  BY DataAssumption
<1>2. n \in Nat /\ bin \in Seq(Nat)
  <2> DEFINE T == 0..(BASE - 1)
  <2>1. bin \in Seq(T) /\ T \subseteq Nat
    BY <1>1
  <2> HIDE DEF T
  <2> QED
    BY <2>1, Widened
<1>3. Leads(bin, z)
  BY <1>2, LeadingZerosLead DEF b58enc!zcount
<1>4. z \in 0..n
  BY <1>3 DEF Leads
<1>5. b58enc!size = q + 1
  BY DEF b58enc!size
<1> HIDE DEF z, n
<1>6. m \in Nat
  BY <1>2, <1>4
<1>7. m > 0 <=> z < n
  BY <1>2, <1>4
<1> HIDE DEF m
<1>8. q \in Nat /\ 100 * q <= m * 138 /\ m * 138 < 100 * q + 100
  BY <1>6
<1> HIDE DEF q
<1>9. m > 0 => q > 0
  BY <1>6, <1>8
<1>10. Power(BASE, m) <= Power(DIGITS, q + 1)
  <2>1. 11 * m <= 8 * (q + 1) /\ q + 1 \in Nat
    BY <1>6, <1>8
  <2> QED
    BY <1>1, <1>6, <2>1, MarginAssumption, EnoughDigits
<1>11. ASSUME NEW k \in Nat, k < m
       PROVE  Power(BASE, k) <= Power(DIGITS, q)
  <2>1. 11 * k <= 8 * q
    BY <1>6, <1>8, <1>11
  <2> QED
    BY <1>1, <1>8, <2>1, MarginAssumption, EnoughDigits
<1> DEFINE size == b58enc!size
<1>12. size - 1 = q /\ size \in Nat \ {0} /\ (q > 0 => size > 1) /\ size = q + 1
  BY <1>5, <1>8
<1> HIDE DEF size
<1>13. Power(BASE, n - z) <= Power(DIGITS, size)
  BY <1>10, <1>12 DEF m
<1>14. \A k \in Nat : k < n - z => Power(BASE, k) <= Power(DIGITS, size - 1)
  BY <1>11, <1>12 DEF m
<1>15. z < n => size > 1
  BY <1>7, <1>9, <1>12
<1> QED
  BY <1>1, <1>2, <1>3, <1>4, <1>12, <1>13, <1>14, <1>15 DEF n, z, size

-----------------------------------------------------------------------------
(***************************************************************************)
(* The inductive invariant of b58enc.  A byte that is being added leaves   *)
(* the digits that it has not reached as they were, and they are zero from *)
(* "high" up, which is why the inner loop may stop there: that makes the   *)
(* digits denote the bytes, and there are enough of them.                  *)
(***************************************************************************)
KeyInv ==
    /\ b58enc!TypeOK
    /\ i >= b58enc!zcount
    /\ pc = "bytes" =>
         /\ BytesDone(buf, b58enc!size, Num(bin, i))
         /\ i < Len(bin) => \A k \in 0..high : buf[k] = 0
         /\ i > b58enc!zcount => carry = 0 /\ \A k \in 0..(high - 1) : buf[k] = 0
    /\ pc = "digits" =>
         /\ ByteUnderWay(buf, b58enc!size, j, carry, Num(bin, i + 1))
         /\ \A k \in 0..high : k <= j => buf[k] = 0
    /\ pc \in {"write", "return"} =>
         i = Len(bin) /\ BytesDone(buf, b58enc!size, Num(bin, i))
    /\ pc # "return" => b58 = <<>>
    /\ b58 \in Seq(0..(DIGITS - 1))
    /\ b58enc!TextIsTheData

\* What a step of the loops leaves alone.
LEMMA SameData ==
    ASSUME bin' = bin
    PROVE  b58enc!size' = b58enc!size /\ b58enc!zcount' = b58enc!zcount
<1>1. b58enc!zcount' = b58enc!zcount
  BY DEF b58enc!zcount, b58enc!LeadingZeros
<1> QED
  BY <1>1 DEF b58enc!size

LEMMA InitKeys == b58enc!Init => KeyInv
<1> SUFFICES ASSUME b58enc!Init
             PROVE  KeyInv
  OBVIOUS
<1> DEFINE z == b58enc!zcount
           n == b58enc!size
<1>1. /\ bin \in Inputs /\ b58sz \in Olens /\ pc = "bytes"
      /\ i = z /\ j = 0 /\ high = n - 1 /\ carry = 0
      /\ buf = [k \in 0..(n - 1) |-> 0] /\ b58 = <<>>
  BY DEF b58enc!Init, b58enc!NoText
<1>2. /\ bin \in Seq(0..(BASE - 1)) /\ Len(bin) \in Nat
      /\ Leads(bin, z) /\ z \in 0..Len(bin) /\ n \in Nat \ {0}
  BY <1>1, SizeEnough
<1>3. Num(bin, z) = 0
  <2>1. z \in z..Len(bin)
    BY <1>2
  <2> QED
    BY <1>2, <2>1, NumBound
<1> HIDE DEF z, n
<1>4. DIGITS \in Nat \ {0, 1}
  BY DataAssumption
<1>5. b58enc!TypeOK
  <2>1. buf \in [0..(n - 1) -> 0..(DIGITS - 1)]
    BY <1>1, <1>4
  <2>2. b58sz \in Nat /\ <<>> \in Seq(Nat)
    BY <1>1, DataAssumption
  <2>3. n - 1 \in 0..(n - 1) /\ 0 \in 0..(n - 1) /\ i \in 0..Len(bin)
    BY <1>1, <1>2
  <2> QED
    BY <1>1, <2>1, <2>2, <2>3 DEF b58enc!TypeOK, n
<1>6. BytesDone(buf, n, 0)
  <2> DEFINE v == [k \in 0..n |-> 0]
  <2>1. v \in [0..n -> Nat] /\ \A k \in 0..n : v[k] = 0
    OBVIOUS
  <2> HIDE DEF v
  <2>2. \A k \in 1..n : k \in 0..n /\ k - 1 \in 0..n /\ k - 1 \in 0..(n - 1)
    BY <1>2
  <2>3. \A k \in 0..(n - 1) : buf[k] = 0
    BY <1>1
  <2>4. 0 = 0 * DIGITS + 0
    BY <1>4
  <2>5. \A k \in 1..n : v[k] = v[k - 1] * DIGITS + buf[k - 1]
    BY <2>1, <2>2, <2>3, <2>4
  <2>6. Held(v, buf, 0, n)
    BY <2>5 DEF Held
  <2>7. v[0] = 0 /\ v[n] = 0
    BY <1>2, <2>1
  <2> QED
    BY <2>1, <2>6, <2>7 DEF BytesDone
<1>7. \A k \in 0..high : buf[k] = 0
  BY <1>1, <1>2
<1>8. BytesDone(buf, n, Num(bin, i))
  BY <1>1, <1>3, <1>6
<1>9. i >= z /\ ~(i > z)
  BY <1>1, <1>2
<1>10. b58enc!TextIsTheData
  BY <1>1 DEF b58enc!TextIsTheData, b58enc!NoText
<1>11. b58 \in Seq(0..(DIGITS - 1))
  BY <1>1
<1>12. pc # "digits" /\ pc \notin {"write", "return"}
  BY <1>1
<1> QED
  BY <1>1, <1>5, <1>7, <1>8, <1>9, <1>10, <1>11, <1>12 DEF KeyInv, n, z

LEMMA NextByteKeys ==
    ASSUME KeyInv, b58enc!NextByte
    PROVE  KeyInv'
<1> DEFINE z == b58enc!zcount
           n == b58enc!size
           m == Num(bin, i)
<1>1. /\ pc = "bytes" /\ i < Len(bin) /\ carry' = bin[i + 1] /\ j' = n - 1 /\ pc' = "digits"
      /\ bin' = bin /\ b58sz' = b58sz /\ i' = i /\ high' = high /\ buf' = buf /\ b58' = b58
  BY DEF b58enc!NextByte
<1>2. /\ bin \in Inputs /\ b58sz \in Nat /\ i \in 0..Len(bin)
      /\ high \in 0..(n - 1)
      /\ buf \in [0..(n - 1) -> 0..(DIGITS - 1)] /\ b58 \in Seq(Nat)
  BY DEF KeyInv, b58enc!TypeOK
<1>3. /\ bin \in Seq(0..(BASE - 1)) /\ Len(bin) \in Nat /\ n \in Nat \ {0}
  BY <1>2, SizeEnough
<1>4. b58enc!size' = n /\ b58enc!zcount' = z
  BY <1>1, SameData
<1>5. BytesDone(buf, n, m) /\ (\A k \in 0..high : buf[k] = 0) /\ b58 = <<>> /\ i >= z
  BY <1>1 DEF KeyInv
<1>6. bin[i + 1] \in Nat
  <2> DEFINE T == 0..(BASE - 1)
  <2>1. bin \in Seq(T) /\ T \subseteq Nat
    BY <1>3, DataAssumption
  <2> HIDE DEF T
  <2>2. i + 1 \in 1..Len(bin)
    BY <1>1, <1>2, <1>3
  <2>3. \A k \in 1..Len(bin) : bin[k] \in T
    BY <2>1
  <2> DEFINE h == i + 1
  <2>4. h \in 1..Len(bin)
    BY <2>2
  <2> HIDE DEF h
  <2>5. bin[h] \in Nat
    BY <2>1, <2>3, <2>4
  <2> QED
    BY <2>5 DEF h
<1>7. Num(bin, i + 1) = m * BASE + bin[i + 1]
  <2>1. i \in 0..(Len(bin) - 1)
    BY <1>1, <1>2, <1>3
  <2> QED
    BY <1>3, <2>1, NumNext
<1> HIDE DEF z, n, m
<1>8. ByteUnderWay(buf, n, n - 1, bin[i + 1], Num(bin, i + 1))
  BY <1>3, <1>5, <1>6, <1>7, NextByteStarts
<1>9. n - 1 \in 0..(n - 1)
  BY <1>3
<1>10. b58enc!TypeOK'
  BY <1>1, <1>2, <1>4, <1>6, <1>9 DEF b58enc!TypeOK
<1>11. b58enc!TextIsTheData'
  BY <1>1, <1>5 DEF b58enc!TextIsTheData, b58enc!NoText
<1>12. ByteUnderWay(buf', n, j', carry', Num(bin', i' + 1))
  BY <1>1, <1>8
<1>13. \A k \in 0..high' : k <= j' => buf'[k] = 0
  BY <1>1, <1>5
<1>14. pc' # "bytes" /\ pc' \notin {"write", "return"} /\ b58' = <<>> /\ i' >= z
       /\ b58' \in Seq(0..(DIGITS - 1))
  BY <1>1, <1>5
<1> QED
  BY <1>1, <1>4, <1>10, <1>11, <1>12, <1>13, <1>14 DEF KeyInv

LEMMA LastByteKeys ==
    ASSUME KeyInv, b58enc!LastByte
    PROVE  KeyInv'
<1> DEFINE z == b58enc!zcount
           n == b58enc!size
<1>1. /\ pc = "bytes" /\ i = Len(bin) /\ pc' = "write"
      /\ bin' = bin /\ b58sz' = b58sz /\ i' = i /\ j' = j /\ high' = high
      /\ carry' = carry /\ buf' = buf /\ b58' = b58
  BY DEF b58enc!LastByte
<1>2. b58enc!size' = n /\ b58enc!zcount' = z
  BY <1>1, SameData
<1>3. BytesDone(buf, n, Num(bin, i)) /\ b58 = <<>> /\ i >= z
      /\ b58 \in Seq(0..(DIGITS - 1))
  BY <1>1 DEF KeyInv
<1>4. b58enc!TypeOK'
  BY <1>1, <1>2 DEF KeyInv, b58enc!TypeOK
<1>5. b58enc!TextIsTheData'
  BY <1>1, <1>3 DEF b58enc!TextIsTheData, b58enc!NoText
<1>6. BytesDone(buf', n, Num(bin', i'))
  BY <1>1, <1>3
<1> HIDE DEF n, z
<1> QED
  BY <1>1, <1>2, <1>3, <1>4, <1>5, <1>6 DEF KeyInv

(***************************************************************************)
(* The byte that is under way is done: there is nothing left to carry, and *)
(* the digits that it has not reached are zero.                            *)
(***************************************************************************)
LEMMA ByteAddedKeys ==
    ASSUME KeyInv, pc = "digits",
           bin' = bin, b58sz' = b58sz, b58' = b58,
           NEW last \in 0..(b58enc!size - 1), b58enc!ByteAdded(last), j' = last,
           buf' \in [0..(b58enc!size - 1) -> 0..(DIGITS - 1)], carry' = 0,
           BytesDone(buf', b58enc!size, Num(bin, i + 1)),
           \A k \in 0..(last - 1) : buf'[k] = 0,
           i + 1 < Len(bin) => \A k \in 0..last : buf'[k] = 0
    PROVE  KeyInv'
<1> DEFINE z == b58enc!zcount
           n == b58enc!size
<1>1. pc' = "bytes" /\ i' = i + 1 /\ high' = last
  BY DEF b58enc!ByteAdded
<1>2. /\ bin \in Inputs /\ b58sz \in Nat /\ i \in 0..Len(bin) /\ i < Len(bin) /\ b58 = <<>>
      /\ b58 \in Seq(Nat) /\ b58 \in Seq(0..(DIGITS - 1)) /\ i >= z
  BY DEF KeyInv, b58enc!TypeOK
<1>3. b58enc!size' = n /\ b58enc!zcount' = z
  BY SameData
<1>4. Len(bin) \in Nat /\ z \in 0..Len(bin)
  BY <1>2, SizeEnough
<1> HIDE DEF n, z
<1>5. i + 1 \in 0..Len(bin) /\ i + 1 >= z
  BY <1>2, <1>4
<1>6. b58enc!TypeOK'
  BY <1>1, <1>2, <1>3, <1>5 DEF b58enc!TypeOK, n
<1>7. b58enc!TextIsTheData'
  BY <1>2 DEF b58enc!TextIsTheData, b58enc!NoText
<1>8. BytesDone(buf', n, Num(bin', i'))
  BY <1>1 DEF n
<1>9. i' < Len(bin') => \A k \in 0..high' : buf'[k] = 0
  BY <1>1
<1>10. carry' = 0 /\ \A k \in 0..(high' - 1) : buf'[k] = 0
  BY <1>1
<1> QED
  BY <1>1, <1>2, <1>3, <1>5, <1>6, <1>7, <1>8, <1>9, <1>10 DEF KeyInv

LEMMA LastDigitKeys ==
    ASSUME KeyInv, b58enc!LastDigit
    PROVE  KeyInv'
<1> DEFINE z == b58enc!zcount
           n == b58enc!size
<1>1. /\ pc = "digits" /\ ~(j > high \/ carry > 0) /\ b58enc!ByteAdded(j)
      /\ bin' = bin /\ b58sz' = b58sz /\ j' = j
      /\ carry' = carry /\ buf' = buf /\ b58' = b58
  BY DEF b58enc!LastDigit, b58enc!MoreDigits
<1>2. /\ bin \in Inputs /\ j \in 0..(n - 1) /\ high \in 0..(n - 1) /\ carry \in Nat
      /\ buf \in [0..(n - 1) -> 0..(DIGITS - 1)]
  BY DEF KeyInv, b58enc!TypeOK
<1>3. ByteUnderWay(buf, n, j, carry, Num(bin, i + 1)) /\ \A k \in 0..high : k <= j => buf[k] = 0
  BY <1>1 DEF KeyInv
<1>4. n \in Nat \ {0}
  BY <1>2, SizeEnough
<1> HIDE DEF n
<1>5. carry = 0 /\ j <= high /\ j \in -1..(n - 1)
  BY <1>1, <1>2, <1>4
<1>6. \A k \in 0..j : buf[k] = 0
  BY <1>2, <1>3, <1>4, <1>5
<1>7. BytesDone(buf, n, Num(bin, i + 1))
  BY <1>3, <1>4, <1>5, <1>6, LastDigitDone
<1>8. \A k \in 0..(j - 1) : buf[k] = 0
  BY <1>2, <1>4, <1>6
<1> QED
  BY <1>1, <1>2, <1>5, <1>6, <1>7, <1>8, ByteAddedKeys DEF n

LEMMA NextDigitKeys ==
    ASSUME KeyInv, b58enc!NextDigit
    PROVE  KeyInv'
<1> DEFINE z == b58enc!zcount
           n == b58enc!size
           m == Num(bin, i + 1)
           sum == carry + BASE * buf[j]
           q == sum \div DIGITS
           new == [buf EXCEPT ![j] = sum % DIGITS]
<1>1. /\ pc = "digits" /\ (j > high \/ carry > 0) /\ buf' = new /\ carry' = q
      /\ bin' = bin /\ b58sz' = b58sz /\ b58' = b58
  BY DEF b58enc!NextDigit, b58enc!MoreDigits
<1>2. \/ j = 0 /\ j' = j /\ b58enc!ByteAdded(j)
      \/ ~(j = 0) /\ j' = j - 1 /\ pc' = pc /\ i' = i /\ high' = high
  BY DEF b58enc!NextDigit, b58enc!AtFirst
<1>3. /\ bin \in Inputs /\ b58sz \in Nat /\ i \in 0..Len(bin) /\ i < Len(bin)
      /\ j \in 0..(n - 1) /\ high \in 0..(n - 1) /\ carry \in Nat
      /\ buf \in [0..(n - 1) -> 0..(DIGITS - 1)] /\ b58 \in Seq(Nat)
  BY <1>1 DEF KeyInv, b58enc!TypeOK
<1>4. /\ ByteUnderWay(buf, n, j, carry, m) /\ (\A k \in 0..high : k <= j => buf[k] = 0)
      /\ i >= z /\ b58 = <<>> /\ b58 \in Seq(0..(DIGITS - 1))
  BY <1>1 DEF KeyInv
<1>5. /\ bin \in Seq(0..(BASE - 1)) /\ Len(bin) \in Nat
      /\ Leads(bin, z) /\ z \in 0..Len(bin) /\ n \in Nat \ {0}
      /\ Power(BASE, Len(bin) - z) <= Power(DIGITS, n)
      /\ \A k \in Nat : k < Len(bin) - z => Power(BASE, k) <= Power(DIGITS, n - 1)
  BY <1>3, SizeEnough
<1>6. b58enc!size' = n /\ b58enc!zcount' = z
  BY <1>1, SameData
<1> HIDE DEF n, z, m
<1>7. q \in Nat /\ sum % DIGITS \in 0..(DIGITS - 1) /\ ByteUnderWay(new, n, j - 1, q, m)
  BY <1>3, <1>4, <1>5, NextDigitGoesOn
<1>8. /\ new \in [0..(n - 1) -> 0..(DIGITS - 1)]
      /\ \A k \in 0..(n - 1) : k # j => new[k] = buf[k]
  BY <1>3, <1>7
<1> HIDE DEF sum, q, new
<1>9. CASE j # 0
  <2>1. j' = j - 1 /\ pc' = pc /\ i' = i /\ high' = high /\ j' \in 0..(n - 1)
    BY <1>2, <1>3, <1>5, <1>9
  <2>2. b58enc!TypeOK'
    BY <1>1, <1>3, <1>6, <1>7, <1>8, <2>1 DEF b58enc!TypeOK
  <2>3. b58enc!TextIsTheData'
    BY <1>1, <1>4 DEF b58enc!TextIsTheData, b58enc!NoText
  <2>4. ByteUnderWay(buf', n, j', carry', Num(bin', i' + 1))
    BY <1>1, <1>7, <2>1 DEF m
  <2>5. ASSUME NEW k \in 0..high', k <= j'
        PROVE  buf'[k] = 0
    <3>1. k \in 0..high /\ k <= j /\ k # j /\ k \in 0..(n - 1)
      BY <1>3, <1>5, <2>1, <2>5
    <3> QED
      BY <1>1, <1>4, <1>8, <3>1
  <2>6. pc' # "bytes" /\ pc' \notin {"write", "return"} /\ b58' = <<>> /\ i' >= z
        /\ b58' \in Seq(0..(DIGITS - 1))
    BY <1>1, <1>4, <2>1
  <2> QED
    BY <1>1, <1>6, <2>1, <2>2, <2>3, <2>4, <2>5, <2>6 DEF KeyInv
<1>10. CASE j = 0
  <2>1. j' = j /\ b58enc!ByteAdded(j)
    BY <1>2, <1>10
  <2>2. carry \in Nat \ {0} /\ (\A k \in 0..0 : buf[k] = 0) /\ j \in -1..(n - 1)
    BY <1>1, <1>3, <1>4, <1>5, <1>10
  <2>3. m >= Power(DIGITS, n - 1 - 0) /\ m \in Nat
    BY <1>3, <1>4, <1>5, <1>10, <2>2, CarryCounts
  <2> DEFINE len == (i + 1) - z
             p == Power(BASE, len)
  <2>4. m < p
    <3> DEFINE h == i + 1
    <3>1. h \in z..Len(bin)
      BY <1>3, <1>4, <1>5
    <3>2. m = Num(bin, h) /\ len = h - z
      BY DEF m
    <3> HIDE DEF h, len
    <3>3. Num(bin, h) < Power(BASE, h - z)
      BY <1>5, <3>1, NumBound
    <3> QED
      BY <3>2, <3>3
  <2>5. len \in Nat /\ p \in Nat
    <3>1. len \in Nat
      BY <1>3, <1>4, <1>5
    <3> HIDE DEF len
    <3> QED
      BY <3>1, DataAssumption, PowerNext
  <2>6. Power(DIGITS, n - 1) \in Nat /\ Power(DIGITS, n) \in Nat
    <3>1. n - 1 \in Nat /\ n \in Nat /\ DIGITS \in Nat
      BY <1>5, DataAssumption
    <3> QED
      BY <3>1, PowerNext
  <2>7. i + 1 = Len(bin)
    <3>1. SUFFICES ASSUME i + 1 # Len(bin)
                   PROVE  FALSE
      OBVIOUS
    <3>2. len < Len(bin) - z
      BY <1>3, <1>4, <1>5, <3>1
    <3>3. p <= Power(DIGITS, n - 1)
      BY <1>5, <2>5, <3>2
    <3>4. n - 1 - 0 = n - 1
      BY <1>5
    <3> HIDE DEF p, len
    <3> QED
      BY <2>3, <2>4, <2>5, <2>6, <3>3, <3>4
  <2>8. p <= Power(DIGITS, n)
    <3>1. len = Len(bin) - z
      BY <2>7
    <3> HIDE DEF len
    <3> QED
      BY <1>5, <3>1
  <2> HIDE DEF p, len
  <2>9. -1 \in -1..(n - 1) /\ (\A k \in 0..(-1) : new[k] = 0) /\ n - 1 - (-1) = n
    BY <1>5
  <2>10. ByteUnderWay(new, n, -1, q, m)
    BY <1>7, <1>10
  <2>11. q = 0
    <3>1. SUFFICES ASSUME q \in Nat \ {0}
                   PROVE  FALSE
      BY <1>7
    <3>2. m >= Power(DIGITS, n - 1 - (-1))
      BY <1>5, <1>8, <2>9, <2>10, <3>1, CarryCounts
    <3> QED
      BY <2>3, <2>4, <2>5, <2>6, <2>8, <2>9, <3>2
  <2>12. BytesDone(new, n, m)
    BY <1>5, <2>9, <2>10, <2>11, LastDigitDone
  <2>13. (\A k \in 0..(j - 1) : new[k] = 0) /\ ~(i + 1 < Len(bin)) /\ j \in 0..(n - 1)
    BY <1>3, <1>5, <1>10, <2>7
  <2> QED
    BY <1>1, <1>8, <2>1, <2>11, <2>12, <2>13, ByteAddedKeys DEF n, m
<1> QED
  BY <1>9, <1>10

LEMMA WriteKeys ==
    ASSUME KeyInv, b58enc!Write
    PROVE  KeyInv'
<1> DEFINE z == b58enc!zcount
           n == b58enc!size
           m == Num(bin, i)
           d == b58enc!Digits
           first == b58enc!LeadingZeros(d)
           text == TextOf(z, d)
<1>1. /\ pc = "write" /\ pc' = "return" /\ (b58' = <<>> \/ b58' = b58enc!Text)
      /\ b58sz' = z + n - first + 1
      /\ bin' = bin /\ i' = i /\ j' = j /\ high' = high /\ carry' = carry /\ buf' = buf
  BY DEF b58enc!Write, b58enc!NoText
<1>2. /\ bin \in Inputs /\ i \in 0..Len(bin)
      /\ j \in 0..(n - 1) /\ high \in 0..(n - 1) /\ carry \in Nat
      /\ buf \in [0..(n - 1) -> 0..(DIGITS - 1)]
  BY DEF KeyInv, b58enc!TypeOK
<1>3. i = Len(bin) /\ BytesDone(buf, n, m) /\ i >= z
  BY <1>1 DEF KeyInv
<1>4. /\ bin \in Seq(0..(BASE - 1)) /\ Len(bin) \in Nat
      /\ z \in 0..Len(bin) /\ n \in Nat \ {0}
  BY <1>2, SizeEnough
<1>5. b58enc!size' = n /\ b58enc!zcount' = z
  BY <1>1, SameData
<1>6. m = b58enc!NumberOf(bin, BASE)
  BY <1>3, <1>4, NumIs
<1>7. d = [k \in 1..n |-> buf[k - 1]]
  BY DEF b58enc!Digits
<1>8. b58enc!Text = [k \in 1..z |-> 0] \o SubSeq(d, first + 1, n)
  BY DEF b58enc!Text, b58enc!Significant
<1>9. z = b58enc!LeadingZeros(bin)
  BY DEF b58enc!zcount
<1> HIDE DEF n, z, m, d
<1>10. d \in Seq(0..(DIGITS - 1)) /\ Len(d) = n
  <2> DEFINE T == 0..(DIGITS - 1)
  <2>1. \A k \in 1..n : buf[k - 1] \in T
    BY <1>2, <1>4
  <2> HIDE DEF T
  <2>2. d \in [1..n -> T]
    BY <1>7, <2>1
  <2>3. d \in Seq(T) /\ Len(d) = n
    BY <1>4, <2>2
  <2> QED
    BY <2>3 DEF T
<1>11. b58enc!NumberOf(d, DIGITS) = m
  BY <1>2, <1>3, <1>4, <1>7, DigitsDenote
<1>12. first \in 0..n
  <2>1. d \in Seq(Nat)
    BY <1>10, DataAssumption, Widened
  <2> QED
    BY <1>10, <2>1, LeadingZerosLead DEF Leads
<1>13. /\ text \in Seq(0..(DIGITS - 1))
       /\ b58enc!LeadingZeros(text) = z
       /\ b58enc!NumberOf(text, DIGITS) = m
  BY <1>4, <1>10, <1>11, TextDenotes
<1>14. b58enc!Text = text
  BY <1>8, <1>10 DEF TextOf
<1> HIDE DEF text, first
<1>15. b58' \in Seq(0..(DIGITS - 1))
  <2>1. <<>> \in Seq(0..(DIGITS - 1))
    OBVIOUS
  <2> QED
    BY <1>1, <1>13, <1>14, <2>1
<1>16. b58' \in Seq(Nat) /\ b58sz' \in Nat
  <2>1. 0..(DIGITS - 1) \subseteq Nat
    BY DataAssumption
  <2>2. z + n - first + 1 \in Nat
    BY <1>4, <1>12
  <2> QED
    BY <1>1, <1>15, <2>1, <2>2, Widened
<1>17. b58enc!TypeOK'
  BY <1>1, <1>2, <1>5, <1>16 DEF b58enc!TypeOK
<1>18. b58enc!TextIsTheData'
  <2>1. b58' # <<>> => b58enc!LeadingZeros(b58') = z /\ b58enc!NumberOf(b58', DIGITS) = m
    BY <1>1, <1>13, <1>14
  <2>2. b58enc!LeadingZeros(bin)' = z /\ b58enc!NumberOf(bin, BASE)' = m
    BY <1>1, <1>6, <1>9
  <2> QED
    BY <2>1, <2>2 DEF b58enc!TextIsTheData, b58enc!NoText
<1>19. BytesDone(buf', n, Num(bin', i')) /\ i' = Len(bin') /\ i' >= z
  BY <1>1, <1>3 DEF m
<1>20. pc' # "bytes" /\ pc' # "digits" /\ pc' = "return"
  BY <1>1
<1> QED
  BY <1>5, <1>15, <1>17, <1>18, <1>19, <1>20 DEF KeyInv

-----------------------------------------------------------------------------
(***************************************************************************)
(* The prompt's text: bits go from bytes to characters.                    *)
(***************************************************************************)
\* Sequences of bytes.
Octets(s) == s \in Seq(0..255)

(***************************************************************************)
(* base32_encode: of the bits of the data, those that are not yet in a     *)
(* character are the lowest "left" ones of "bits".                         *)
(***************************************************************************)
HoldsBits(bits, left, from, c) ==
    /\ 8 * from = 5 * c + left /\ from <= Len(data)
    /\ \A e \in 0..(left - 1) : BitOf(bits, e) = base32!Bit(data, (8 * from - 1) - e)

BytesLeft(from) == from < Len(data)

PromptInv ==
    /\ base32!TypeOK
    /\ Octets(data) /\ buffer \in Nat
    /\ result \in Seq(Nat) /\ Len(result) <= base32!Chars(Len(data))
    /\ \A k \in 1..Len(result) : result[k] = base32!Base32(data)[k]
    /\ step = "idle" =>
         result = <<>> /\ data = <<>> /\ next = 1 /\ bitsLeft = 8
    /\ step # "idle" => Len(data) = KEY_SIZE + 3
    /\ step = "encode" => HoldsBits(buffer, bitsLeft, next, Len(result))
    /\ step = "shown" =>
         /\ Len(result) = base32!Chars(Len(data))
         /\ detailValue = base32!print_summary(result, SUMMARY, SUMMARY)

\* What is encoded is the key that the host will get.
AboutTheKey ==
    step # "idle" =>
        /\ pc = "return"
        /\ \E crc \in Checksums : data = base32!encode_key(address, crc)

\* The instance has the power of Powers.
LEMMA SamePower ==
    ASSUME NEW b, NEW n
    PROVE  base32!Power(b, n) = Power(b, n)
BY DEF Power, base32!Power

LEMMA BitAt ==
    ASSUME NEW bytes, NEW q \in Nat, NEW r \in 0..7
    PROVE  base32!Bit(bytes, 8 * q + r) = BitOf(base32!At(bytes, q), 7 - r)
<1>1. (8 * q + r) \div 8 = q /\ (8 * q + r) % 8 = r
  OBVIOUS
<1> QED
  BY <1>1, SamePower DEF base32!Bit, BitOf

LEMMA AtIs ==
    ASSUME NEW bytes, Octets(bytes), NEW q \in Nat
    PROVE  /\ base32!At(bytes, q) \in 0..255
           /\ q >= Len(bytes) => base32!At(bytes, q) = 0
<1> DEFINE T == 0..255
<1>0. bytes \in Seq(T) /\ 0 \in T
  BY DEF Octets
<1> HIDE DEF T
<1>1. Len(bytes) \in Nat /\ DOMAIN bytes = 1..Len(bytes)
  BY <1>0
<1>2. q + 1 \in 1..Len(bytes) <=> q < Len(bytes)
  BY <1>1
<1>3. \A k \in 1..Len(bytes) : bytes[k] \in T
  BY <1>0
<1>4. base32!At(bytes, q) \in T
  BY <1>0, <1>1, <1>3 DEF base32!At
<1> QED
  BY <1>1, <1>2, <1>4 DEF base32!At, T

\* A byte that is shifted in behind the bits that are left.
LEMMA ByteShiftedIn ==
    ASSUME Octets(data), NEW f \in Nat, NEW left \in 0..4, NEW from \in Nat \ {0},
           NEW c \in Nat, HoldsBits(f, left, from, c), BytesLeft(from)
    PROVE  /\ f * 256 + base32!At(data, from) \in Nat
           /\ HoldsBits(f * 256 + base32!At(data, from), left + 8, from + 1, c)
<1> DEFINE d == base32!At(data, from)
           o == from + 1
<1>1. d \in 0..255
  BY AtIs
<1>2. \A e \in 0..7 : base32!Bit(data, 8 * from + (7 - e)) = BitOf(d, e)
  <2>1. ASSUME NEW e \in 0..7
        PROVE  base32!Bit(data, 8 * from + (7 - e)) = BitOf(d, e)
    <3>1. 7 - e \in 0..7 /\ 7 - (7 - e) = e
      OBVIOUS
    <3>2. base32!Bit(data, 8 * from + (7 - e)) = BitOf(d, 7 - (7 - e))
      BY <3>1, BitAt
    <3> QED
      BY <3>1, <3>2
  <2> QED
    BY <2>1
<1> HIDE DEF d
<1>3. /\ 8 * from = 5 * c + left
      /\ \A e \in 0..(left - 1) : BitOf(f, e) = base32!Bit(data, (8 * from - 1) - e)
  BY DEF HoldsBits
<1>4. 8 * o = 5 * c + (left + 8) /\ o <= Len(data) /\ o \in Nat
  <2>1. from < Len(data) /\ Len(data) \in Nat
    BY DEF BytesLeft, Octets
  <2> QED
    BY <1>3, <2>1
<1>5. ASSUME NEW e \in 0..((left + 8) - 1)
      PROVE  BitOf(f * 256 + d, e) = base32!Bit(data, (8 * o - 1) - e)
  <2> DEFINE y == f * 256 + d
  <2>0. d \in Nat /\ y = f * 256 + d
    BY <1>1
  <2>3. y \in Nat /\ f = y \div 256
    BY <1>1
  <2> HIDE DEF y
  <2>1. CASE e \in 0..7
    <3>1. BitOf(y, e) = BitOf(d, e)
      BY <2>0, <2>1, LowBits
    <3>2. (8 * o - 1) - e = 8 * from + (7 - e)
      OBVIOUS
    <3> QED
      BY <1>2, <2>0, <2>1, <3>1, <3>2
  <2>2. CASE e \notin 0..7
    <3> DEFINE h == e - 8
    <3>3. e \in 8..12 /\ h = e - 8
      BY <2>2
    <3>1. h \in 0..(left - 1) /\ (8 * from - 1) - h = (8 * o - 1) - e
      BY <2>2
    <3> HIDE DEF h
    <3>2. BitOf(y, e) = BitOf(f, h)
      BY <2>3, <3>3, HighBits
    <3> QED
      BY <1>3, <2>0, <3>1, <3>2
  <2> QED
    BY <2>1, <2>2 DEF y
<1> HIDE DEF o
<1>6. HoldsBits(f * 256 + d, left + 8, o, c)
  BY <1>4, <1>5 DEF HoldsBits
<1>7. f * 256 + d \in Nat
  BY <1>1
<1> QED
  BY <1>6, <1>7 DEF d, o

\* The five highest bits make the next character.
LEMMA CharacterIs ==
    ASSUME NEW bits \in Nat, NEW left \in 5..12, NEW c \in Nat,
           \A e \in (left - 5)..(left - 1) : BitOf(bits, e) = base32!Bit(data, ((5 * c + left) - 1) - e)
    PROVE  (bits \div Power(2, left - 5)) % 32 = base32!Five(data, c)
<1> DEFINE low == left - 5
<1>1. low \in Nat /\ left = low + 5
  OBVIOUS
<1>2. /\ ((5 * c + left) - 1) - (low + 4) = 5 * c
      /\ ((5 * c + left) - 1) - (low + 3) = 5 * c + 1
      /\ ((5 * c + left) - 1) - (low + 2) = 5 * c + 2
      /\ ((5 * c + left) - 1) - (low + 1) = 5 * c + 3
      /\ ((5 * c + left) - 1) - low = 5 * c + 4
  BY <1>1
<1>3. /\ low + 4 \in low..(left - 1) /\ low + 3 \in low..(left - 1)
      /\ low + 2 \in low..(left - 1) /\ low + 1 \in low..(left - 1) /\ low \in low..(left - 1)
  BY <1>1
<1>4. \A e \in low..(left - 1) : BitOf(bits, e) = base32!Bit(data, ((5 * c + left) - 1) - e)
  OBVIOUS
<1>5. (bits \div Power(2, low)) % 32
        = 16 * BitOf(bits, low + 4) + 8 * BitOf(bits, low + 3)
            + 4 * BitOf(bits, low + 2) + 2 * BitOf(bits, low + 1) + BitOf(bits, low)
  BY <1>1, FiveBits
<1> HIDE DEF low
<1>6. /\ BitOf(bits, low + 4) = base32!Bit(data, 5 * c)
      /\ BitOf(bits, low + 3) = base32!Bit(data, 5 * c + 1)
      /\ BitOf(bits, low + 2) = base32!Bit(data, 5 * c + 2)
      /\ BitOf(bits, low + 1) = base32!Bit(data, 5 * c + 3)
      /\ BitOf(bits, low) = base32!Bit(data, 5 * c + 4)
  BY <1>2, <1>3, <1>4
<1> QED
  BY <1>5, <1>6 DEF low, base32!Five

LEMMA BitsTaken ==
    ASSUME Octets(data), NEW bits \in Nat, NEW left \in 5..12, NEW from \in Nat,
           NEW c \in Nat, HoldsBits(bits, left, from, c)
    PROVE  /\ (bits \div Power(2, left - 5)) % 32 = base32!Five(data, c)
           /\ bits % base32!KeepBits \in Nat
           /\ HoldsBits(bits % base32!KeepBits, left - 5, from, c + 1)
           /\ c + 1 <= base32!Chars(Len(data))
<1>1. /\ 8 * from = 5 * c + left /\ from <= Len(data)
      /\ \A e \in 0..(left - 1) : BitOf(bits, e) = base32!Bit(data, (8 * from - 1) - e)
  BY DEF HoldsBits
<1>2. ASSUME NEW e \in (left - 5)..(left - 1)
      PROVE  BitOf(bits, e) = base32!Bit(data, ((5 * c + left) - 1) - e)
  <2>1. e \in 0..(left - 1) /\ ((5 * c + left) - 1) - e = (8 * from - 1) - e
    BY <1>1
  <2> QED
    BY <1>1, <2>1
<1>3. (bits \div Power(2, left - 5)) % 32 = base32!Five(data, c)
  BY <1>2, CharacterIs
<1>4. base32!KeepBits = 4096
  BY PowersOfTwo, SamePower DEF base32!KeepBits
<1>5. 8 * from = 5 * (c + 1) + (left - 5)
  BY <1>1
<1>6. ASSUME NEW e \in 0..((left - 5) - 1)
      PROVE  BitOf(bits % 4096, e) = base32!Bit(data, (8 * from - 1) - e)
  <2>1. e \in 0..7 /\ e \in 0..(left - 1)
    OBVIOUS
  <2> DEFINE y == bits % 4096
  <2>2. y = bits % 4096
    OBVIOUS
  <2> HIDE DEF y
  <2>3. BitOf(y, e) = BitOf(bits, e)
    BY <2>1, <2>2, KeptBits
  <2> QED
    BY <1>1, <2>1, <2>3 DEF y
<1>7. Len(data) \in Nat
  BY DEF Octets
<1>8. c + 1 <= base32!Chars(Len(data))
  <2> DEFINE n == Len(data)
  <2>1. n \in Nat /\ 8 * n >= 5 * c + 5
    BY <1>1, <1>7
  <2> HIDE DEF n
  <2>2. c + 1 <= (8 * n) \div 5
    BY <2>1
  <2> QED
    BY <2>2 DEF n, base32!Chars
<1> QED
  BY <1>1, <1>3, <1>4, <1>5, <1>6, <1>8 DEF HoldsBits

LEMMA CharsIs ==
    ASSUME NEW n \in Nat
    PROVE  /\ base32!Chars(n) \in Nat
           /\ \A c \in Nat : 8 * n = 5 * c => base32!Chars(n) = c
BY DEF base32!Chars

\* A key with its version and its checksum.
LEMMA KeySizes ==
    /\ KEY_SIZE + 3 \in Nat /\ (KEY_SIZE + 3) % 5 = 0
    /\ BUF_SIZE \in Nat /\ SUMMARY \in Nat
    /\ base32!Chars(KEY_SIZE + 3) \in Nat
    /\ base32!Chars(KEY_SIZE + 3) <= BUF_SIZE
    /\ 2 * SUMMARY + 2 < base32!Chars(KEY_SIZE + 3)
<1>1. KEY_SIZE \in Nat /\ BUF_SIZE \in Nat /\ SUMMARY \in Nat
  BY PromptAssumption
<1>2. KEY_SIZE + 3 \in Nat
  BY <1>1
<1> QED
  BY <1>1, <1>2, CharsIs, PromptAssumption

LEMMA Base32Is ==
    ASSUME Octets(data)
    PROVE  /\ Len(base32!Base32(data)) = base32!Chars(Len(data))
           /\ \A c \in Nat : c + 1 <= base32!Chars(Len(data)) =>
                 base32!Base32(data)[c + 1] = base32!Five(data, c)
<1> DEFINE m == base32!Chars(Len(data))
           Char(k) == base32!Five(data, k - 1)
<1>1. m \in Nat
  <2>1. Len(data) \in Nat
    BY DEF Octets
  <2> QED
    BY <2>1, CharsIs
<1>2. base32!Base32(data) = [k \in 1..m |-> Char(k)]
  BY DEF base32!Base32
<1>3. \A k \in 1..m : base32!Base32(data)[k] = Char(k)
  <2> HIDE DEF Char, m
  <2> QED
    BY <1>2
<1>4. Len(base32!Base32(data)) = m
  <2> HIDE DEF Char, m
  <2> QED
    BY <1>1, <1>2
<1> HIDE DEF m
<1>5. ASSUME NEW c \in Nat, c + 1 <= m
      PROVE  base32!Base32(data)[c + 1] = base32!Five(data, c)
  <2>1. c + 1 \in 1..m /\ (c + 1) - 1 = c
    BY <1>1, <1>5
  <2> QED
    BY <1>3, <2>1
<1> QED
  BY <1>4, <1>5 DEF m

LEMMA OneMore ==
    ASSUME NEW s \in Seq(Nat), NEW whole, NEW P, NEW x \in Nat, x \in P,
           whole[Len(s) + 1] = x,
           \A k \in 1..Len(s) : s[k] = whole[k],
           \A k \in DOMAIN s : s[k] \in P
    PROVE  /\ Append(s, x) \in Seq(Nat) /\ Len(Append(s, x)) = Len(s) + 1
           /\ \A k \in 1..Len(Append(s, x)) : Append(s, x)[k] = whole[k]
           /\ \A k \in DOMAIN Append(s, x) : Append(s, x)[k] \in P
<1> DEFINE t == Append(s, x)
           n == Len(s)
<1>2. /\ t \in Seq(Nat) /\ Len(t) = n + 1 /\ n \in Nat
      /\ t[n + 1] = x /\ \A k \in 1..n : t[k] = s[k]
  OBVIOUS
<1>3. DOMAIN t = 1..(n + 1) /\ DOMAIN s = 1..n
  BY <1>2
<1> HIDE DEF t, n
<1>4. ASSUME NEW k \in 1..(n + 1)
      PROVE  t[k] = whole[k] /\ t[k] \in P
  <2>1. CASE k = n + 1
    BY <1>2, <2>1 DEF n
  <2>2. CASE k # n + 1
    <3>1. k \in 1..n
      BY <1>2, <2>2
    <3> QED
      BY <1>2, <1>3, <3>1 DEF n
  <2> QED
    BY <2>1, <2>2
<1> QED
  BY <1>2, <1>3, <1>4 DEF t, n

LEMMA InitPrompt == base32!Init => PromptInv /\ AboutTheKey
<1> SUFFICES ASSUME base32!Init
             PROVE  PromptInv /\ AboutTheKey
  OBVIOUS
<1>1. /\ step = "idle" /\ data = <<>> /\ next = 1 /\ buffer = 0 /\ bitsLeft = 8
      /\ result = <<>>
  BY DEF base32!Init
<1>2. Octets(data)
  BY <1>1 DEF Octets
<1>3. Len(data) = 0 /\ Len(result) = 0 /\ result \in Seq(Nat) /\ DOMAIN result = {}
  BY <1>1
<1>4. base32!Chars(0) \in Nat
  BY CharsIs
<1>5. base32!TypeOK
  BY <1>1, <1>3, KeySizes DEF base32!TypeOK
<1> QED
  BY <1>1, <1>2, <1>3, <1>4, <1>5 DEF PromptInv, AboutTheKey

LEMMA AddressOctets ==
    ASSUME b58 \in Seq(0..(DIGITS - 1))
    PROVE  Octets(address)
<1> DEFINE T == 0..(DIGITS - 1)
           B == 0..255
           n == Len(b58)
<1>1. Alphabet \in Seq(B) /\ Len(Alphabet) = DIGITS /\ DIGITS \in Nat
  BY PromptAssumption, DataAssumption
<1>2. b58 \in Seq(T) /\ \A x \in T : x + 1 \in 1..DIGITS
  BY <1>1
<1> HIDE DEF T, B
<1>3. n \in Nat /\ DOMAIN b58 = 1..n /\ \A k \in 1..n : b58[k] \in T
  BY <1>2
<1>4. \A k \in 1..DIGITS : Alphabet[k] \in B
  BY <1>1
<1> HIDE DEF n
<1>5. \A k \in 1..n : Alphabet[b58[k] + 1] \in B
  BY <1>2, <1>3, <1>4
<1>6. address \in [1..n -> B]
  BY <1>3, <1>5 DEF address
<1>7. address \in Seq(B)
  BY <1>3, <1>6
<1> QED
  BY <1>7 DEF B, Octets

LEMMA KeyOctets ==
    ASSUME NEW in, Octets(in), NEW crc \in Checksums
    PROVE  Octets(base32!encode_key(in, crc))
<1> DEFINE B == 0..255
           first == <<6 * 8>>
           middle == [k \in 1..KEY_SIZE |-> base32!At(in, k - 1)]
<1>1. KEY_SIZE \in Nat /\ crc \in Seq(B)
  BY PromptAssumption
<1>2. 6 * 8 \in B
  OBVIOUS
<1>3. \A k \in 1..KEY_SIZE : base32!At(in, k - 1) \in B
  <2>1. \A k \in 1..KEY_SIZE : k - 1 \in Nat
    BY <1>1
  <2> QED
    BY <2>1, AtIs
<1> HIDE DEF B
<1>4. first \in Seq(B)
  BY <1>2
<1>5. middle \in Seq(B)
  <2>1. middle \in [1..KEY_SIZE -> B]
    BY <1>3
  <2> HIDE DEF middle
  <2> QED
    BY <1>1, <2>1
<1> HIDE DEF first, middle
<1>6. first \o middle \in Seq(B)
  BY <1>4, <1>5, Joined
<1>7. (first \o middle) \o crc \in Seq(B)
  BY <1>1, <1>6, Joined
<1>8. base32!encode_key(in, crc) = (first \o middle) \o crc
  BY DEF base32!encode_key, first, middle
<1> QED
  BY <1>7, <1>8 DEF B, Octets

LEMMA KeyLength ==
    ASSUME NEW in, Octets(in), NEW crc \in Checksums
    PROVE  Len(base32!encode_key(in, crc)) = KEY_SIZE + 3
<1> DEFINE B == 0..255
           first == <<6 * 8>>
           middle == [k \in 1..KEY_SIZE |-> base32!At(in, k - 1)]
<1>1. KEY_SIZE \in Nat /\ crc \in Seq(B) /\ Len(crc) = 2
  BY PromptAssumption
<1>2. \A k \in 1..KEY_SIZE : base32!At(in, k - 1) \in B
  <2>1. \A k \in 1..KEY_SIZE : k - 1 \in Nat
    BY <1>1
  <2> QED
    BY <2>1, AtIs
<1>3. 6 * 8 \in B
  OBVIOUS
<1> HIDE DEF B
<1>4. first \in Seq(B) /\ Len(first) = 1
  BY <1>3
<1>5. middle \in Seq(B) /\ Len(middle) = KEY_SIZE
  <2>1. middle = [k \in 1..KEY_SIZE |-> middle[k]] /\ \A k \in 1..KEY_SIZE : middle[k] \in B
    BY <1>2
  <2> HIDE DEF middle
  <2> QED
    BY <1>1, <2>1
<1> HIDE DEF first, middle
<1>6. first \o middle \in Seq(B) /\ Len(first \o middle) = Len(first) + Len(middle)
  BY <1>4, <1>5, Joined
<1>9. Len((first \o middle) \o crc) = Len(first \o middle) + Len(crc)
  BY <1>1, <1>6, Joined
<1>7. Len((first \o middle) \o crc) = KEY_SIZE + 3
  <2>1. Len((first \o middle) \o crc) = (1 + KEY_SIZE) + 2
    BY <1>1, <1>4, <1>5, <1>6, <1>9
  <2> QED
    BY <1>1, <2>1
<1>8. base32!encode_key(in, crc) = (first \o middle) \o crc
  BY DEF base32!encode_key, first, middle
<1> QED
  BY <1>7, <1>8

\* What the steps after the first leave alone.
LEMMA SameWhole ==
    ASSUME data' = data
    PROVE  base32!Base32(data)' = base32!Base32(data) /\ (Octets(data) => Octets(data)')
BY DEF base32!Base32, Octets

LEMMA StartPrompt ==
    ASSUME PromptInv, Octets(address), base32!Start
    PROVE  PromptInv'
<1>1. /\ step = "idle" /\ step' = "encode" /\ buffer' = base32!At(data', 0)
      /\ next' = next /\ bitsLeft' = bitsLeft /\ result' = result
  BY DEF base32!Start
<1>2. PICK crc \in Checksums : data' = base32!encode_key(address, crc)
  BY DEF base32!Start
<1>3. Octets(data') /\ Len(data') = KEY_SIZE + 3
  BY <1>2, KeyOctets, KeyLength
<1>4. result = <<>> /\ next = 1 /\ bitsLeft = 8 /\ base32!TypeOK
  BY <1>1 DEF PromptInv
<1> DEFINE n == Len(data')
<1>6. n \in Nat /\ n >= 1 /\ base32!Chars(n) \in Nat
  <2>1. KEY_SIZE + 3 \in Nat /\ KEY_SIZE \in Nat
    BY PromptAssumption
  <2> HIDE DEF n
  <2>2. n = KEY_SIZE + 3
    BY <1>3 DEF n
  <2> QED
    BY <2>1, <2>2, CharsIs
<1>7. base32!At(data', 0) \in 0..255
  BY <1>3, AtIs
<1>9. Len(result') = 0 /\ result' \in Seq(Nat) /\ DOMAIN result' = {}
  BY <1>1, <1>4
<1>10. ASSUME NEW e \in 0..(8 - 1)
       PROVE  BitOf(buffer', e) = base32!Bit(data', (8 * 1 - 1) - e)
  <2> DEFINE r == 7 - e
  <2>1. r \in 0..7 /\ 7 - r = e /\ (8 * 1 - 1) - e = 8 * 0 + r /\ 0 \in Nat
    OBVIOUS
  <2> HIDE DEF r
  <2>2. base32!Bit(data', 8 * 0 + r) = BitOf(base32!At(data', 0), 7 - r)
    BY <2>1, BitAt
  <2> QED
    BY <1>1, <2>1, <2>2
<1>11. HoldsBits(buffer, bitsLeft, next, Len(result))'
  <2>1. 8 * 1 = 5 * 0 + 8
    OBVIOUS
  <2> HIDE DEF n
  <2> QED
    BY <1>1, <1>4, <1>6, <1>9, <1>10, <2>1 DEF HoldsBits, n
<1>12. base32!TypeOK'
  <2>1. 1 \in 1..(n + 1)
    BY <1>6
  <2>2. 0 <= BUF_SIZE
    BY KeySizes
  <2> QED
    BY <1>1, <1>4, <1>9, <2>1, <2>2 DEF base32!TypeOK
<1>13. Octets(data)' /\ buffer' \in Nat
  <2>1. Octets(data)'
    BY <1>3 DEF Octets
  <2>2. buffer' \in Nat
    BY <1>1, <1>7
  <2> QED
    BY <2>1, <2>2
<1> HIDE DEF n
<1>14. 0 <= base32!Chars(n) /\ \A k \in 1..Len(result') : FALSE
  BY <1>6, <1>9
<1> QED
  BY <1>1, <1>3, <1>9, <1>11, <1>12, <1>13, <1>14 DEF PromptInv, n

\* The five highest bits make the next character, the others are held.
LEMMA EncodePrompt ==
    ASSUME PromptInv, base32!EncodeNext, NEW bits \in Nat, NEW left \in 5..12,
           NEW from \in 1..Len(data), base32!Encode(bits, left, from), left - 5 <= 8,
           HoldsBits(bits, left, from, Len(result))
    PROVE  PromptInv'
<1>0. /\ step = "encode" /\ Len(result) < BUF_SIZE /\ data' = data /\ step' = step
  BY DEF base32!EncodeNext, base32!More
<1> DEFINE c == Len(result)
           x == (bits \div Power(2, left - 5)) % 32
           n == Len(data)
<1>1. /\ buffer' = bits % base32!KeepBits /\ bitsLeft' = left - 5 /\ next' = from
      /\ result' = Append(result, x)
  BY SamePower DEF base32!Encode
<1>2. /\ base32!TypeOK /\ Octets(data) /\ result \in Seq(Nat)
      /\ \A k \in 1..c : result[k] = base32!Base32(data)[k]
      /\ n = KEY_SIZE + 3
  BY <1>0 DEF PromptInv
<1>3. c \in Nat /\ c < BUF_SIZE
  BY <1>0, <1>2
<1>4. n \in Nat /\ from \in Nat
  BY <1>2 DEF Octets
<1>5. /\ x = base32!Five(data, c)
      /\ bits % base32!KeepBits \in Nat
      /\ HoldsBits(bits % base32!KeepBits, left - 5, from, c + 1)
      /\ c + 1 <= base32!Chars(n)
  <2> HIDE DEF c
  <2> QED
    BY <1>2, <1>3, <1>4, BitsTaken DEF c
<1>6. x = base32!Base32(data)[c + 1]
  BY <1>2, <1>3, <1>5, Base32Is
<1>7. x \in 0..31
  <2> DEFINE low == left - 5
             p == Power(2, low)
  <2>2. low \in Nat /\ 2 \in Nat \ {0}
    OBVIOUS
  <2> HIDE DEF low
  <2>3. p \in Nat \ {0}
    BY <2>2, PowerPositive
  <2> HIDE DEF p
  <2> DEFINE y == bits \div p
  <2>4. y \in Nat
    BY <2>3, Divided
  <2> HIDE DEF y
  <2>5. y % 32 \in 0..31
    BY <2>4
  <2> QED
    BY <2>5 DEF y, p, low
<1> HIDE DEF x
<1>10. /\ result' \in Seq(Nat) /\ Len(result') = c + 1
       /\ \A k \in 1..Len(result') : result'[k] = base32!Base32(data)[k]
       /\ \A k \in DOMAIN result' : result'[k] \in 0..31
  <2> DEFINE whole == base32!Base32(data)
             P == 0..31
  <2>1. whole[Len(result) + 1] = x /\ \A k \in 1..Len(result) : result[k] = whole[k]
    BY <1>2, <1>6
  <2>2. result \in Seq(Nat) /\ x \in Nat /\ x \in P
    BY <1>2, <1>7
  <2>4. \A k \in DOMAIN result : result[k] \in P
    BY <1>2 DEF base32!TypeOK
  <2> HIDE DEF whole, P
  <2>3. /\ Append(result, x) \in Seq(Nat) /\ Len(Append(result, x)) = Len(result) + 1
        /\ \A k \in 1..Len(Append(result, x)) : Append(result, x)[k] = whole[k]
        /\ \A k \in DOMAIN Append(result, x) : Append(result, x)[k] \in P
    BY <2>1, <2>2, <2>4, OneMore
  <2> QED
    BY <1>1, <2>3 DEF whole, P
<1>11. base32!Base32(data)' = base32!Base32(data) /\ Octets(data)'
  BY <1>0, <1>2, SameWhole
<1> HIDE DEF c
<1>14. base32!TypeOK'
  <2>1. next' \in 1..(n + 1) /\ bitsLeft' \in 0..8
    BY <1>1, <1>4
  <2>2. Len(result') <= BUF_SIZE
    BY <1>3, <1>10, KeySizes
  <2> QED
    BY <1>0, <1>2, <1>10, <2>1, <2>2 DEF base32!TypeOK
<1>15. HoldsBits(buffer, bitsLeft, next, Len(result))'
  BY <1>0, <1>1, <1>5, <1>10 DEF HoldsBits, c
<1>16. Len(result') <= base32!Chars(Len(data'))
  BY <1>0, <1>5, <1>10
<1>17. buffer' \in Nat
  BY <1>1, <1>5
<1> QED
  BY <1>0, <1>2, <1>10, <1>11, <1>14, <1>15, <1>16, <1>17 DEF PromptInv

LEMMA EncodeNextPrompt ==
    ASSUME PromptInv, base32!EncodeNext
    PROVE  PromptInv'
<1> DEFINE c == Len(result)
           n == Len(data)
<1>1. /\ step = "encode" /\ (bitsLeft > 0 \/ next < n)
      /\ \/ bitsLeft >= 5 /\ base32!Encode(buffer, bitsLeft, next)
         \/ /\ bitsLeft < 5
            /\ base32!Encode(buffer * 256 + base32!At(data, next), bitsLeft + 8, next + 1)
  BY DEF base32!EncodeNext, base32!More
<1>2. /\ Octets(data) /\ buffer \in Nat /\ c \in Nat
      /\ bitsLeft \in 0..8 /\ n \in Nat /\ n % 5 = 0 /\ next \in 1..(n + 1)
      /\ HoldsBits(buffer, bitsLeft, next, c)
  BY <1>1, KeySizes DEF PromptInv, base32!TypeOK
<1>3. next \in 1..n /\ 8 * next = 5 * c + bitsLeft
  BY <1>2 DEF HoldsBits
<1> HIDE DEF n
<1>4. CASE bitsLeft >= 5 /\ base32!Encode(buffer, bitsLeft, next)
  <2>1. bitsLeft \in 5..12 /\ bitsLeft - 5 <= 8
    BY <1>2, <1>4
  <2> QED
    BY <1>2, <1>3, <1>4, <2>1, EncodePrompt DEF n
<1>5. CASE /\ bitsLeft < 5
           /\ base32!Encode(buffer * 256 + base32!At(data, next), bitsLeft + 8, next + 1)
  <2> DEFINE bits == buffer * 256 + base32!At(data, next)
             left == bitsLeft + 8
             from == next + 1
  <2>0. next < n
    <3> HIDE DEF c
    <3>1. ~(next = n /\ bitsLeft \in 1..4)
      BY <1>2, <1>3
    <3> QED
      BY <1>1, <1>2, <1>3, <1>5, <3>1
  <2>1. /\ bitsLeft \in 0..4 /\ next \in Nat \ {0} /\ left \in 5..12 /\ left - 5 <= 8
        /\ from \in 1..n
    BY <1>2, <1>3, <1>5, <2>0
  <2>2. BytesLeft(next)
    BY <2>0 DEF BytesLeft, n
  <2>3. bits \in Nat /\ HoldsBits(bits, left, from, c)
    BY <1>2, <2>1, <2>2, ByteShiftedIn
  <2>4. base32!Encode(bits, left, from)
    BY <1>5
  <2> HIDE DEF bits, left, from
  <2> QED
    BY <2>1, <2>3, <2>4, EncodePrompt DEF n
<1> QED
  BY <1>1, <1>4, <1>5

LEMMA ReturnPrompt ==
    ASSUME PromptInv, base32!Return
    PROVE  PromptInv'
<1> DEFINE c == Len(result)
           n == Len(data)
<1>1. /\ step = "encode" /\ step' = "shown"
      /\ ~(c < BUF_SIZE /\ (bitsLeft > 0 \/ next < n))
      /\ detailValue' = base32!print_summary(result, SUMMARY, SUMMARY)
      /\ data' = data /\ next' = next /\ buffer' = buffer /\ bitsLeft' = bitsLeft
      /\ result' = result
  BY DEF base32!Return, base32!More
<1>2. /\ base32!TypeOK /\ Octets(data) /\ buffer \in Nat /\ result \in Seq(Nat)
      /\ c <= base32!Chars(n) /\ n = KEY_SIZE + 3
      /\ \A k \in 1..c : result[k] = base32!Base32(data)[k]
      /\ HoldsBits(buffer, bitsLeft, next, c)
      /\ bitsLeft \in 0..8 /\ next \in 1..(n + 1)
  BY <1>1 DEF PromptInv, base32!TypeOK
<1>3. base32!Base32(data)' = base32!Base32(data) /\ Octets(data)'
  BY <1>1, <1>2, SameWhole
<1>4. base32!TypeOK'
  BY <1>1, <1>2 DEF base32!TypeOK
<1>5. c = base32!Chars(n)
  <2>1. c \in Nat /\ BUF_SIZE \in Nat /\ n \in Nat /\ base32!Chars(n) \in Nat
        /\ base32!Chars(n) <= BUF_SIZE
    BY <1>2, KeySizes
  <2>2. 8 * next = 5 * c + bitsLeft /\ next <= n
    BY <1>2 DEF HoldsBits
  <2>3. CASE c >= BUF_SIZE
    <3> DEFINE m == base32!Chars(n)
    <3>1. m \in Nat /\ m <= BUF_SIZE /\ c <= m
      BY <1>2, <2>1
    <3> HIDE DEF m, c
    <3>2. c = m
      BY <2>1, <2>3, <3>1
    <3> QED
      BY <3>2 DEF m
  <2>4. CASE c < BUF_SIZE
    <3> HIDE DEF c, n
    <3>1. bitsLeft = 0 /\ next = n
      BY <1>1, <1>2, <2>1, <2>2, <2>4
    <3>2. 8 * n = 5 * c
      BY <2>1, <2>2, <3>1
    <3> QED
      BY <2>1, <3>2, CharsIs
  <2> HIDE DEF c
  <2> QED
    BY <2>1, <2>3, <2>4
<1>6. /\ result' \in Seq(Nat) /\ Len(result') <= base32!Chars(Len(data'))
      /\ \A k \in 1..Len(result') : result'[k] = base32!Base32(data)[k]
      /\ Len(result') = base32!Chars(Len(data')) /\ Len(data') = KEY_SIZE + 3
      /\ detailValue' = base32!print_summary(result', SUMMARY, SUMMARY)
  BY <1>1, <1>2, <1>5
<1>7. (base32!print_summary(result, SUMMARY, SUMMARY))' = base32!print_summary(result', SUMMARY, SUMMARY)
  BY DEF base32!print_summary
<1> QED
  BY <1>1, <1>2, <1>3, <1>4, <1>6, <1>7 DEF PromptInv

LEMMA PromptStep ==
    ASSUME PromptInv, b58 \in Seq(0..(DIGITS - 1)), base32!Next
    PROVE  PromptInv'
<1>1. Octets(address)
  BY AddressOctets
<1> QED
  BY <1>1, StartPrompt, EncodeNextPrompt, ReturnPrompt DEF base32!Next

LEMMA PromptAbout ==
    ASSUME AboutTheKey, ui_show_address_init
    PROVE  AboutTheKey'
<1>1. pc = "return" /\ pc' = pc /\ b58' = b58
  BY DEF ui_show_address_init, keyVars
<1>2. address' = address
  BY <1>1 DEF address
<1>3. \A crc : (base32!encode_key(address, crc))' = base32!encode_key(address, crc)'
  OBVIOUS
<1>4. CASE base32!Start
  BY <1>1, <1>2, <1>4 DEF base32!Start, AboutTheKey
<1>5. CASE base32!EncodeNext \/ base32!Return
  <2>1. step # "idle" /\ data' = data
    BY <1>5 DEF base32!EncodeNext, base32!Return
  <2> QED
    BY <1>1, <1>2, <2>1 DEF AboutTheKey, base32!encode_key, base32!At
<1> QED
  BY <1>4, <1>5 DEF ui_show_address_init, base32!Next

\* b58enc has returned before the prompt's text is begun.
LEMMA KeysAbout ==
    ASSUME AboutTheKey, EncodeKey
    PROVE  AboutTheKey'
<1>1. step' = step /\ pc # "return"
  BY DEF EncodeKey, promptVars, b58enc!Next, b58enc!NextByte, b58enc!LastByte,
         b58enc!NextDigit, b58enc!LastDigit, b58enc!Write
<1> QED
  BY <1>1 DEF AboutTheKey

LEMMA SamePrompt ==
    ASSUME PromptInv, UNCHANGED promptVars
    PROVE  PromptInv'
<1>1. /\ step' = step /\ data' = data /\ next' = next /\ buffer' = buffer
      /\ bitsLeft' = bitsLeft /\ result' = result /\ detailValue' = detailValue
  BY DEF promptVars
<1>2. /\ base32!TypeOK /\ Octets(data) /\ result \in Seq(Nat)
      /\ \A k \in 1..Len(result) : result[k] = base32!Base32(data)[k]
  BY DEF PromptInv
<1>3. base32!Base32(data)' = base32!Base32(data) /\ Octets(data)'
  BY <1>1, <1>2, SameWhole
<1>4. /\ base32!TypeOK'
      /\ result' \in Seq(Nat) /\ \A k \in 1..Len(result') : result'[k] = base32!Base32(data)[k]
  BY <1>1, <1>2 DEF base32!TypeOK
<1>5. HoldsBits(buffer, bitsLeft, next, Len(result)) =>
          HoldsBits(buffer, bitsLeft, next, Len(result))'
  BY <1>1 DEF HoldsBits
<1>6. detailValue = base32!print_summary(result, SUMMARY, SUMMARY) =>
          (detailValue = base32!print_summary(result, SUMMARY, SUMMARY))'
  BY <1>1 DEF base32!print_summary
<1> QED
  BY <1>1, <1>2, <1>3, <1>4, <1>5, <1>6 DEF PromptInv

\* A text that is longer than its summary.
LEMMA SummaryIs ==
    ASSUME NEW s \in Seq(Nat), NEW ends \in Nat, 2 * ends + 2 < Len(s), NEW whole,
           Len(whole) = Len(s), \A k \in 1..Len(s) : s[k] = whole[k]
    PROVE  base32!Summarizes(base32!print_summary(s, ends, ends), whole, ends)
<1> DEFINE n == Len(s)
           dot == base32!DOT
           left == SubSeq(s, 1, ends)
           dots == <<dot, dot>>
           start == (n - ends) + 1
           right == SubSeq(s, start, n)
<1>1. n \in Nat /\ start \in Nat /\ start \in 1..(n + 1) /\ dot \in Nat /\ ends <= n
  BY DEF base32!DOT
<1> HIDE DEF dot
<1>2. /\ left \in Seq(Nat) /\ Len(left) = ends /\ \A k \in 1..ends : left[k] = s[k]
  <2>1. 1 + (ends - 1) = ends
    OBVIOUS
  <2> HIDE DEF n
  <2> QED
    BY <1>1, <2>1 DEF n
<1>3. dots \in Seq(Nat) /\ Len(dots) = 2 /\ dots[1] = dot /\ dots[2] = dot
  BY <1>1
<1>4. /\ right \in Seq(Nat) /\ Len(right) = ends
      /\ \A k \in 1..ends : right[k] = s[(n - ends) + k]
  <2>1. (n - start) + 1 = ends
    BY <1>1
  <2>2. right \in Seq(Nat) /\ Len(right) = (n - start) + 1
        /\ \A k \in 1..((n - start) + 1) : right[k] = s[(start + k) - 1]
    <3> HIDE DEF start
    <3> QED
      BY <1>1
  <2>3. \A k \in 1..ends : (start + k) - 1 = (n - ends) + k
    BY <1>1
  <2> HIDE DEF start, right, n
  <2> QED
    BY <2>1, <2>2, <2>3
<1>5. base32!print_summary(s, ends, ends) = (left \o dots) \o right
  BY DEF base32!print_summary, dot
<1> HIDE DEF left, dots, right, start
<1> DEFINE front == left \o dots
<1>6. /\ front \in Seq(Nat) /\ Len(front) = ends + 2
      /\ \A k \in 1..ends : front[k] = left[k]
      /\ front[ends + 1] = dot /\ front[ends + 2] = dot
  <2>1. /\ front \in Seq(Nat) /\ Len(front) = Len(left) + Len(dots)
        /\ \A k \in 1..Len(left) : front[k] = left[k]
        /\ \A k \in 1..Len(dots) : front[Len(left) + k] = dots[k]
    <3>1. left \in Seq(Nat) /\ dots \in Seq(Nat)
      BY <1>2, <1>3
    <3> QED
      BY <3>1, Joined
  <2> HIDE DEF front
  <2>2. 1 \in 1..Len(dots) /\ 2 \in 1..Len(dots)
    BY <1>3
  <2> QED
    BY <1>2, <1>3, <2>1, <2>2
<1> HIDE DEF front
<1> DEFINE all == front \o right
<1>7. /\ Len(all) = (ends + 2) + ends
      /\ \A k \in 1..(ends + 2) : all[k] = front[k]
      /\ \A k \in 1..ends : all[(ends + 2) + k] = right[k]
  <2>1. /\ Len(all) = Len(front) + Len(right)
        /\ \A k \in 1..Len(front) : all[k] = front[k]
        /\ \A k \in 1..Len(right) : all[Len(front) + k] = right[k]
    <3>1. front \in Seq(Nat) /\ right \in Seq(Nat)
      BY <1>4, <1>6
    <3> QED
      BY <3>1, Joined
  <2> HIDE DEF all
  <2> QED
    BY <1>4, <1>6, <2>1
<1> HIDE DEF all, n
<1>8. \A k \in 1..ends : k \in 1..n /\ (n - ends) + k \in 1..n /\ k \in 1..(ends + 2)
  BY <1>1
<1>9. ends + 1 \in 1..(ends + 2) /\ ends + 2 \in 1..(ends + 2)
  OBVIOUS
<1>10. Len(all) = 2 * ends + 2
  BY <1>7
<1>11. \A k \in 1..ends : all[k] = whole[k] /\ all[ends + 2 + k] = whole[Len(whole) - ends + k]
  <2>1. Len(whole) = n /\ \A k \in 1..n : s[k] = whole[k]
    BY DEF n
  <2> TAKE k \in 1..ends
  <2>2. k \in 1..n /\ (n - ends) + k \in 1..n /\ k \in 1..(ends + 2)
    BY <1>8
  <2>3. all[k] = whole[k]
    BY <1>2, <1>6, <1>7, <2>1, <2>2
  <2>4. all[(ends + 2) + k] = s[(n - ends) + k]
    BY <1>4, <1>7
  <2>5. s[(n - ends) + k] = whole[(Len(whole) - ends) + k]
    BY <2>1, <2>2
  <2> QED
    BY <2>3, <2>4, <2>5
<1>12. all[ends + 1] = dot /\ all[ends + 2] = dot
  BY <1>6, <1>7, <1>9
<1> QED
  BY <1>5, <1>10, <1>11, <1>12 DEF base32!Summarizes, all, front, dot

LEMMA PromptShows == PromptInv /\ AboutTheKey => ShowsEndsOfBase32
<1> SUFFICES ASSUME PromptInv, AboutTheKey, step = "shown"
             PROVE  \E crc \in Checksums :
                      base32!Summarizes(detailValue,
                          base32!Base32(base32!encode_key(address, crc)), SUMMARY)
  BY DEF ShowsEndsOfBase32, base32!ShowsEndsOfBase32
<1>1. PICK crc \in Checksums : data = base32!encode_key(address, crc)
  BY DEF AboutTheKey
<1> DEFINE whole == base32!Base32(data)
<1>2. /\ result \in Seq(Nat) /\ Octets(data) /\ Len(data) = KEY_SIZE + 3
      /\ Len(result) = base32!Chars(Len(data))
      /\ \A k \in 1..Len(result) : result[k] = whole[k]
      /\ detailValue = base32!print_summary(result, SUMMARY, SUMMARY)
  BY DEF PromptInv
<1>3. Len(whole) = Len(result)
  BY <1>2, Base32Is
<1>4. SUMMARY \in Nat /\ 2 * SUMMARY + 2 < Len(result)
  BY <1>2, KeySizes
<1> HIDE DEF whole
<1>5. base32!Summarizes(detailValue, whole, SUMMARY)
  BY <1>2, <1>3, <1>4, SummaryIs
<1> QED
  BY <1>1, <1>5 DEF whole

-----------------------------------------------------------------------------
(***************************************************************************)
(* Both converters.                                                        *)
(***************************************************************************)
TextInv == KeyInv /\ PromptInv /\ AboutTheKey

LEMMA SameKeys ==
    ASSUME KeyInv, UNCHANGED keyVars
    PROVE  KeyInv'
<1>1. /\ bin' = bin /\ b58sz' = b58sz /\ pc' = pc /\ i' = i /\ j' = j /\ high' = high
      /\ carry' = carry /\ buf' = buf /\ b58' = b58
  BY DEF keyVars
<1>2. b58enc!size' = b58enc!size /\ b58enc!zcount' = b58enc!zcount
  BY <1>1, SameData
<1>3. b58enc!TypeOK'
  BY <1>1, <1>2 DEF KeyInv, b58enc!TypeOK
<1>4. b58enc!TextIsTheData'
  BY <1>1 DEF KeyInv, b58enc!TextIsTheData, b58enc!NoText
<1> DEFINE n == b58enc!size
           z == b58enc!zcount
<1>5. n' = n /\ z' = z
  BY <1>2
<1> HIDE DEF n, z
<1> QED
  BY <1>1, <1>3, <1>4, <1>5 DEF KeyInv, n, z

LEMMA KeyStep ==
    ASSUME KeyInv, b58enc!Next
    PROVE  KeyInv'
BY NextByteKeys, LastByteKeys, NextDigitKeys, LastDigitKeys, WriteKeys DEF b58enc!Next

LEMMA TextInvariant == Spec => []TextInv
<1>1. Init => TextInv
  BY InitKeys, InitPrompt DEF Init, TextInv
<1>2. TextInv /\ [Next]_vars => TextInv'
  <2> SUFFICES ASSUME TextInv, [Next]_vars
               PROVE  TextInv'
    OBVIOUS
  <2>1. KeyInv /\ PromptInv /\ AboutTheKey /\ b58 \in Seq(0..(DIGITS - 1))
    BY DEF TextInv, KeyInv
  <2>2. CASE EncodeKey
    <3>1. KeyInv'
      BY <2>1, <2>2, KeyStep DEF EncodeKey
    <3>2. PromptInv' /\ AboutTheKey'
      BY <2>1, <2>2, SamePrompt, KeysAbout DEF EncodeKey
    <3> QED
      BY <3>1, <3>2 DEF TextInv
  <2>3. CASE ui_show_address_init
    <3>1. KeyInv'
      BY <2>1, <2>3, SameKeys DEF ui_show_address_init
    <3>2. PromptInv' /\ AboutTheKey'
      BY <2>1, <2>3, PromptStep, PromptAbout DEF ui_show_address_init
    <3> QED
      BY <3>1, <3>2 DEF TextInv
  <2>4. CASE UNCHANGED vars
    <3>1. KeyInv'
      BY <2>1, <2>4, SameKeys DEF vars
    <3>2. PromptInv'
      BY <2>1, <2>4, SamePrompt DEF vars
    <3>3. AboutTheKey'
      BY <2>1, <2>4 DEF vars, keyVars, promptVars, AboutTheKey, address, base32!encode_key,
                        base32!At
    <3> QED
      BY <3>1, <3>2, <3>3 DEF TextInv
  <2> QED
    BY <2>2, <2>3, <2>4 DEF Next
<1> QED
  BY <1>1, <1>2, PTL DEF Spec

(***************************************************************************)
(* Every index of b58enc and base32_encode stays inside its array, for     *)
(* every key and every length of it: j, which is unsigned and counts down  *)
(* (eos_base58.c:46), does not wrap, and out never has more than bufSize   *)
(* characters (eos_utils.c:87).                                            *)
(***************************************************************************)
THEOREM TextTypeCorrect == Spec => []TypeOK
<1>1. TextInv => TypeOK
  BY DEF TextInv, KeyInv, PromptInv, TypeOK
<1> QED
  BY <1>1, TextInvariant, PTL

(***************************************************************************)
(* After each byte the digits of b58enc denote the bytes so far, nothing   *)
(* is carried out of the array, and the digits above "high" are zero: 138  *)
(* digits for 100 bytes are enough for every key (eos_base58.c:35).        *)
(***************************************************************************)
THEOREM DigitsHoldTheBytes == Spec => []DigitsAreTheBytes
<1>1. TextInv => DigitsAreTheBytes
  <2> SUFFICES ASSUME KeyInv, pc = "bytes"
               PROVE  /\ b58enc!NumberOf(b58enc!Digits, DIGITS)
                           = b58enc!NumberOf(SubSeq(bin, 1, i), BASE)
                      /\ i > b58enc!zcount => carry = 0
                      /\ i > b58enc!zcount => \A k \in 0..(high - 1) : buf[k] = 0
    BY DEF TextInv, DigitsAreTheBytes, b58enc!DigitsAreTheBytes
  <2> DEFINE n == b58enc!size
  <2>1. /\ BytesDone(buf, n, Num(bin, i))
        /\ i > b58enc!zcount => carry = 0 /\ \A k \in 0..(high - 1) : buf[k] = 0
        /\ bin \in Inputs /\ buf \in [0..(n - 1) -> 0..(DIGITS - 1)]
    BY DEF KeyInv, b58enc!TypeOK
  <2>2. n \in Nat
    BY <2>1, SizeEnough
  <2>3. b58enc!Digits = [k \in 1..n |-> buf[k - 1]]
    BY DEF b58enc!Digits
  <2> HIDE DEF n
  <2>4. b58enc!NumberOf(b58enc!Digits, DIGITS) = Num(bin, i)
    BY <2>1, <2>2, <2>3, DigitsDenote
  <2> QED
    BY <2>1, <2>4 DEF Num
<1> QED
  BY <1>1, TextInvariant, PTL

(***************************************************************************)
(* What the host gets is a text of the key, one "1" for each leading zero  *)
(* byte and then its number without leading zeros, or no text at all (the  *)
(* "return 0" of b58enc where the room is too small, eos_base58.c:58).     *)
(***************************************************************************)
THEOREM TextDenotesTheKey == Spec => []TextIsTheData
<1>1. TextInv => TextIsTheData
  BY DEF TextInv, KeyInv, TextIsTheData
<1> QED
  BY <1>1, TextInvariant, PTL

(***************************************************************************)
(* The prompt shows the two ends of the base 32 of the address that the    *)
(* host gets, of its first KEY_SIZE characters, with a version and a       *)
(* checksum: the five bits that base32_encode takes are always the next    *)
(* ones, also over two bytes (eos_utils.c:87), and print_summary copies    *)
(* the ends of all of them (eos_utils.c:181).  For every two bases, every  *)
(* key, every alphabet and checksum, and every KEY_SIZE for which the      *)
(* bytes are whole groups of five, as the 35 of the code are.              *)
(***************************************************************************)
THEOREM PromptShowsTheEnds == Spec => []ShowsEndsOfBase32
<1>1. TextInv => ShowsEndsOfBase32
  BY PromptShows DEF TextInv
<1> QED
  BY <1>1, TextInvariant, PTL

-----------------------------------------------------------------------------
(***************************************************************************)
(* The steps that are left.  D is one more than the digits of a number; a  *)
(* byte that is added costs as many steps at most.                         *)
(***************************************************************************)
LEMMA OneByteLess ==
    ASSUME NEW bytes \in Nat \ {0}, NEW D \in Nat
    PROVE  (bytes - 1) * D \in Nat /\ bytes * D = (bytes - 1) * D + D
<1> DEFINE before == bytes - 1
<1>1. before \in Nat /\ bytes = before + 1
  OBVIOUS
<1> HIDE DEF before
<1>2. before * D \in Nat /\ (before + 1) * D = before * D + D
  BY <1>1
<1> QED
  BY <1>1, <1>2 DEF before

LEMMA KeyStepsNatural ==
    ASSUME b58enc!TypeOK
    PROVE  KeySteps \in Nat
<1> DEFINE D == b58enc!size + 1
           bytes == Len(bin) - i
<1>1. /\ bin \in Inputs /\ pc \in {"bytes", "digits", "write", "return"}
      /\ i \in 0..Len(bin) /\ (pc = "digits" => i < Len(bin))
      /\ j \in 0..(b58enc!size - 1)
  BY DEF b58enc!TypeOK
<1>2. D \in Nat /\ bytes \in Nat /\ j \in Nat /\ (pc = "digits" => bytes \in Nat \ {0})
  BY <1>1, SizeEnough
<1> HIDE DEF D, bytes
<1>3. CASE pc = "bytes"
  <2>1. KeySteps = bytes * D + 2
    BY <1>3 DEF KeySteps, D, bytes
  <2> QED
    BY <1>2, <2>1
<1>4. CASE pc = "digits"
  <2>1. KeySteps = (bytes - 1) * D + j + 3
    BY <1>4 DEF KeySteps, D, bytes
  <2>2. (bytes - 1) * D \in Nat
    BY <1>2, <1>4, OneByteLess
  <2> QED
    BY <1>2, <2>1, <2>2
<1>5. CASE pc \in {"write", "return"}
  BY <1>5 DEF KeySteps
<1> QED
  BY <1>1, <1>3, <1>4, <1>5

LEMMA KeyStepsFall ==
    ASSUME KeyInv, b58enc!Next
    PROVE  KeySteps' \in Nat /\ KeySteps \in Nat /\ KeySteps' < KeySteps
<1>1. b58enc!TypeOK /\ b58enc!TypeOK'
  BY KeyStep DEF KeyInv
<1>2. KeySteps \in Nat /\ (b58enc!TypeOK => KeySteps \in Nat)'
  BY <1>1, KeyStepsNatural, PTL
<1> DEFINE n == b58enc!size
           D == n + 1
           bytes == Len(bin) - i
<1>3. bin \in Inputs /\ i \in 0..Len(bin) /\ j \in 0..(n - 1)
  BY <1>1 DEF b58enc!TypeOK
<1>4. Len(bin) \in Nat /\ n \in Nat \ {0} /\ D \in Nat /\ j \in Nat
  BY <1>3, SizeEnough
<1>5. bin' = bin /\ n' = n
  BY SameData DEF b58enc!Next, b58enc!NextByte, b58enc!LastByte, b58enc!NextDigit,
                  b58enc!LastDigit, b58enc!Write
<1> HIDE DEF n
<1>6. i < Len(bin) =>
        (bytes - 1) * D \in Nat /\ bytes * D = (bytes - 1) * D + D
  <2> HAVE i < Len(bin)
  <2>1. bytes \in Nat \ {0}
    BY <1>3, <1>4
  <2> HIDE DEF bytes, D
  <2> QED
    BY <1>4, <2>1, OneByteLess
<1>7. pc = "digits" => KeySteps = (bytes - 1) * D + j + 3
  BY DEF KeySteps, n
<1>8. pc' = "bytes" /\ i' = i + 1 => KeySteps' = (bytes - 1) * D + 2
  <2> HAVE pc' = "bytes" /\ i' = i + 1
  <2>1. KeySteps' = (Len(bin) - (i + 1)) * D + 2
    BY <1>5 DEF KeySteps, n
  <2>2. Len(bin) - (i + 1) = bytes - 1
    BY <1>3, <1>4
  <2> QED
    BY <2>1, <2>2
<1>9. CASE b58enc!NextByte
  <2>1. pc = "bytes" /\ i < Len(bin) /\ pc' = "digits" /\ j' = n - 1 /\ i' = i
    BY <1>9 DEF b58enc!NextByte, n
  <2>2. KeySteps = bytes * D + 2 /\ KeySteps' = (bytes - 1) * D + (n - 1) + 3
    BY <1>5, <2>1 DEF KeySteps, n
  <2> DEFINE less == (bytes - 1) * D
  <2>3. less \in Nat /\ KeySteps = less + D + 2 /\ KeySteps' = less + (n - 1) + 3
    BY <1>6, <2>1, <2>2
  <2> HIDE DEF less
  <2>4. KeySteps' < KeySteps
    BY <1>4, <2>3
  <2> QED
    BY <1>1, <1>2, <2>4
<1>10. CASE b58enc!LastByte
  <2>1. pc = "bytes" /\ i = Len(bin) /\ pc' = "write"
    BY <1>10 DEF b58enc!LastByte
  <2>2. KeySteps = 0 * D + 2 /\ KeySteps' = 1
    BY <1>4, <2>1 DEF KeySteps, n
  <2> HIDE DEF D
  <2>3. KeySteps = 2
    BY <1>4, <2>2
  <2> QED
    BY <1>1, <1>2, <2>2, <2>3
<1>11. CASE b58enc!NextDigit \/ b58enc!LastDigit
  <2>1. pc = "digits" /\ i < Len(bin)
    BY <1>1, <1>11 DEF b58enc!NextDigit, b58enc!LastDigit, b58enc!TypeOK
  <2>2. \/ pc' = "bytes" /\ i' = i + 1
        \/ pc' = "digits" /\ i' = i /\ j' = j - 1
    BY <1>11, <2>1 DEF b58enc!NextDigit, b58enc!LastDigit, b58enc!ByteAdded
  <2> DEFINE less == (bytes - 1) * D
  <2>3. less \in Nat /\ KeySteps = less + j + 3
    BY <1>6, <1>7, <2>1
  <2>4. CASE pc' = "bytes" /\ i' = i + 1
    <3>1. KeySteps' = less + 2
      BY <1>8, <2>4
    <3> HIDE DEF less
    <3>2. KeySteps' < KeySteps
      BY <1>4, <2>3, <3>1
    <3> QED
      BY <1>1, <1>2, <3>2
  <2>5. CASE pc' = "digits" /\ i' = i /\ j' = j - 1
    <3>1. KeySteps' = less + (j - 1) + 3
      BY <1>5, <2>5 DEF KeySteps, n
    <3> HIDE DEF less
    <3>2. KeySteps' < KeySteps
      BY <1>4, <2>3, <3>1
    <3> QED
      BY <1>1, <1>2, <3>2
  <2> QED
    BY <2>2, <2>4, <2>5
<1>12. CASE b58enc!Write
  <2>1. KeySteps = 1 /\ KeySteps' = 0
    BY <1>12 DEF b58enc!Write, KeySteps
  <2> QED
    BY <2>1
<1> QED
  BY <1>9, <1>10, <1>11, <1>12 DEF b58enc!Next

LEMMA PromptStepsNatural ==
    ASSUME base32!TypeOK, result \in Seq(Nat)
    PROVE  PromptSteps \in Nat
<1> DEFINE room == BUF_SIZE - Len(result)
<1>1. /\ step \in {"idle", "encode", "shown"}
      /\ Len(result) \in Nat /\ Len(result) <= BUF_SIZE /\ BUF_SIZE \in Nat
  BY KeySizes DEF base32!TypeOK
<1>2. room \in Nat
  BY <1>1
<1> HIDE DEF room
<1>3. PromptSteps \in {BUF_SIZE + 2, room + 1, 0}
  BY <1>1 DEF PromptSteps, room
<1> QED
  BY <1>1, <1>2, <1>3

LEMMA PromptStepsFall ==
    ASSUME PromptInv, base32!Next, PromptInv'
    PROVE  PromptSteps' \in Nat /\ PromptSteps \in Nat /\ PromptSteps' < PromptSteps
<1>1. /\ base32!TypeOK /\ base32!TypeOK'
      /\ result \in Seq(Nat) /\ result' \in Seq(Nat)
  BY DEF PromptInv
<1>2. /\ PromptSteps \in Nat
      /\ (base32!TypeOK /\ result \in Seq(Nat) => PromptSteps \in Nat)'
  BY <1>1, PromptStepsNatural, PTL
<1> DEFINE room == BUF_SIZE - Len(result)
<1>3. /\ Len(result) \in Nat /\ Len(result) <= BUF_SIZE /\ BUF_SIZE \in Nat
      /\ \A c : Len(Append(result, c)) = Len(result) + 1
  BY <1>1, KeySizes DEF base32!TypeOK
<1>4. room \in Nat /\ room <= BUF_SIZE
  BY <1>3
<1>5. \A c : result' = Append(result, c) => BUF_SIZE - Len(result') = room - 1
  BY <1>3
<1>6. result' = result => BUF_SIZE - Len(result') = room
  OBVIOUS
<1> HIDE DEF room
<1>7. PromptSteps' < PromptSteps
  <2>1. CASE base32!Start
    <3>1. step = "idle" /\ step' = "encode" /\ result' = result
      BY <2>1 DEF base32!Start
    <3>2. PromptSteps = BUF_SIZE + 2 /\ PromptSteps' = room + 1
      BY <1>6, <3>1 DEF PromptSteps, room
    <3> QED
      BY <1>3, <1>4, <3>2
  <2>2. CASE base32!EncodeNext
    <3>1. step = "encode" /\ step' = step /\ \E c : result' = Append(result, c)
      BY <2>2 DEF base32!EncodeNext, base32!Encode
    <3>2. PromptSteps = room + 1 /\ PromptSteps' = room - 1 + 1
      BY <1>5, <3>1 DEF PromptSteps, room
    <3> QED
      BY <1>4, <3>2
  <2>3. CASE base32!Return
    <3>1. step = "encode" /\ step' = "shown"
      BY <2>3 DEF base32!Return
    <3>2. PromptSteps = room + 1 /\ PromptSteps' = 0
      BY <3>1 DEF PromptSteps, room
    <3> QED
      BY <1>4, <3>2
  <2> QED
    BY <2>1, <2>2, <2>3 DEF base32!Next
<1> QED
  BY <1>1, <1>2, <1>7

LEMMA OneSumLess ==
    ASSUME NEW a \in Nat, NEW b \in Nat, NEW c \in Nat, c < a
    PROVE  /\ c + b \in Nat /\ c + b < a + b
           /\ b + c \in Nat /\ b + c < b + a
OBVIOUS

(***************************************************************************)
(* For every key, and whatever the carry does, each step of the converters *)
(* brings the end nearer: b58enc makes at most one turn for each digit and *)
(* one more for each byte (eos_base58.c:46), base32_encode one for each    *)
(* character that it has room for (eos_utils.c:87).                        *)
(***************************************************************************)
THEOREM EveryStepCounts == Spec => EndComesNearer
<1>1. TextInv /\ TextInv' /\ [Next]_vars
        => [StepsLeft' \in Nat /\ StepsLeft' < StepsLeft]_vars
  <2> SUFFICES ASSUME TextInv, TextInv', Next
               PROVE  StepsLeft' \in Nat /\ StepsLeft' < StepsLeft
    OBVIOUS
  <2>1. /\ KeyInv /\ PromptInv /\ PromptInv'
        /\ b58enc!TypeOK /\ base32!TypeOK /\ result \in Seq(Nat)
    BY DEF TextInv, KeyInv, PromptInv
  <2>2. KeySteps \in Nat /\ PromptSteps \in Nat
    BY <2>1, KeyStepsNatural, PromptStepsNatural
  <2>3. StepsLeft = KeySteps + PromptSteps /\ StepsLeft' = KeySteps' + PromptSteps'
    BY DEF StepsLeft
  <2>4. CASE EncodeKey
    <3>1. b58enc!Next /\ UNCHANGED promptVars
      BY <2>4 DEF EncodeKey
    <3>2. KeySteps' \in Nat /\ KeySteps' < KeySteps
      BY <2>1, <3>1, KeyStepsFall
    <3>3. PromptSteps' = PromptSteps
      BY <3>1 DEF PromptSteps, promptVars
    <3> QED
      BY <2>2, <2>3, <3>2, <3>3, OneSumLess
  <2>5. CASE ui_show_address_init
    <3>1. base32!Next /\ UNCHANGED keyVars
      BY <2>5 DEF ui_show_address_init
    <3>2. PromptSteps' \in Nat /\ PromptSteps' < PromptSteps
      BY <2>1, <3>1, PromptStepsFall
    <3>3. KeySteps' = KeySteps
      <4>1. pc' = pc /\ bin' = bin /\ i' = i /\ j' = j
        BY <3>1 DEF keyVars
      <4>2. b58enc!size' = b58enc!size
        BY <4>1, SameData
      <4> QED
        BY <4>1, <4>2 DEF KeySteps
    <3> QED
      BY <2>2, <2>3, <3>2, <3>3, OneSumLess
  <2> QED
    BY <2>4, <2>5 DEF Next
<1> QED
  BY <1>1, TextInvariant, PTL DEF Spec, EndComesNearer

-----------------------------------------------------------------------------

(***************************************************************************)
(* BytesOf and the length of an integer in DER.                            *)
(***************************************************************************)
LEMMA BytesOfType ==
    ASSUME NEW number \in Nat, NEW size \in Nat
    PROVE  BytesOf(number, size) \in Seq(Nat) /\ Len(BytesOf(number, size)) = size
<1>1. ASSUME NEW t \in 1..size
      PROVE  (number \div Power(BYTE, size - t)) % BYTE \in Nat
  <2> DEFINE p == Power(BYTE, size - t)
  <2>1. p \in Nat \ {0}
    BY BytesAssumption, PowerPositive
  <2> HIDE DEF p
  <2>2. number \div p \in Nat
    BY <2>1
  <2> QED
    BY <2>2, BytesAssumption DEF p
<1> DEFINE bytes == [t \in 1..size |-> (number \div Power(BYTE, size - t)) % BYTE]
<1>2. bytes \in [1..size -> Nat]
  BY <1>1
<1> HIDE DEF bytes
<1>3. bytes \in Seq(Nat) /\ Len(bytes) = size
  BY <1>2
<1> QED
  BY <1>3 DEF bytes, BytesOf

\* k bytes are as many as number needs with its sign.
DerSize(number, k) ==
    /\ k \in 1..(SIZE + 1)
    /\ 2 * number < Power(BYTE, k)
    /\ k > 1 => 2 * number >= Power(BYTE, k - 1)

LEMMA DerSizeExists ==
    ASSUME NEW number \in Nat, number < Power(BYTE, SIZE)
    PROVE  \E k : DerSize(number, k)
<1> DEFINE S == {k \in Nat \ {0} : 2 * number < Power(BYTE, k)}
           p == Power(BYTE, SIZE)
           q == Power(BYTE, SIZE + 1)
<1>1. p \in Nat /\ q = BYTE * p /\ SIZE + 1 \in Nat \ {0} /\ number < p
  BY BytesAssumption, PowerNext
<1>2. SIZE + 1 \in S <=> 2 * number < q
  BY <1>1
<1> HIDE DEF p, q
<1>3. 2 * number < q
  <2>1. 2 * p <= BYTE * p
    BY <1>1, BytesAssumption
  <2>2. 2 * number < 2 * p
    BY <1>1
  <2>3. BYTE * p \in Nat
    BY <1>1, BytesAssumption
  <2> HIDE DEF p
  <2> QED
    BY <1>1, <2>1, <2>2, <2>3
<1>4. S # {} /\ S \subseteq Nat
  BY <1>2, <1>3
<1> HIDE DEF S
<1>5. PICK k \in S : \A n \in S : k <= n
  BY <1>4, LeastNatural
<1>6. k \in 1..(SIZE + 1)
  BY <1>2, <1>3, <1>5, BytesAssumption DEF S
<1>7. 2 * number < Power(BYTE, k)
  BY <1>5 DEF S
<1>8. ASSUME k > 1
      PROVE  2 * number >= Power(BYTE, k - 1)
  <2>1. k - 1 \notin S /\ k - 1 \in Nat \ {0}
    BY <1>4, <1>5, <1>6, <1>8
  <2>2. ~(2 * number < Power(BYTE, k - 1))
    BY <2>1 DEF S
  <2>3. Power(BYTE, k - 1) \in Nat
    BY <2>1, BytesAssumption, PowerNext
  <2> QED
    BY <2>2, <2>3
<1> QED
  BY <1>6, <1>7, <1>8 DEF DerSize

LEMMA DerIntegerIs ==
    ASSUME NEW number \in Nat, number < Power(BYTE, SIZE)
    PROVE  \E k : /\ DerSize(number, k)
                  /\ DerInteger(number) = <<INTEGER, k>> \o BytesOf(number, k)
<1> DEFINE k == CHOOSE k \in 1..(SIZE + 1) :
                    /\ 2 * number < Power(BYTE, k)
                    /\ k > 1 => 2 * number >= Power(BYTE, k - 1)
<1>0. \E n \in 1..(SIZE + 1) :
         /\ 2 * number < Power(BYTE, n)
         /\ n > 1 => 2 * number >= Power(BYTE, n - 1)
  BY DerSizeExists DEF DerSize
<1>1. DerSize(number, k)
  BY <1>0 DEF DerSize
<1>2. DerInteger(number) = <<INTEGER, k>> \o BytesOf(number, k)
  BY DEF DerInteger
<1> QED
  BY <1>1, <1>2

(***************************************************************************)
(* A number that is not short of SIZE bytes: its DER bytes behind the zero *)
(* that Skipped passes over are the SIZE bytes of the number.              *)
(***************************************************************************)
LEMMA FullSize ==
    ASSUME NEW number \in Nat, FullLength(number), NEW k, DerSize(number, k)
    PROVE  k \in {SIZE, SIZE + 1}
<1> SUFFICES ASSUME k <= SIZE - 1
             PROVE  FALSE
  BY BytesAssumption DEF DerSize
<1>1. k \in Nat /\ SIZE - 1 \in Nat /\ BYTE \in Nat \ {0}
  BY BytesAssumption DEF DerSize
<1>2. Power(BYTE, k) <= Power(BYTE, SIZE - 1)
  BY <1>1, PowerMonotone
<1>3. Power(BYTE, k) \in Nat /\ Power(BYTE, SIZE - 1) \in Nat
  BY <1>1, PowerPositive
<1> QED
  BY <1>2, <1>3 DEF FullLength, DerSize

LEMMA SkippedBytes ==
    ASSUME NEW number \in Nat, FullLength(number), NEW k, DerSize(number, k),
           NEW t \in 1..SIZE
    PROVE  /\ Skipped(k) + t \in 1..k
           /\ BytesOf(number, k)[Skipped(k) + t] = BytesOf(number, SIZE)[t]
<1>1. k \in {SIZE, SIZE + 1}
  BY FullSize
<1>2. Skipped(k) + t \in 1..k /\ k - (Skipped(k) + t) = SIZE - t
  BY <1>1, BytesAssumption DEF Skipped
<1> DEFINE m == Skipped(k) + t
<1>3. m \in 1..k /\ k - m = SIZE - t
  BY <1>2
<1> HIDE DEF m
<1>4. BytesOf(number, k)[m] = (number \div Power(BYTE, k - m)) % BYTE
  BY <1>3 DEF BytesOf
<1>5. BytesOf(number, SIZE)[t] = (number \div Power(BYTE, SIZE - t)) % BYTE
  BY DEF BytesOf
<1> QED
  BY <1>3, <1>4, <1>5 DEF m

-----------------------------------------------------------------------------
(***************************************************************************)
(* The DER encoding of a signature, by its places: r has kr bytes, s has   *)
(* ks.  A buffer that begins with the encoding has the same places.        *)
(***************************************************************************)
Laid(sig, r, s, kr, ks) ==
    /\ sig \in Seq(Nat)
    /\ DerSize(r, kr) /\ DerSize(s, ks)
    /\ Len(sig) >= 6 + kr + ks
    /\ sig[4] = kr /\ sig[6 + kr] = ks
    /\ \A t \in 1..kr : sig[4 + t] = BytesOf(r, kr)[t]
    /\ \A t \in 1..ks : sig[6 + kr + t] = BytesOf(s, ks)[t]

LEMMA DerLaid ==
    ASSUME NEW sig \in Signatures
    PROVE  /\ \E kr, ks : Laid(Der(sig), sig.r, sig.s, kr, ks)
           /\ Len(Der(sig)) <= 2 * (SIZE + 1) + 6
<1> DEFINE r == sig.r
           s == sig.s
<1>1. r \in Nat /\ s \in Nat /\ r < Power(BYTE, SIZE) /\ s < Power(BYTE, SIZE)
  BY SignaturesAssumption, SizeAssumption
<1> HIDE DEF r, s
<1>2. PICK kr : DerSize(r, kr) /\ DerInteger(r) = <<INTEGER, kr>> \o BytesOf(r, kr)
  BY <1>1, DerIntegerIs
<1>3. PICK ks : DerSize(s, ks) /\ DerInteger(s) = <<INTEGER, ks>> \o BytesOf(s, ks)
  BY <1>1, DerIntegerIs
<1> DEFINE br == BytesOf(r, kr)
           bs == BytesOf(s, ks)
           dr == <<INTEGER, kr>> \o br
           ds == <<INTEGER, ks>> \o bs
           both == dr \o ds
           der == <<SEQUENCE, Len(both)>> \o both
<1>4. kr \in 1..(SIZE + 1) /\ ks \in 1..(SIZE + 1)
  BY <1>2, <1>3 DEF DerSize
<1>5. br \in Seq(Nat) /\ Len(br) = kr /\ bs \in Seq(Nat) /\ Len(bs) = ks
  BY <1>1, <1>4, BytesOfType
<1>6. Der(sig) = der
  BY <1>2, <1>3 DEF Der, r, s
<1> HIDE DEF br, bs
<1>7. /\ dr \in Seq(Nat) /\ Len(dr) = 2 + kr /\ dr[2] = kr
      /\ \A t \in 1..kr : dr[2 + t] = br[t]
  BY <1>4, <1>5, BytesAssumption
<1>8. /\ ds \in Seq(Nat) /\ Len(ds) = 2 + ks /\ ds[2] = ks
      /\ \A t \in 1..ks : ds[2 + t] = bs[t]
  BY <1>4, <1>5, BytesAssumption
<1> HIDE DEF dr, ds
<1>9. /\ both \in Seq(Nat) /\ Len(both) = 4 + kr + ks
      /\ \A t \in 1..(2 + kr) : both[t] = dr[t]
      /\ \A t \in 1..(2 + ks) : both[2 + kr + t] = ds[t]
  <2>1. /\ both \in Seq(Nat) /\ Len(both) = Len(dr) + Len(ds)
        /\ \A t \in 1..Len(dr) : both[t] = dr[t]
        /\ \A t \in 1..Len(ds) : both[Len(dr) + t] = ds[t]
    <3>1. dr \in Seq(Nat) /\ ds \in Seq(Nat)
      BY <1>7, <1>8
    <3> QED
      BY <3>1, Joined
  <2>2. 2 + kr + (2 + ks) = 4 + kr + ks
    BY <1>4
  <2> HIDE DEF both
  <2> QED
    BY <1>7, <1>8, <2>1, <2>2
<1> HIDE DEF both
<1>10. /\ der \in Seq(Nat) /\ Len(der) = 6 + kr + ks
       /\ \A t \in 1..(4 + kr + ks) : der[2 + t] = both[t]
  <2> DEFINE head == <<SEQUENCE, Len(both)>>
  <2>1. head \in Seq(Nat) /\ Len(head) = 2 /\ der = head \o both
    BY <1>9, BytesAssumption
  <2>2. 2 + (4 + kr + ks) = 6 + kr + ks
    BY <1>4
  <2> HIDE DEF head, der
  <2>3. /\ der \in Seq(Nat) /\ Len(der) = Len(head) + Len(both)
        /\ \A t \in 1..Len(head) : der[t] = head[t]
        /\ \A t \in 1..Len(both) : der[Len(head) + t] = both[t]
    <3>1. head \in Seq(Nat) /\ both \in Seq(Nat) /\ der = head \o both
      BY <1>9, <2>1
    <3> QED
      BY <3>1, Joined
  <2> QED
    BY <1>9, <2>1, <2>2, <2>3
<1> HIDE DEF der
<1>11. der[4] = kr
  <2>1. 2 \in 1..(4 + kr + ks) /\ 2 \in 1..(2 + kr) /\ 2 + 2 = 4
    BY <1>4
  <2> QED
    BY <1>7, <1>9, <1>10, <2>1
<1>12. der[6 + kr] = ks
  <2>1. 4 + kr \in 1..(4 + kr + ks) /\ 2 \in 1..(2 + ks)
        /\ 2 + kr + 2 = 4 + kr /\ 2 + (4 + kr) = 6 + kr
    BY <1>4
  <2>2. both[2 + kr + 2] = ds[2]
    BY <1>9, <2>1
  <2>3. der[2 + (4 + kr)] = both[4 + kr]
    BY <1>10, <2>1
  <2> QED
    BY <1>8, <2>1, <2>2, <2>3
<1>13. ASSUME NEW t \in 1..kr
       PROVE  der[4 + t] = br[t]
  <2> DEFINE m == 2 + t
  <2>1. m \in 1..(4 + kr + ks) /\ m \in 1..(2 + kr) /\ 2 + m = 4 + t
    BY <1>4
  <2>2. dr[m] = br[t]
    BY <1>7
  <2> HIDE DEF m
  <2> QED
    BY <1>9, <1>10, <2>1, <2>2
<1>14. ASSUME NEW t \in 1..ks
       PROVE  der[6 + kr + t] = bs[t]
  <2> DEFINE m == 2 + t
             n == 2 + kr + m
  <2>1. m \in 1..(2 + ks) /\ n \in 1..(4 + kr + ks) /\ 2 + n = 6 + kr + t
    BY <1>4
  <2>2. ds[m] = bs[t]
    BY <1>8
  <2>3. both[n] = ds[m]
    BY <1>9, <2>1
  <2> HIDE DEF m, n
  <2>4. der[2 + n] = both[n]
    BY <1>10, <2>1
  <2> QED
    BY <2>1, <2>2, <2>3, <2>4
<1>15. Laid(der, r, s, kr, ks)
  BY <1>2, <1>3, <1>4, <1>10, <1>11, <1>12, <1>13, <1>14 DEF Laid, br, bs
<1>16. Len(der) <= 2 * (SIZE + 1) + 6
  BY <1>4, <1>10, BytesAssumption
<1> QED
  BY <1>6, <1>15, <1>16 DEF r, s

(***************************************************************************)
(* Overwritten: what is left of a longer signature is behind the new one.  *)
(***************************************************************************)
LEMMA OverwrittenLaid ==
    ASSUME NEW old \in Seq(Nat), NEW der, NEW r, NEW s, NEW kr, NEW ks,
           Laid(der, r, s, kr, ks),
           NEW room \in Nat, Len(der) <= room, Len(old) <= room
    PROVE  LET new == der \o SubSeq(old, Len(der) + 1, Len(old))
           IN  Laid(new, r, s, kr, ks) /\ Len(new) <= room
<1> DEFINE rest == SubSeq(old, Len(der) + 1, Len(old))
           new == der \o rest
<1>1. der \in Seq(Nat) /\ kr \in Nat /\ ks \in Nat /\ Len(der) >= 6 + kr + ks
  BY BytesAssumption DEF Laid, DerSize
<1>2. /\ rest \in Seq(Nat)
      /\ Len(rest) = IF Len(der) + 1 <= Len(old) THEN Len(old) - Len(der) ELSE 0
  BY <1>1
<1> HIDE DEF rest
<1>3. /\ new \in Seq(Nat) /\ Len(new) = Len(der) + Len(rest)
      /\ \A t \in 1..Len(der) : new[t] = der[t]
  <2>1. der \in Seq(Nat) /\ rest \in Seq(Nat)
    BY <1>1, <1>2
  <2> QED
    BY <2>1, Joined
<1> HIDE DEF new
<1>4. Len(new) >= Len(der) /\ Len(new) <= room
  BY <1>1, <1>2, <1>3
<1>5. new[4] = kr /\ new[6 + kr] = ks
  <2>1. 4 \in 1..Len(der) /\ 6 + kr \in 1..Len(der)
    BY <1>1
  <2>2. der[4] = kr /\ der[6 + kr] = ks
    BY DEF Laid
  <2> QED
    BY <1>3, <2>1, <2>2
<1>6. \A t \in 1..kr : new[4 + t] = BytesOf(r, kr)[t]
  <2>1. \A t \in 1..kr : 4 + t \in 1..Len(der)
    BY <1>1
  <2>2. \A t \in 1..kr : der[4 + t] = BytesOf(r, kr)[t]
    BY DEF Laid
  <2> QED
    BY <1>3, <2>1, <2>2
<1>7. \A t \in 1..ks : new[6 + kr + t] = BytesOf(s, ks)[t]
  <2>1. \A t \in 1..ks : 6 + kr + t \in 1..Len(der)
    BY <1>1
  <2>2. \A t \in 1..ks : der[6 + kr + t] = BytesOf(s, ks)[t]
    BY DEF Laid
  <2> QED
    BY <1>3, <2>1, <2>2
<1>8. Laid(new, r, s, kr, ks)
  BY <1>1, <1>3, <1>4, <1>5, <1>6, <1>7 DEF Laid
<1> QED
  BY <1>4, <1>8 DEF new, rest

(***************************************************************************)
(* Compact, and the places that eos_is_canonical looks at.                 *)
(***************************************************************************)
LEMMA StartsAreNatural ==
    ASSUME NEW sig, NEW r, NEW s, NEW kr, NEW ks, Laid(sig, r, s, kr, ks)
    PROVE  /\ rStart(sig) = 4 + Skipped(kr) /\ rStart(sig) \in Nat
           /\ sStart(sig) = 6 + kr + Skipped(ks) /\ sStart(sig) \in Nat
<1>1. kr \in Nat /\ ks \in Nat /\ 3 + 1 = 4 /\ 4 + kr + 1 + 1 = 6 + kr
  BY BytesAssumption DEF Laid, DerSize
<1>2. rLength(sig) = kr
  BY <1>1 DEF Laid, rLength
<1>3. sLength(sig) = ks
  BY <1>1, <1>2 DEF Laid, sLength
<1> QED
  BY <1>1, <1>2, <1>3 DEF rStart, sStart, Skipped

LEMMA CompactIs ==
    ASSUME NEW sig, NEW r, NEW s, NEW kr, NEW ks, Laid(sig, r, s, kr, ks),
           NEW odd \in {0, 1}
    PROVE  LET c == Compact(sig, odd)
           IN  /\ c \in Seq(Nat) /\ Len(c) = 2 * SIZE + 1 /\ c[1] = 27 + odd
               /\ \A t \in 1..SIZE : /\ c[1 + t] = At(sig, rStart(sig) + t - 1)
                                     /\ c[SIZE + 1 + t] = At(sig, sStart(sig) + t - 1)
<1>1. \A t \in Int : At(sig, t) \in Nat
  <2>1. sig \in Seq(Nat)
    BY DEF Laid
  <2> QED
    BY <2>1 DEF At
<1> DEFINE first == [t \in 1..SIZE |-> At(sig, rStart(sig) + t - 1)]
           second == [t \in 1..SIZE |-> At(sig, sStart(sig) + t - 1)]
           c == <<27 + odd>> \o first \o second
<1>2. /\ first \in Seq(Nat) /\ Len(first) = SIZE
      /\ \A t \in 1..SIZE : first[t] = At(sig, rStart(sig) + t - 1)
  <2>1. rStart(sig) \in Nat
    BY StartsAreNatural
  <2>2. \A t \in 1..SIZE : At(sig, rStart(sig) + t - 1) \in Nat
    BY <1>1, <2>1
  <2>3. first \in [1..SIZE -> Nat]
    BY <2>2
  <2> QED
    BY <2>3, BytesAssumption
<1>3. /\ second \in Seq(Nat) /\ Len(second) = SIZE
      /\ \A t \in 1..SIZE : second[t] = At(sig, sStart(sig) + t - 1)
  <2>1. sStart(sig) \in Nat
    BY StartsAreNatural
  <2>2. \A t \in 1..SIZE : At(sig, sStart(sig) + t - 1) \in Nat
    BY <1>1, <2>1
  <2>3. second \in [1..SIZE -> Nat]
    BY <2>2
  <2> QED
    BY <2>3, BytesAssumption
<1>4. Compact(sig, odd) = c
  BY DEF Compact
<1> HIDE DEF first, second
<1> DEFINE a == <<27 + odd>> \o first
<1>5. /\ a \in Seq(Nat) /\ Len(a) = SIZE + 1 /\ a[1] = 27 + odd
      /\ \A t \in 1..SIZE : a[1 + t] = first[t]
  BY <1>2, BytesAssumption
<1> HIDE DEF a
<1> DEFINE d == a \o second
<1>6. /\ d \in Seq(Nat) /\ Len(d) = 2 * SIZE + 1
      /\ \A t \in 1..(SIZE + 1) : d[t] = a[t]
      /\ \A t \in 1..SIZE : d[SIZE + 1 + t] = second[t]
  <2>1. SIZE + 1 + SIZE = 2 * SIZE + 1
    BY BytesAssumption
  <2>2. /\ d \in Seq(Nat) /\ Len(d) = Len(a) + Len(second)
        /\ \A t \in 1..Len(a) : d[t] = a[t]
        /\ \A t \in 1..Len(second) : d[Len(a) + t] = second[t]
    <3>1. a \in Seq(Nat) /\ second \in Seq(Nat)
      BY <1>3, <1>5
    <3> QED
      BY <3>1, Joined
  <2> HIDE DEF d
  <2> QED
    BY <1>3, <1>5, <2>1, <2>2
<1>7. c = d
  BY DEF a
<1> HIDE DEF c, d
<1>8. ASSUME NEW t \in 1..SIZE
      PROVE  d[1 + t] = first[t]
  <2> DEFINE m == 1 + t
  <2>1. m \in 1..(SIZE + 1)
    BY BytesAssumption
  <2>2. a[m] = first[t]
    BY <1>5
  <2> HIDE DEF m
  <2>3. d[m] = a[m]
    BY <1>6, <2>1
  <2> QED
    BY <2>2, <2>3 DEF m
<1>9. d[1] = 27 + odd
  <2>1. 1 \in 1..(SIZE + 1)
    BY BytesAssumption
  <2> QED
    BY <1>5, <1>6, <2>1
<1> QED
  BY <1>2, <1>3, <1>4, <1>6, <1>7, <1>8, <1>9

(***************************************************************************)
(* What is tested is what is sent.                                         *)
(***************************************************************************)
LEMMA CanonicalIsSent ==
    ASSUME NEW sig, NEW r, NEW s, NEW kr, NEW ks, Laid(sig, r, s, kr, ks),
           NEW odd \in {0, 1}, eos_is_canonical(sig)
    PROVE  LooksCanonical(Compact(sig, odd))
<1> DEFINE c == Compact(sig, odd)
           a == rStart(sig)
           b == sStart(sig)
<1>1. \A t \in 1..SIZE : c[1 + t] = At(sig, a + t - 1) /\ c[SIZE + 1 + t] = At(sig, b + t - 1)
  BY CompactIs
<1>2. a \in Nat /\ b \in Nat
  BY StartsAreNatural
<1>3. \A start \in {a, b} :
         /\ ~TopBit(At(sig, start))
         /\ ~(At(sig, start) = 0 /\ ~TopBit(At(sig, start + 1)))
  BY DEF eos_is_canonical
<1> HIDE DEF a, b, c
<1>4. 1 \in 1..SIZE /\ 2 \in 1..SIZE
  BY BytesAssumption
<1>5. /\ a + 1 - 1 = a /\ b + 1 - 1 = b /\ a + 2 - 1 = a + 1 /\ b + 2 - 1 = b + 1
      /\ 1 + 1 = 2 /\ 1 + 2 = 3 /\ 2 + 1 = 3
      /\ SIZE + 1 + 1 = SIZE + 2 /\ SIZE + 1 + 2 = SIZE + 2 + 1
  BY <1>2, BytesAssumption
<1>6. c[2] = At(sig, a) /\ c[SIZE + 2] = At(sig, b)
  BY <1>1, <1>4, <1>5
<1>7. c[2 + 1] = At(sig, a + 1) /\ c[SIZE + 2 + 1] = At(sig, b + 1)
  BY <1>1, <1>4, <1>5
<1> QED
  BY <1>3, <1>6, <1>7 DEF LooksCanonical, c

(***************************************************************************)
(* Both numbers are sent in full, each from behind its sign byte.          *)
(***************************************************************************)
LEMMA CompactIsReference ==
    ASSUME NEW made \in Signatures, NEW sig, NEW kr, NEW ks,
           Laid(sig, made.r, made.s, kr, ks),
           FullLength(made.r), FullLength(made.s)
    PROVE  Compact(sig, made.odd) = Reference(made)
<1> DEFINE r == made.r
           s == made.s
           odd == made.odd
           c == Compact(sig, odd)
           a == rStart(sig)
           b == sStart(sig)
           br == BytesOf(r, SIZE)
           bs == BytesOf(s, SIZE)
<1>1. r \in Nat /\ s \in Nat /\ odd \in {0, 1}
  BY SignaturesAssumption
<1>2. Laid(sig, r, s, kr, ks) /\ FullLength(r) /\ FullLength(s)
  OBVIOUS
<1> HIDE DEF r, s, odd
<1>3. /\ c \in Seq(Nat) /\ Len(c) = 2 * SIZE + 1 /\ c[1] = 27 + odd
      /\ \A t \in 1..SIZE : c[1 + t] = At(sig, a + t - 1) /\ c[SIZE + 1 + t] = At(sig, b + t - 1)
  BY <1>1, <1>2, CompactIs
<1>4. a = 4 + Skipped(kr) /\ b = 6 + kr + Skipped(ks)
  BY <1>2, StartsAreNatural
<1>5. kr \in Nat /\ ks \in Nat
  BY <1>2, BytesAssumption DEF Laid, DerSize
<1>6. br \in Seq(Nat) /\ Len(br) = SIZE /\ bs \in Seq(Nat) /\ Len(bs) = SIZE
  BY <1>1, BytesAssumption, BytesOfType
<1> HIDE DEF a, b, c
<1>7. ASSUME NEW t \in 1..SIZE
      PROVE  At(sig, a + t - 1) = br[t]
  <2> DEFINE m == Skipped(kr) + t
  <2>1. m \in 1..kr /\ BytesOf(r, kr)[m] = br[t]
    BY <1>1, <1>2, SkippedBytes DEF Laid
  <2>2. a + t - 1 + 1 = 4 + m
    BY <1>4, <1>5, BytesAssumption DEF Skipped
  <2> HIDE DEF m, br
  <2>3. sig[4 + m] = BytesOf(r, kr)[m] /\ 4 + m \in DOMAIN sig
    <3>1. \A q \in 1..kr : sig[4 + q] = BytesOf(r, kr)[q]
      BY <1>2 DEF Laid
    <3>2. sig \in Seq(Nat) /\ Len(sig) >= 6 + kr + ks
      BY <1>2 DEF Laid
    <3>3. DOMAIN sig = 1..Len(sig) /\ Len(sig) \in Nat
      BY <3>2
    <3>4. 4 + m \in DOMAIN sig
      BY <1>5, <2>1, <3>2, <3>3
    <3> QED
      BY <2>1, <3>1, <3>4
  <2> QED
    BY <2>1, <2>2, <2>3 DEF At
<1>8. ASSUME NEW t \in 1..SIZE
      PROVE  At(sig, b + t - 1) = bs[t]
  <2> DEFINE m == Skipped(ks) + t
  <2>1. m \in 1..ks /\ BytesOf(s, ks)[m] = bs[t]
    BY <1>1, <1>2, SkippedBytes DEF Laid
  <2>2. b + t - 1 + 1 = 6 + kr + m
    BY <1>4, <1>5, BytesAssumption DEF Skipped
  <2> HIDE DEF m, bs
  <2>3. sig[6 + kr + m] = BytesOf(s, ks)[m] /\ 6 + kr + m \in DOMAIN sig
    <3>1. \A q \in 1..ks : sig[6 + kr + q] = BytesOf(s, ks)[q]
      BY <1>2 DEF Laid
    <3>2. sig \in Seq(Nat) /\ Len(sig) >= 6 + kr + ks
      BY <1>2 DEF Laid
    <3>3. DOMAIN sig = 1..Len(sig) /\ Len(sig) \in Nat
      BY <3>2
    <3>4. 6 + kr + m \in DOMAIN sig
      BY <1>5, <2>1, <3>2, <3>3
    <3> QED
      BY <2>1, <3>1, <3>4
  <2> QED
    BY <2>1, <2>2, <2>3 DEF At
<1> DEFINE d == <<27 + odd>> \o br \o bs
<1>9. Reference(made) = d
  BY DEF Reference, r, s, odd
<1> HIDE DEF br, bs
<1> DEFINE e == <<27 + odd>> \o br
<1>10. /\ e \in Seq(Nat) /\ Len(e) = SIZE + 1 /\ e[1] = 27 + odd
       /\ \A t \in 1..SIZE : e[1 + t] = br[t]
  BY <1>1, <1>6, BytesAssumption
<1> HIDE DEF e
<1> DEFINE f == e \o bs
<1>11. /\ f \in Seq(Nat) /\ Len(f) = 2 * SIZE + 1
       /\ \A t \in 1..(SIZE + 1) : f[t] = e[t]
       /\ \A t \in 1..SIZE : f[SIZE + 1 + t] = bs[t]
  <2>1. SIZE + 1 + SIZE = 2 * SIZE + 1
    BY BytesAssumption
  <2>2. /\ f \in Seq(Nat) /\ Len(f) = Len(e) + Len(bs)
        /\ \A t \in 1..Len(e) : f[t] = e[t]
        /\ \A t \in 1..Len(bs) : f[Len(e) + t] = bs[t]
    <3>1. e \in Seq(Nat) /\ bs \in Seq(Nat)
      BY <1>6, <1>10
    <3> QED
      BY <3>1, Joined
  <2> HIDE DEF f
  <2> QED
    BY <1>6, <1>10, <2>1, <2>2
<1>12. d = f
  BY DEF e
<1> HIDE DEF d, f
<1>13. ASSUME NEW q \in 1..(2 * SIZE + 1)
       PROVE  c[q] = f[q]
  <2>1. CASE q = 1
    BY <1>3, <1>10, <1>11, <2>1, BytesAssumption
  <2>2. CASE q \in 2..(SIZE + 1)
    <3> DEFINE t == q - 1
    <3>1. t \in 1..SIZE /\ 1 + t = q /\ q \in 1..(SIZE + 1)
      BY <2>2, BytesAssumption
    <3> HIDE DEF t
    <3>2. c[1 + t] = br[t]
      BY <1>3, <1>7, <3>1
    <3>3. f[q] = e[q] /\ e[1 + t] = br[t]
      BY <1>10, <1>11, <3>1
    <3> QED
      BY <3>1, <3>2, <3>3
  <2>3. CASE q > SIZE + 1
    <3> DEFINE t == q - (SIZE + 1)
    <3>1. t \in 1..SIZE /\ SIZE + 1 + t = q
      BY <2>3, BytesAssumption
    <3> HIDE DEF t
    <3>2. c[SIZE + 1 + t] = bs[t] /\ f[SIZE + 1 + t] = bs[t]
      BY <1>3, <1>8, <1>11, <3>1
    <3> QED
      BY <3>1, <3>2
  <2> QED
    BY <2>1, <2>2, <2>3, BytesAssumption
<1>14. c = f
  BY <1>3, <1>11, <1>13
<1> QED
  BY <1>9, <1>12, <1>14 DEF c, odd
-----------------------------------------------------------------------------
(***************************************************************************)
(* The inductive invariant: the buffer begins with the signature made      *)
(* last, whatever a longer one has left behind it, and an answer is what   *)
(* Compact made of a buffer that passed the test.                          *)
(***************************************************************************)
Holds(sig, made) ==
    \E kr, ks : Laid(sig, made.r, made.s, kr, ks)

SignInv ==
    /\ SignTypeOK
    /\ signature # NoSignature => Holds(signature, nonce) /\ info = nonce.odd
    /\ answer # Pending =>
         /\ signature # NoSignature
         /\ eos_is_canonical(signature)
         /\ answer = Compact(signature, info)

LEMMA SignedKeeps ==
    ASSUME SignInv, NEW chosen \in Signatures, Signed(chosen),
           answer = Pending, answer' = answer
    PROVE  SignInv'
<1> DEFINE der == Der(chosen)
           new == der \o SubSeq(signature, Len(der) + 1, Len(signature))
           room == 2 * (SIZE + 1) + 6
<1>1. signature \in Seq(Nat) /\ Len(signature) <= room /\ room \in Nat
  BY BytesAssumption DEF SignInv, SignTypeOK
<1>2. Len(der) <= room
  BY DerLaid
<1>3. PICK kr : \E ks : Laid(der, chosen.r, chosen.s, kr, ks)
  BY DerLaid
<1>4. PICK ks : Laid(der, chosen.r, chosen.s, kr, ks)
  BY <1>3
<1> HIDE DEF der, room
<1>5. Laid(new, chosen.r, chosen.s, kr, ks) /\ Len(new) <= room
  BY <1>1, <1>2, <1>4, OverwrittenLaid
<1>6. signature' = new /\ nonce' = chosen /\ info' = chosen.odd
  BY DEF Signed, Overwritten, der
<1> HIDE DEF new
<1>7. chosen.odd \in {0, 1}
  BY SignaturesAssumption
<1>8. new \in Seq(Nat)
  BY <1>5 DEF Laid
<1>9. SignTypeOK'
  BY <1>5, <1>6, <1>7, <1>8 DEF SignInv, SignTypeOK, room
<1>10. Holds(signature', nonce') /\ info' = nonce'.odd
  BY <1>5, <1>6 DEF Holds
<1> QED
  BY <1>9, <1>10 DEF SignInv

LEMMA InitSigns == SignInit => SignInv
<1> SUFFICES ASSUME SignInit
             PROVE  SignInv
  OBVIOUS
<1>1. SignTypeOK
  BY BytesAssumption DEF SignInit, SignTypeOK, NoSignature, Pending
<1> QED
  BY <1>1 DEF SignInit, SignInv, NoSignature, Pending

LEMMA NextSigns == SignInv /\ [SignNext]_signVars => SignInv'
<1> SUFFICES ASSUME SignInv, [SignNext]_signVars
             PROVE  SignInv'
  OBVIOUS
<1>1. CASE Sign
  <2>1. PICK chosen \in Signatures : Signed(chosen)
    BY <1>1 DEF Sign
  <2>2. answer = Pending /\ answer' = answer
    BY <1>1 DEF Sign, SignInv
  <2> QED
    BY <2>1, <2>2, SignedKeeps
<1>2. CASE SignAgain
  <2>1. PICK chosen \in Signatures : Signed(chosen)
    BY <1>2 DEF SignAgain
  <2>2. answer = Pending /\ answer' = answer
    BY <1>2 DEF SignAgain
  <2> QED
    BY <2>1, <2>2, SignedKeeps
<1>3. CASE Reply
  <2>1. /\ signature # NoSignature /\ eos_is_canonical(signature)
        /\ answer' = Compact(signature, info)
        /\ nonce' = nonce /\ signature' = signature /\ info' = info
    BY <1>3 DEF Reply
  <2>2. PICK kr : \E ks : Laid(signature, nonce.r, nonce.s, kr, ks)
    BY <2>1 DEF SignInv, Holds
  <2>3. PICK ks : Laid(signature, nonce.r, nonce.s, kr, ks)
    BY <2>2
  <2>4. info \in {0, 1}
    BY DEF SignInv, SignTypeOK
  <2>5. answer' \in Seq(Nat) /\ Len(answer') = 2 * SIZE + 1
    BY <2>1, <2>3, <2>4, CompactIs
  <2>6. SignTypeOK'
    BY <2>1, <2>5 DEF SignInv, SignTypeOK
  <2>7. eos_is_canonical(signature')
    BY <2>1
  <2>8. answer' = Compact(signature', info')
    BY <2>1
  <2>9. Holds(signature', nonce') /\ info' = nonce'.odd
    BY <2>1 DEF SignInv
  <2> QED
    BY <2>1, <2>6, <2>7, <2>8, <2>9 DEF SignInv
<1>4. CASE NextRequest
  <2>1. signature' = <<>> /\ info' = 0 /\ answer' = <<>> /\ nonce' = nonce
    BY <1>4 DEF NextRequest, NoSignature, Pending
  <2>2. SignTypeOK'
    BY <2>1, BytesAssumption DEF SignInv, SignTypeOK
  <2> QED
    BY <2>1, <2>2 DEF SignInv, NoSignature, Pending
<1>5. CASE UNCHANGED signVars
  <2>1. nonce' = nonce /\ signature' = signature /\ info' = info /\ answer' = answer
    BY <1>5 DEF signVars
  <2>2. SignTypeOK'
    BY <2>1 DEF SignInv, SignTypeOK
  <2>3. eos_is_canonical(signature') <=> eos_is_canonical(signature)
    BY <2>1
  <2> QED
    BY <2>1, <2>2, <2>3 DEF SignInv
<1> QED
  BY <1>1, <1>2, <1>3, <1>4, <1>5 DEF SignNext

LEMMA SignInvariant == SignSpec => []SignInv
<1> QED
  BY InitSigns, NextSigns, PTL DEF SignSpec

(***************************************************************************)
(* The buffer of 164 bytes never holds more than one signature of the      *)
(* largest size, however many attempts the loop of set_result_sign_tx      *)
(* takes, and an answer has the length EOSIO has for it.                   *)
(***************************************************************************)
THEOREM SignTypeCorrect == SignSpec => []SignTypeOK
<1>1. SignInv => SignTypeOK
  BY DEF SignInv
<1> QED
  BY <1>1, SignInvariant, PTL

(***************************************************************************)
(* What eos_signature_to_encoded_base58 sends satisfies, byte for byte,    *)
(* what eos_is_canonical has tested: the two take the encoding apart in    *)
(* the same way, whatever the lengths of r and s.                          *)
(***************************************************************************)
THEOREM TestedIsSent == SignSpec => []AnswerLooksCanonical
<1>1. SignInv => AnswerLooksCanonical
  <2> SUFFICES ASSUME SignInv, answer # Pending
               PROVE  LooksCanonical(answer)
    BY DEF AnswerLooksCanonical
  <2>1. PICK kr : \E ks : Laid(signature, nonce.r, nonce.s, kr, ks)
    BY DEF SignInv, Holds
  <2>2. PICK ks : Laid(signature, nonce.r, nonce.s, kr, ks)
    BY <2>1
  <2>3. info \in {0, 1} /\ eos_is_canonical(signature) /\ answer = Compact(signature, info)
    BY DEF SignInv, SignTypeOK
  <2> QED
    BY <2>2, <2>3, CanonicalIsSent
<1> QED
  BY <1>1, SignInvariant, PTL

(***************************************************************************)
(* What the host gets is the signature that was made last, r and s in      *)
(* their places, whichever of them has a zero in front and however many    *)
(* longer signatures the buffer has held before.                           *)
(***************************************************************************)
THEOREM LastSignatureIsSent == SignSpec => []AnswerIsTheSignature
<1>1. SignInv => AnswerIsTheSignature
  <2> SUFFICES ASSUME SignInv, answer # Pending,
                      FullLength(nonce.r), FullLength(nonce.s)
               PROVE  answer = Reference(nonce)
    BY DEF AnswerIsTheSignature
  <2>1. PICK kr : \E ks : Laid(signature, nonce.r, nonce.s, kr, ks)
    BY DEF SignInv, Holds
  <2>2. PICK ks : Laid(signature, nonce.r, nonce.s, kr, ks)
    BY <2>1
  <2>3. nonce \in Signatures /\ answer = Compact(signature, nonce.odd)
    BY DEF SignInv, SignTypeOK
  <2> QED
    BY <2>2, <2>3, CompactIsReference
<1> QED
  BY <1>1, SignInvariant, PTL
=============================================================================
