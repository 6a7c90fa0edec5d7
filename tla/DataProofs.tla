----------------------------- MODULE DataProofs -----------------------------
(***************************************************************************)
(* Induction for what the modules define by recursion, from the            *)
(* well-foundedness of the natural numbers: the least counterexample of a  *)
(* claim.  Then the functions those definitions are: powers of a number and *)
(* the sequences of FlattenSeq.                                            *)
(***************************************************************************)
EXTENDS Powers, SequencesExt, WellFoundedInduction, TLAPS

(***************************************************************************)
(* Every set of natural numbers that is not empty has a least element.     *)
(***************************************************************************)
LEMMA LeastNatural ==
    ASSUME NEW S, S \subseteq Nat, S # {}
    PROVE  \E m \in S : \A n \in S : m <= n
<1> DEFINE Less == OpToRel(<, Nat)
<1>1. IsWellFoundedOn(Less, Nat)
  BY NatLessThanWellFounded
<1>2. \A m, n \in Nat : <<m, n>> \in Less <=> m < n
  BY DEF OpToRel
<1> HIDE DEF Less
<1>3. \E m \in S : \A n \in S : ~ (<<n, m>> \in Less)
  BY <1>1, WFMin
<1>4. PICK m \in S : \A n \in S : ~ (<<n, m>> \in Less)
  BY <1>3
<1>5. ASSUME NEW n \in S
      PROVE  m <= n
  <2>1. m \in Nat /\ n \in Nat /\ ~ (n < m)
    BY <1>2, <1>4
  <2> QED
    BY <2>1
<1> QED
  BY <1>4, <1>5

(***************************************************************************)
(* Induction over a set of natural numbers.                                *)
(***************************************************************************)
LEMMA SetInduction ==
    ASSUME NEW S, 0 \in S, \A n \in Nat : n \in S => n + 1 \in S
    PROVE  Nat \subseteq S
<1> SUFFICES ASSUME Nat \ S # {}
             PROVE  FALSE
  OBVIOUS
<1>1. PICK m \in Nat \ S : \A n \in Nat \ S : m <= n
  BY LeastNatural
<1>2. m # 0
  BY <1>1
<1>3. m - 1 \in Nat /\ m - 1 \in S
  BY <1>1, <1>2
<1> QED
  BY <1>1, <1>3

-----------------------------------------------------------------------------
(***************************************************************************)
(* A function defined by recursion on 0..n exists: z is its first value,   *)
(* and step makes each value from the one before.                          *)
(***************************************************************************)
Stepping(step, n, T) == step \in [(1..n) \X T -> T]

Recursive(f, z, step, n, T) ==
    f \in [0..n -> T] /\ f[0] = z /\ \A k \in 1..n : f[k] = step[<<k, f[k - 1]>>]

LEMMA RecursionExists ==
    ASSUME NEW T, NEW z \in T, NEW n \in Nat, NEW step, Stepping(step, n, T)
    PROVE  \E f : Recursive(f, z, step, n, T)
<1>0. step \in [(1..n) \X T -> T]
  BY DEF Stepping
<1> DEFINE Good(f, m) == /\ f \in [0..m -> T] /\ f[0] = z
                         /\ \A k \in 1..m : f[k] = step[<<k, f[k - 1]>>]
           S == {m \in Nat : m <= n => \E f : Good(f, m)}
<1>1. 0 \in S
  <2> DEFINE f == [k \in 0..0 |-> z]
  <2>1. Good(f, 0)
    OBVIOUS
  <2> QED
    BY <2>1
<1>2. ASSUME NEW m \in Nat, m \in S
      PROVE  m + 1 \in S
  <2> SUFFICES ASSUME m + 1 <= n
               PROVE  \E f : Good(f, m + 1)
    OBVIOUS
  <2>1. m <= n /\ m + 1 \in 1..n
    OBVIOUS
  <2>2. PICK f : Good(f, m)
    BY <1>2, <2>1
  <2> DEFINE p == m + 1
             last == step[<<p, f[m]>>]
  <2>3. last \in T
    BY <1>0, <2>1, <2>2
  <2> HIDE DEF last
  <2> DEFINE g == [k \in 0..p |-> IF k = p THEN last ELSE f[k]]
  <2>4. p = m + 1 /\ p - 1 = m /\ p \in Nat /\ p # 0
    OBVIOUS
  <2> HIDE DEF p
  <2>5. /\ g \in [0..p -> T] /\ g[p] = last
        /\ \A k \in 0..m : g[k] = f[k]
    BY <2>2, <2>3, <2>4
  <2> HIDE DEF g
  <2>6. ASSUME NEW k \in 1..p
        PROVE  g[k] = step[<<k, g[k - 1]>>]
    <3>1. CASE k = p
      <4>1. g[k - 1] = f[m]
        BY <2>4, <2>5, <3>1
      <4> QED
        BY <2>5, <3>1, <4>1 DEF last
    <3>2. CASE k # p
      <4>1. k \in 1..m /\ k - 1 \in 0..m /\ k \in 0..m
        BY <2>4, <3>2
      <4>2. f[k] = step[<<k, f[k - 1]>>]
        BY <2>2, <4>1
      <4> QED
        BY <2>5, <4>1, <4>2
    <3> QED
      BY <3>1, <3>2
  <2>7. g[0] = z
    BY <2>2, <2>5
  <2>8. Good(g, p)
    BY <2>5, <2>6, <2>7
  <2> QED
    BY <2>8 DEF p
<1> HIDE DEF S
<1>3. Nat \subseteq S
  BY <1>1, <1>2, SetInduction
<1>4. n \in S
  BY <1>3
<1>5. n <= n => \E f : Good(f, n)
  BY <1>4 DEF S
<1>6. n <= n
  OBVIOUS
<1> QED
  BY <1>5, <1>6 DEF Recursive

-----------------------------------------------------------------------------
(***************************************************************************)
(* Powers.                                                                 *)
(***************************************************************************)
Powered(f, b, n) ==
    f = [k \in 0..n |-> IF k = 0 THEN 1 ELSE b * f[k - 1]]

LEMMA PowerIs ==
    ASSUME NEW b \in Nat, NEW n \in Nat
    PROVE  \E f \in [0..n -> Nat] :
              Power(b, n) = f[n] /\ f[0] = 1 /\ \A k \in 1..n : f[k] = b * f[k - 1]
<1> DEFINE step == [p \in (1..n) \X Nat |-> b * p[2]]
<1>1. \A k \in 1..n, x \in Nat : step[<<k, x>>] = b * x
  OBVIOUS
<1>2. Stepping(step, n, Nat)
  BY DEF Stepping
<1> HIDE DEF step
<1>3. PICK f : Recursive(f, 1, step, n, Nat)
  BY <1>2, RecursionExists
<1>4. ASSUME NEW k \in 1..n PROVE f[k] = b * f[k - 1]
  <2>1. f[k - 1] \in Nat
    BY <1>3 DEF Recursive
  <2> QED
    BY <1>1, <1>3, <2>1 DEF Recursive
<1>5. Powered(f, b, n)
  BY <1>3, <1>4 DEF Powered, Recursive
<1> DEFINE g == CHOOSE g : Powered(g, b, n)
<1>6. Powered(g, b, n)
  BY <1>5
<1>7. Power(b, n) = g[n]
  BY DEF Power, Powered
<1> HIDE DEF g
<1>8. g[0] = 1 /\ \A k \in 1..n : g[k] = b * g[k - 1]
  BY <1>6 DEF Powered
<1>9. g \in [0..n -> Nat]
  <2> DEFINE S == {k \in Nat : k <= n => g[k] \in Nat}
  <2>1. 0 \in S
    BY <1>8
  <2>2. ASSUME NEW k \in Nat, k \in S
        PROVE  k + 1 \in S
    BY <1>8, <2>2
  <2> HIDE DEF S
  <2>3. Nat \subseteq S
    BY <2>1, <2>2, SetInduction
  <2>4. \A k \in 0..n : g[k] \in Nat
    BY <2>3 DEF S
  <2> QED
    BY <1>6, <2>4 DEF Powered
<1> QED
  BY <1>7, <1>8, <1>9

LEMMA PowerNext ==
    ASSUME NEW b \in Nat, NEW n \in Nat
    PROVE  Power(b, n) \in Nat /\ Power(b, 0) = 1 /\ Power(b, n + 1) = b * Power(b, n)
<1>1. PICK f \in [0..n -> Nat] :
         Power(b, n) = f[n] /\ f[0] = 1 /\ \A k \in 1..n : f[k] = b * f[k - 1]
  BY PowerIs
<1> DEFINE o == n + 1
<1>0. o \in Nat /\ o = n + 1 /\ o - 1 = n
  OBVIOUS
<1> HIDE DEF o
<1>2. PICK g \in [0..o -> Nat] :
         Power(b, o) = g[o] /\ g[0] = 1 /\ \A k \in 1..o : g[k] = b * g[k - 1]
  BY <1>0, PowerIs
<1>3. PICK h \in [0..0 -> Nat] :
         Power(b, 0) = h[0] /\ h[0] = 1 /\ \A k \in 1..0 : h[k] = b * h[k - 1]
  BY PowerIs
<1> DEFINE S == {k \in Nat : k <= n => f[k] = g[k]}
<1>4. 0 \in S
  BY <1>1, <1>2
<1>5. ASSUME NEW k \in Nat, k \in S
      PROVE  k + 1 \in S
  <2> SUFFICES ASSUME k + 1 <= n PROVE f[k + 1] = g[k + 1]
    OBVIOUS
  <2> DEFINE m == k + 1
  <2>1. m \in 1..n /\ m \in 1..o /\ m - 1 = k
    BY <1>0
  <2>2. f[k] = g[k]
    BY <1>5
  <2> HIDE DEF m
  <2>3. f[m] = b * f[k] /\ g[m] = b * g[k]
    BY <1>1, <1>2, <2>1
  <2> QED
    BY <2>2, <2>3 DEF m
<1> HIDE DEF S
<1>6. Nat \subseteq S
  BY <1>4, <1>5, SetInduction
<1>7. f[n] = g[n]
  BY <1>6 DEF S
<1>8. o \in 1..o
  BY <1>0
<1>9. g[o] = b * g[n]
  BY <1>0, <1>2, <1>8
<1> QED
  BY <1>1, <1>2, <1>3, <1>7, <1>9 DEF o

LEMMA PowerPositive ==
    ASSUME NEW b \in Nat \ {0}, NEW n \in Nat
    PROVE  Power(b, n) \in Nat \ {0}
<1> DEFINE S == {k \in Nat : Power(b, k) \in Nat \ {0}}
<1>1. 0 \in S
  BY PowerNext
<1>2. ASSUME NEW k \in Nat, k \in S
      PROVE  k + 1 \in S
  <2> DEFINE p == Power(b, k)
             q == Power(b, k + 1)
  <2>1. p \in Nat \ {0} /\ q = b * p /\ q \in Nat
    BY <1>2, PowerNext
  <2> HIDE DEF p, q
  <2>2. q # 0
    BY <2>1
  <2> QED
    BY <2>1, <2>2 DEF q
<1> HIDE DEF S
<1>3. Nat \subseteq S
  BY <1>1, <1>2, SetInduction
<1>4. n \in S
  BY <1>3
<1> QED
  BY <1>4 DEF S

LEMMA PowerMonotone ==
    ASSUME NEW b \in Nat \ {0}, NEW m \in Nat, NEW n \in Nat, m <= n
    PROVE  Power(b, m) <= Power(b, n)
<1> DEFINE S == {k \in Nat : Power(b, m) <= Power(b, m + k)}
<1>1. 0 \in S
  <2>1. m + 0 = m /\ Power(b, m) \in Nat
    BY PowerNext
  <2> QED
    BY <2>1
<1>2. ASSUME NEW k \in Nat, k \in S
      PROVE  k + 1 \in S
  <2> DEFINE p == Power(b, m)
             q == Power(b, m + k)
             r == Power(b, m + k + 1)
  <2>1. p \in Nat /\ q \in Nat /\ r = b * q /\ m + (k + 1) = m + k + 1 /\ p <= q
    <3>1. p \in Nat
      BY PowerNext
    <3>2. m + k \in Nat /\ m + (k + 1) = m + k + 1
      OBVIOUS
    <3>3. q \in Nat /\ r = b * q
      BY <3>2, PowerNext
    <3> QED
      BY <1>2, <3>1, <3>2, <3>3
  <2>2. k + 1 \in S <=> p <= r
    BY <2>1
  <2> HIDE DEF p, q, r, S
  <2>3. q <= b * q /\ b * q \in Nat
    BY <2>1
  <2> QED
    BY <2>1, <2>2, <2>3
<1> HIDE DEF S
<1>3. Nat \subseteq S
  BY <1>1, <1>2, SetInduction
<1>4. n - m \in S /\ m + (n - m) = n
  BY <1>3
<1> QED
  BY <1>4 DEF S

LEMMA PowerSum ==
    ASSUME NEW b \in Nat, NEW m \in Nat, NEW n \in Nat
    PROVE  Power(b, m + n) = Power(b, m) * Power(b, n)
<1> DEFINE S == {k \in Nat : Power(b, m + k) = Power(b, m) * Power(b, k)}
<1>1. 0 \in S
  <2> DEFINE p == Power(b, m)
             o == Power(b, 0)
  <2>1. m + 0 = m
    OBVIOUS
  <2>2. p \in Nat
    BY PowerNext
  <2>3. o = 1
    BY PowerNext
  <2>4. 0 \in S <=> p = p * o
    BY <2>1
  <2> HIDE DEF p, o, S
  <2> QED
    BY <2>2, <2>3, <2>4
<1>2. ASSUME NEW k \in Nat, k \in S
      PROVE  k + 1 \in S
  <2> DEFINE p == Power(b, m)
             q == Power(b, k)
             r == Power(b, m + k)
             u == Power(b, k + 1)
             v == Power(b, m + (k + 1))
  <2>1. p \in Nat /\ q \in Nat /\ r \in Nat
    <3> HIDE DEF S
    <3>1. p \in Nat
      BY PowerNext
    <3>2. q \in Nat
      BY PowerNext
    <3>3. m + k \in Nat
      OBVIOUS
    <3>4. r \in Nat
      BY <3>3, PowerNext
    <3> QED
      BY <3>1, <3>2, <3>4
  <2>2. u = b * q
    BY PowerNext
  <2>3. v = b * r
    <3>1. m + (k + 1) = (m + k) + 1 /\ m + k \in Nat
      OBVIOUS
    <3> QED
      BY <3>1, PowerNext
  <2>4. r = p * q
    BY <1>2
  <2>5. k + 1 \in S <=> v = p * u
    OBVIOUS
  <2> HIDE DEF p, q, r, u, v, S
  <2>6. b * (p * q) = p * (b * q)
    BY <2>1
  <2> QED
    BY <2>2, <2>3, <2>4, <2>5, <2>6
<1> HIDE DEF S
<1>3. Nat \subseteq S
  BY <1>1, <1>2, SetInduction
<1>4. n \in S
  BY <1>3
<1> QED
  BY <1>4 DEF S

(***************************************************************************)
(* Multiplication, and division with a remainder.                          *)
(***************************************************************************)
LEMMA Multiplied ==
    ASSUME NEW a \in Nat, NEW b \in Nat, NEW c \in Nat
    PROVE  a * b \in Nat /\ a * b + c \in Nat /\ c + a * b \in Nat
OBVIOUS

LEMMA Divided ==
    ASSUME NEW a \in Nat, NEW b \in Nat \ {0}
    PROVE  a \div b \in Nat /\ a % b \in 0..(b - 1) /\ a = (a \div b) * b + (a % b)
OBVIOUS

-----------------------------------------------------------------------------
(***************************************************************************)
(* Sequences of a larger set, and two, one behind the other.               *)
(***************************************************************************)
LEMMA Widened ==
    ASSUME NEW S, NEW T, S \subseteq T, NEW s \in Seq(S)
    PROVE  s \in Seq(T) /\ Len(s) \in Nat
OBVIOUS

LEMMA Joined ==
    ASSUME NEW T, NEW a \in Seq(T), NEW b \in Seq(T)
    PROVE  /\ a \o b \in Seq(T) /\ Len(a \o b) = Len(a) + Len(b)
           /\ \A i \in 1..Len(a) : (a \o b)[i] = a[i]
           /\ \A i \in 1..Len(b) : (a \o b)[Len(a) + i] = b[i]
OBVIOUS

LEMMA PowerProduct ==
    ASSUME NEW b \in Nat, NEW m \in Nat, NEW n \in Nat
    PROVE  Power(Power(b, m), n) = Power(b, m * n)
<1> DEFINE a == Power(b, m)
           S == {k \in Nat : Power(a, k) = Power(b, m * k)}
<1>0. a \in Nat
  BY PowerNext
<1> HIDE DEF a
<1>1. 0 \in S
  <2>1. Power(a, 0) = 1
    BY <1>0, PowerNext
  <2>2. Power(b, 0) = 1
    BY PowerNext
  <2>3. m * 0 = 0
    OBVIOUS
  <2> QED
    BY <2>1, <2>2, <2>3
<1>2. ASSUME NEW k \in Nat, k \in S
      PROVE  k + 1 \in S
  <2> DEFINE h == m * k
  <2>1. h \in Nat /\ m * (k + 1) = h + m
    OBVIOUS
  <2>2. Power(a, k) = Power(b, h)
    BY <1>2
  <2>3. k + 1 \in S <=> Power(a, k + 1) = Power(b, h + m)
    BY <2>1
  <2> HIDE DEF h, S
  <2>4. Power(a, k + 1) = a * Power(a, k)
    BY <1>0, PowerNext
  <2>5. Power(b, h + m) = Power(b, h) * Power(b, m)
    BY <2>1, PowerSum
  <2>6. Power(b, h) \in Nat
    BY <2>1, PowerNext
  <2>7. Power(b, h) * a = a * Power(b, h)
    BY <1>0, <2>6
  <2> QED
    BY <2>2, <2>3, <2>4, <2>5, <2>7 DEF a
<1> HIDE DEF S
<1>3. Nat \subseteq S
  BY <1>1, <1>2, SetInduction
<1>4. n \in S
  BY <1>3
<1> QED
  BY <1>4 DEF S, a

LEMMA PowerGrows ==
    ASSUME NEW a \in Nat, NEW b \in Nat, a <= b, NEW n \in Nat
    PROVE  Power(a, n) <= Power(b, n)
<1> DEFINE S == {k \in Nat : Power(a, k) <= Power(b, k)}
<1>1. 0 \in S
  <2>1. Power(a, 0) = 1
    BY PowerNext
  <2>2. Power(b, 0) = 1
    BY PowerNext
  <2> QED
    BY <2>1, <2>2
<1>2. ASSUME NEW k \in Nat, k \in S
      PROVE  k + 1 \in S
  <2> DEFINE p == Power(a, k)
             q == Power(b, k)
  <2>1. p <= q
    BY <1>2
  <2> HIDE DEF S
  <2>2. p \in Nat /\ Power(a, k + 1) = a * p
    BY PowerNext
  <2>3. q \in Nat /\ Power(b, k + 1) = b * q
    BY PowerNext
  <2>4. a * p <= b * q => k + 1 \in S
    BY <2>2, <2>3 DEF S
  <2> HIDE DEF p, q
  <2>5. a * p <= b * p
    BY <2>2
  <2>6. b * p <= b * q
    BY <2>1, <2>2, <2>3
  <2>7. a * p \in Nat /\ b * p \in Nat /\ b * q \in Nat
    BY <2>2, <2>3
  <2> QED
    BY <2>4, <2>5, <2>6, <2>7
<1> HIDE DEF S
<1>3. Nat \subseteq S
  BY <1>1, <1>2, SetInduction
<1>4. n \in S
  BY <1>3
<1> QED
  BY <1>4 DEF S

LEMMA PowerGrowsStrictly ==
    ASSUME NEW a \in Nat, NEW b \in Nat, a < b, NEW n \in Nat \ {0}
    PROVE  Power(a, n) < Power(b, n)
<1> DEFINE k == n - 1
           p == Power(a, k)
           q == Power(b, k)
<1>1. k \in Nat /\ k + 1 = n
  OBVIOUS
<1> HIDE DEF k
<1>2. p \in Nat /\ Power(a, k + 1) = a * p
  BY <1>1, PowerNext
<1>3. q \in Nat /\ Power(b, k + 1) = b * q
  BY <1>1, PowerNext
<1>4. q # 0
  <2>1. b \in Nat \ {0}
    OBVIOUS
  <2> QED
    BY <1>1, <2>1, PowerPositive
<1>5. p <= q
  BY <1>1, PowerGrows
<1>6. Power(a, n) = a * p /\ Power(b, n) = b * q
  BY <1>1, <1>2, <1>3
<1> HIDE DEF p, q
<1>7. a * p <= a * q
  BY <1>2, <1>3, <1>5
<1>8. a * q < b * q
  BY <1>3, <1>4
<1>9. a * p \in Nat /\ a * q \in Nat /\ b * q \in Nat
  BY <1>2, <1>3
<1> QED
  BY <1>6, <1>7, <1>8, <1>9

(***************************************************************************)
(* Digits of one base hold the numbers of another, if m of them do to the  *)
(* numbers of k.                                                           *)
(***************************************************************************)
LEMMA EnoughDigits ==
    ASSUME NEW b \in Nat, NEW c \in Nat,
           NEW k \in Nat \ {0}, NEW m \in Nat, Power(b, k) <= Power(c, m),
           c > 0, NEW n \in Nat, NEW size \in Nat, m * n <= k * size
    PROVE  Power(b, n) <= Power(c, size)
<1> DEFINE x == Power(c, size)
           y == Power(b, n)
<1>1. x \in Nat /\ y \in Nat
  <2>1. x \in Nat
    BY PowerNext
  <2>2. y \in Nat
    BY PowerNext
  <2> QED
    BY <2>1, <2>2
<1>2. m * n \in Nat /\ k * size \in Nat /\ size * k = k * size /\ n * k = k * n
  OBVIOUS
<1>3. Power(x, k) = Power(c, k * size)
  BY <1>2, PowerProduct
<1>4. Power(y, k) = Power(Power(b, k), n)
  <2>1. Power(y, k) = Power(b, n * k)
    BY PowerProduct
  <2>2. Power(Power(b, k), n) = Power(b, k * n)
    BY PowerProduct
  <2> QED
    BY <1>2, <2>1, <2>2
<1>5. Power(Power(b, k), n) <= Power(Power(c, m), n)
  <2>1. Power(b, k) \in Nat
    BY PowerNext
  <2>2. Power(c, m) \in Nat
    BY PowerNext
  <2> QED
    BY <2>1, <2>2, PowerGrows
<1>6. Power(Power(c, m), n) = Power(c, m * n)
  BY PowerProduct
<1>7. Power(c, m * n) <= Power(c, k * size)
  BY <1>2, PowerMonotone
<1> SUFFICES ASSUME x < y
             PROVE  FALSE
  BY <1>1
<1>8. Power(x, k) < Power(y, k)
  BY <1>1, PowerGrowsStrictly
<1> DEFINE p == Power(x, k)
           q == Power(y, k)
           r == Power(c, m * n)
<1>9. p \in Nat
  BY <1>1, PowerNext
<1>10. q \in Nat
  BY <1>1, PowerNext
<1>11. r \in Nat
  BY <1>2, PowerNext
<1>12. p < q /\ q <= r /\ r <= p
  BY <1>3, <1>4, <1>5, <1>6, <1>7, <1>8
<1> HIDE DEF p, q, r
<1> QED
  BY <1>9, <1>10, <1>11, <1>12

-----------------------------------------------------------------------------
(***************************************************************************)
(* FlattenSeq of SequencesExt.  What it defines by recursion exists.       *)
(***************************************************************************)
Flattens(f, s, n) ==
    f = [i \in 1..n |-> IF i = 1 THEN s[i] ELSE f[i - 1] \o s[i]]

LEMMA FlattensAt ==
    ASSUME NEW f, NEW s, NEW n, Flattens(f, s, n), NEW i \in 1..n
    PROVE  f[i] = IF i = 1 THEN s[i] ELSE f[i - 1] \o s[i]
BY DEF Flattens

LEMMA FlattenExists ==
    ASSUME NEW s, NEW n \in Nat
    PROVE  \E f : Flattens(f, s, n)
<1> DEFINE S == {k \in Nat : \E f : Flattens(f, s, k)}
<1>1. 0 \in S
  <2> DEFINE f == [i \in 1..0 |-> 0]
  <2>1. Flattens(f, s, 0)
    BY DEF Flattens
  <2> HIDE DEF f
  <2> QED
    BY <2>1
<1>2. ASSUME NEW k \in Nat, k \in S
      PROVE  k + 1 \in S
  <2>1. PICK f : Flattens(f, s, k)
    BY <1>2
  <2> DEFINE last == IF k = 0 THEN s[1] ELSE f[k] \o s[k + 1]
  <2> HIDE DEF last
  <2> DEFINE g == [i \in 1..(k + 1) |-> IF i = k + 1 THEN last ELSE f[i]]
  <2>2. g = [i \in 1..(k + 1) |-> g[i]] /\ g[k + 1] = last /\ \A i \in 1..k : g[i] = f[i]
    OBVIOUS
  <2> HIDE DEF g
  <2>3. last = IF k + 1 = 1 THEN s[k + 1] ELSE g[k] \o s[k + 1]
    <3>1. CASE k = 0
      BY <3>1 DEF last
    <3>2. CASE k # 0
      <4>1. k \in 1..k /\ k + 1 # 1
        BY <3>2
      <4>2. g[k] = f[k]
        BY <2>2, <4>1
      <4>3. last = f[k] \o s[k + 1]
        BY <3>2 DEF last
      <4> QED
        BY <4>1, <4>2, <4>3
    <3> QED
      BY <3>1, <3>2
  <2>4. ASSUME NEW i \in 1..(k + 1)
        PROVE  g[i] = IF i = 1 THEN s[i] ELSE g[i - 1] \o s[i]
    <3>1. CASE i = k + 1
      BY <2>2, <2>3, <3>1
    <3>2. CASE i # k + 1
      <4>1. i \in 1..k /\ (i # 1 => i - 1 \in 1..k)
        BY <3>2
      <4>2. f[i] = IF i = 1 THEN s[i] ELSE f[i - 1] \o s[i]
        BY <2>1, <4>1 DEF Flattens
      <4>3. g[i] = f[i] /\ (i # 1 => g[i - 1] = f[i - 1])
        BY <2>2, <4>1
      <4> QED
        BY <4>2, <4>3
    <3> QED
      BY <3>1, <3>2
  <2>5. Flattens(g, s, k + 1)
    BY <2>2, <2>4 DEF Flattens
  <2> QED
    BY <2>5
<1> HIDE DEF S
<1>3. Nat \subseteq S
  BY <1>1, <1>2, SetInduction
<1> QED
  BY <1>3 DEF S

LEMMA FlattenIs ==
    ASSUME NEW s, Len(s) \in Nat \ {0}
    PROVE  \E f : Flattens(f, s, Len(s)) /\ FlattenSeq(s) = f[Len(s)]
<1> DEFINE n == Len(s)
           f == CHOOSE f : Flattens(f, s, n)
<1>1. Flattens(f, s, n)
  BY FlattenExists
<1>2. FlattenSeq(s) = f[n]
  BY DEF FlattenSeq, Flattens
<1> QED
  BY <1>1, <1>2

(***************************************************************************)
(* The elements of FlattenSeq(s), by their place in s: offset[i] of them   *)
(* come before those of s[i].                                              *)
(***************************************************************************)
Spread(flat, offset, s, n) ==
    /\ offset \in [1..n -> Nat] /\ offset[1] = 0
    /\ \A i \in 1..(n - 1) : offset[i + 1] = offset[i] + Len(s[i])
    /\ Len(flat) = offset[n] + Len(s[n])
    /\ \A i \in 1..n : \A k \in 1..Len(s[i]) :
         offset[i] + k \in 1..Len(flat) /\ flat[offset[i] + k] = s[i][k]
    /\ \A q \in 1..Len(flat) :
         \E i \in 1..n : \E k \in 1..Len(s[i]) : q = offset[i] + k

LEMMA FlattenSpreads ==
    ASSUME NEW T, NEW s \in Seq(Seq(T)), NEW f, NEW n \in 1..Len(s), Flattens(f, s, Len(s))
    PROVE  f[n] \in Seq(T) /\ \E offset : Spread(f[n], offset, s, n)
<1> DEFINE Claim(k) == f[k] \in Seq(T) /\ \E offset : Spread(f[k], offset, s, k)
           S == {k \in Nat : k + 1 \in 1..Len(s) => Claim(k + 1)}
<1>1. \A i \in 1..Len(s) : s[i] \in Seq(T)
  OBVIOUS
<1>2. ASSUME NEW i \in 1..Len(s)
      PROVE  f[i] = IF i = 1 THEN s[i] ELSE f[i - 1] \o s[i]
  BY FlattensAt
<1>3. 0 \in S
  <2>1. f[1] = s[1]
    BY DEF Flattens
  <2> DEFINE offset == [i \in 1..1 |-> 0]
  <2>2. offset \in [1..1 -> Nat] /\ offset[1] = 0
    OBVIOUS
  <2> HIDE DEF offset
  <2>3. Spread(s[1], offset, s, 1)
    BY <1>1, <2>2 DEF Spread
  <2> QED
    BY <1>1, <2>1, <2>3
<1>4. ASSUME NEW j \in Nat, j \in S
      PROVE  j + 1 \in S
  <2> SUFFICES ASSUME j + 2 \in 1..Len(s)
               PROVE  Claim(j + 2)
    OBVIOUS
  <2> DEFINE k == j + 1
             m == j + 2
  <2>1. k \in 1..Len(s) /\ m \in 1..Len(s) /\ m # 1 /\ k \in Nat /\ m = k + 1 /\ m - 1 = k
    OBVIOUS
  <2>2. PICK offset : Spread(f[k], offset, s, k)
    BY <1>4, <2>1
  <2>3. f[k] \in Seq(T)
    BY <1>4, <2>1
  <2>4. j + 2 = m /\ j + 1 = k
    OBVIOUS
  <2> HIDE DEF k, m
  <2>5. f[m] = f[k] \o s[m]
    <3>1. m - 1 = k
      BY <2>1
    <3>2. f[m] = IF m = 1 THEN s[m] ELSE f[m - 1] \o s[m]
      BY <2>1, <1>2
    <3> QED
      BY <2>1, <3>1, <3>2
  <2> DEFINE a == f[k]
             b == s[m]
             flat == a \o b
             more == [i \in 1..m |-> IF i = m THEN Len(a) ELSE offset[i]]
  <2>6. a \in Seq(T) /\ b \in Seq(T)
    BY <1>1, <2>1, <2>3
  <2>7. /\ more \in [1..m -> Nat]
        /\ more[m] = Len(a)
        /\ \A i \in 1..k : more[i] = offset[i]
    <3>1. offset \in [1..k -> Nat]
      BY <2>2 DEF Spread
    <3>2. Len(a) \in Nat
      BY <2>6
    <3>3. k \in Nat /\ m \in 1..m /\ \A i \in 1..m : i = m \/ i \in 1..k
      BY <2>1
    <3>4. \A i \in 1..k : i \in 1..m /\ i # m
      BY <2>1
    <3> HIDE DEF a
    <3> QED
      BY ONLY <3>1, <3>2, <3>3, <3>4
  <2> HIDE DEF a, b, more
  <2>8. flat \in Seq(T) /\ Len(flat) = Len(a) + Len(b)
    BY <2>6
  <2>9. /\ \A q \in 1..Len(a) : flat[q] = a[q]
        /\ \A q \in 1..Len(b) : flat[Len(a) + q] = b[q]
    BY <2>6
  <2> HIDE DEF flat
  <2>10. Spread(flat, more, s, m)
    <3>1. more[1] = 0
      BY <2>1, <2>2, <2>7 DEF Spread
    <3>2. ASSUME NEW i \in 1..k
          PROVE  more[i + 1] = more[i] + Len(s[i])
      <4>1. CASE i = k
        BY <2>1, <2>2, <2>7, <4>1 DEF Spread, a
      <4>2. CASE i # k
        <5>1. i \in 1..(k - 1) /\ i + 1 \in 1..k
          BY <2>1, <4>2
        <5>2. offset[i + 1] = offset[i] + Len(s[i])
          BY <2>2, <5>1 DEF Spread
        <5> QED
          BY <2>7, <5>1, <5>2
      <4> QED
        BY <4>1, <4>2
    <3>3. Len(flat) = more[m] + Len(s[m])
      BY <2>7, <2>8 DEF b
    <3>4. ASSUME NEW i \in 1..m, NEW q \in 1..Len(s[i])
          PROVE  more[i] + q \in 1..Len(flat) /\ flat[more[i] + q] = s[i][q]
      <4>1. CASE i = m
        <5>1. s[i] = b /\ more[i] = Len(a)
          BY <2>7, <4>1 DEF b
        <5>2. q \in 1..Len(b)
          BY <5>1
        <5>3. Len(a) + q \in 1..Len(flat) /\ flat[Len(a) + q] = b[q]
          BY <2>6, <2>8, <2>9, <5>2
        <5> QED
          BY <5>1, <5>3
      <4>2. CASE i # m
        <5>1. i \in 1..k
          BY <2>1, <4>2
        <5>2. more[i] + q \in 1..Len(a) /\ a[more[i] + q] = s[i][q]
          BY <2>2, <2>7, <5>1 DEF Spread, a
        <5> QED
          BY <2>6, <2>8, <2>9, <5>2
      <4> QED
        BY <4>1, <4>2
    <3>5. ASSUME NEW q \in 1..Len(flat)
          PROVE  \E i \in 1..m : \E r \in 1..Len(s[i]) : q = more[i] + r
      <4>1. CASE q \in 1..Len(a)
        <5>1. PICK i \in 1..k : \E r \in 1..Len(s[i]) : q = offset[i] + r
          BY <2>2, <4>1 DEF Spread, a
        <5>2. more[i] = offset[i]
          BY <2>7
        <5>3. i \in 1..m
          BY <2>1
        <5> QED
          BY <5>1, <5>2, <5>3
      <4>2. CASE q \notin 1..Len(a)
        <5>1. q - Len(a) \in 1..Len(b) /\ q = more[m] + (q - Len(a))
          BY <2>6, <2>7, <2>8, <4>2
        <5> QED
          BY <2>1, <5>1 DEF b
      <4> QED
        BY <4>1, <4>2
    <3>6. m - 1 = k
      BY <2>1
    <3>7. \A i \in 1..(m - 1) : more[i + 1] = more[i] + Len(s[i])
      BY <3>2, <3>6
    <3>8. \A i \in 1..m : \A q \in 1..Len(s[i]) :
            more[i] + q \in 1..Len(flat) /\ flat[more[i] + q] = s[i][q]
      BY <3>4
    <3>9. \A q \in 1..Len(flat) : \E i \in 1..m : \E r \in 1..Len(s[i]) : q = more[i] + r
      BY <3>5
    <3> QED
      BY ONLY <2>7, <3>1, <3>3, <3>7, <3>8, <3>9 DEF Spread
  <2> QED
    BY <2>4, <2>5, <2>8, <2>10 DEF flat, a, b
<1>5. n - 1 \in Nat /\ n - 1 + 1 = n
  OBVIOUS
<1>6. Nat \subseteq S
  <2> HIDE DEF S
  <2> QED
    BY <1>3, <1>4, SetInduction
<1>7. n - 1 \in S
  BY <1>5, <1>6
<1> QED
  BY <1>5, <1>7

LEMMA FlattenedSpread ==
    ASSUME NEW T, NEW s \in Seq(Seq(T)), s # <<>>
    PROVE  FlattenSeq(s) \in Seq(T) /\ \E offset : Spread(FlattenSeq(s), offset, s, Len(s))
<1>1. Len(s) \in Nat \ {0}
  OBVIOUS
<1>2. PICK f : Flattens(f, s, Len(s)) /\ FlattenSeq(s) = f[Len(s)]
  BY <1>1, FlattenIs
<1>3. Len(s) \in 1..Len(s)
  BY <1>1
<1> QED
  BY <1>2, <1>3, FlattenSpreads

-----------------------------------------------------------------------------
(***************************************************************************)
(* Bits of a number, and what a shift by a byte, a mask and a cut of five  *)
(* of them do.                                                             *)
(***************************************************************************)
BitOf(y, e) == (y \div Power(2, e)) % 2

LEMMA PowersOfTwo ==
    /\ Power(2, 0) = 1 /\ Power(2, 1) = 2 /\ Power(2, 2) = 4 /\ Power(2, 3) = 8
    /\ Power(2, 4) = 16 /\ Power(2, 5) = 32 /\ Power(2, 6) = 64 /\ Power(2, 7) = 128
    /\ Power(2, 8) = 256 /\ Power(2, 9) = 512 /\ Power(2, 10) = 1024
    /\ Power(2, 11) = 2048 /\ Power(2, 12) = 4096
<1>1. Power(2, 0) = 1 /\ \A n \in Nat : Power(2, n + 1) = 2 * Power(2, n)
  BY PowerNext
<1>2. /\ 1 = 0 + 1 /\ 2 = 1 + 1 /\ 3 = 2 + 1 /\ 4 = 3 + 1 /\ 5 = 4 + 1 /\ 6 = 5 + 1
      /\ 7 = 6 + 1 /\ 8 = 7 + 1 /\ 9 = 8 + 1 /\ 10 = 9 + 1 /\ 11 = 10 + 1 /\ 12 = 11 + 1
  OBVIOUS
<1> QED
  BY <1>1, <1>2

LEMMA LowBits ==
    ASSUME NEW f \in Nat, NEW d \in Nat, NEW y, y = f * 256 + d, NEW e \in 0..7
    PROVE  BitOf(y, e) = BitOf(d, e)
<1>1. CASE e = 0
  BY <1>1, PowersOfTwo DEF BitOf
<1>2. CASE e = 1
  BY <1>2, PowersOfTwo DEF BitOf
<1>3. CASE e = 2
  BY <1>3, PowersOfTwo DEF BitOf
<1>4. CASE e = 3
  BY <1>4, PowersOfTwo DEF BitOf
<1>5. CASE e = 4
  BY <1>5, PowersOfTwo DEF BitOf
<1>6. CASE e = 5
  BY <1>6, PowersOfTwo DEF BitOf
<1>7. CASE e = 6
  BY <1>7, PowersOfTwo DEF BitOf
<1>8. CASE e = 7
  BY <1>8, PowersOfTwo DEF BitOf
<1> QED
  BY <1>1, <1>2, <1>3, <1>4, <1>5, <1>6, <1>7, <1>8

LEMMA HighBits ==
    ASSUME NEW y \in Nat, NEW f, f = y \div 256, NEW e \in 8..12, NEW h, h = e - 8
    PROVE  BitOf(y, e) = BitOf(f, h)
BY PowersOfTwo DEF BitOf

LEMMA KeptBits ==
    ASSUME NEW f \in Nat, NEW y, y = f % 4096, NEW e \in 0..7
    PROVE  BitOf(y, e) = BitOf(f, e)
<1>1. CASE e = 0
  BY <1>1, PowersOfTwo DEF BitOf
<1>2. CASE e = 1
  BY <1>2, PowersOfTwo DEF BitOf
<1>3. CASE e = 2
  BY <1>3, PowersOfTwo DEF BitOf
<1>4. CASE e = 3
  BY <1>4, PowersOfTwo DEF BitOf
<1>5. CASE e = 4
  BY <1>5, PowersOfTwo DEF BitOf
<1>6. CASE e = 5
  BY <1>6, PowersOfTwo DEF BitOf
<1>7. CASE e = 6
  BY <1>7, PowersOfTwo DEF BitOf
<1>8. CASE e = 7
  BY <1>8, PowersOfTwo DEF BitOf
<1> QED
  BY <1>1, <1>2, <1>3, <1>4, <1>5, <1>6, <1>7, <1>8

LEMMA Sum5 ==
    ASSUME NEW y \in Nat
    PROVE  y % 32 = 16 * ((y \div 16) % 2) + 8 * ((y \div 8) % 2) + 4 * ((y \div 4) % 2)
                      + 2 * ((y \div 2) % 2) + (y % 2)
OBVIOUS

LEMMA QuotientIs ==
    ASSUME NEW m \in Nat \ {0}, NEW u \in Nat, NEW t \in 0..(m - 1), NEW a, a = m * u + t
    PROVE  a \div m = u
<1>0. a \in Nat /\ m * u \in Nat
  BY Multiplied
<1> DEFINE q == a \div m
           r == a % m
<1>1. q \in Nat /\ r \in 0..(m - 1) /\ a = q * m + r
  BY <1>0, Divided
<1> HIDE DEF q, r
<1>2. ASSUME q < u
      PROVE  FALSE
  <2>1. q + 1 <= u
    BY <1>1, <1>2
  <2>2. (q + 1) * m <= u * m
    BY <1>1, <2>1
  <2>3. (q + 1) * m = q * m + m /\ u * m = m * u /\ q * m \in Nat
    BY <1>1, Multiplied
  <2> QED
    BY <1>0, <1>1, <2>2, <2>3
<1>3. ASSUME u < q
      PROVE  FALSE
  <2>1. u + 1 <= q
    BY <1>1, <1>3
  <2>2. (u + 1) * m <= q * m
    BY <1>1, <2>1
  <2>3. (u + 1) * m = m * u + m /\ q * m \in Nat
    BY <1>1, Multiplied
  <2> QED
    BY <1>0, <1>1, <2>2, <2>3
<1> QED
  BY <1>1, <1>2, <1>3 DEF q

LEMMA DividedTwice ==
    ASSUME NEW a \in Nat, NEW p \in Nat \ {0}, NEW q \in Nat \ {0}
    PROVE  (a \div p) \div q = a \div (p * q)
<1> DEFINE x == a \div p
           r == a % p
           u == x \div q
           s == x % q
           m == p * q
           t == p * s + r
<1>1. x \in Nat /\ r \in 0..(p - 1) /\ a = x * p + r
  BY Divided
<1> HIDE DEF x, r
<1>2. u \in Nat /\ s \in 0..(q - 1) /\ x = u * q + s
  BY <1>1, Divided
<1> HIDE DEF u, s
<1>3. m \in Nat \ {0}
  OBVIOUS
<1>4. a = m * u + t
  <2>1. x * p = (p * q) * u + p * s
    BY <1>2
  <2> QED
    BY <1>1, <1>2, <2>1, Multiplied
<1>5. t \in 0..(m - 1)
  <2>1. p * (s + 1) <= p * q
    BY <1>2
  <2>2. p * (s + 1) = p * s + p /\ p * s \in Nat
    BY <1>2, Multiplied
  <2> QED
    BY <1>1, <1>2, <1>3, <2>1, <2>2
<1> HIDE DEF m, t
<1>6. a \div m = u
  BY <1>2, <1>3, <1>4, <1>5, QuotientIs
<1> QED
  BY <1>6 DEF m, u, x

LEMMA FiveBits ==
    ASSUME NEW y \in Nat, NEW low \in Nat
    PROVE  (y \div Power(2, low)) % 32 = 16 * BitOf(y, low + 4) + 8 * BitOf(y, low + 3)
                + 4 * BitOf(y, low + 2) + 2 * BitOf(y, low + 1) + BitOf(y, low)
<1> DEFINE p == Power(2, low)
           x == y \div p
<1>1. p \in Nat \ {0}
  BY PowerPositive
<1>2. x \in Nat
  BY <1>1, Divided
<1>3. ASSUME NEW k \in Nat
      PROVE  (x \div Power(2, k)) % 2 = BitOf(y, low + k)
  <2>1. Power(2, k) \in Nat \ {0}
    BY PowerPositive
  <2>2. Power(2, low + k) = p * Power(2, k)
    BY PowerSum
  <2>3. x \div Power(2, k) = y \div (p * Power(2, k))
    BY <1>1, <2>1, DividedTwice
  <2> QED
    BY <2>2, <2>3 DEF BitOf
<1>4. x % 2 = BitOf(y, low)
  BY DEF BitOf
<1> HIDE DEF p, x
<1>5. /\ (x \div 2) % 2 = BitOf(y, low + 1) /\ (x \div 4) % 2 = BitOf(y, low + 2)
      /\ (x \div 8) % 2 = BitOf(y, low + 3) /\ (x \div 16) % 2 = BitOf(y, low + 4)
  BY <1>3, PowersOfTwo
<1> QED
  BY <1>2, <1>4, <1>5, Sum5 DEF p, x
=============================================================================
