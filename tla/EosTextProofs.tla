--------------------------- MODULE EosTextProofs ---------------------------
(***************************************************************************)
(* The page shows its value, for every name, number, asset and hash, and   *)
(* whatever page was there before.                                         *)
(***************************************************************************)
EXTENDS EosText, DataProofs

(***************************************************************************)
(* The string in a buffer ends before the first NUL (strlen).              *)
(***************************************************************************)
LEMMA CutAtNul ==
    ASSUME NEW T, NEW b \in Seq(T), NEW n \in 1..Len(b), b[n] = NUL,
           \A i \in 1..(n - 1) : b[i] # NUL
    PROVE  CString(b) = SubSeq(b, 1, n - 1)
<1> DEFINE I == {i \in 1..Len(b) : b[i] = NUL}
<1>1. NUL \in Range(b)
  BY DEF Range
<1>2. n \in I /\ \A i \in I : i >= n
  OBVIOUS
<1>3. Min(I) = n
  <2>1. Min(I) \in I /\ \A i \in I : Min(I) <= i
    BY <1>2 DEF Min
  <2> QED
    BY <1>2, <2>1
<1> QED
  BY <1>1, <1>2, <1>3 DEF CString, SelectInSeq

LEMMA NoNul ==
    ASSUME NEW T, NEW b \in Seq(T), \A i \in 1..Len(b) : b[i] # NUL
    PROVE  CString(b) = b
BY DEF CString, Range

LEMMA CStringType ==
    ASSUME NEW T, NEW b \in Seq(T)
    PROVE  /\ CString(b) \in Seq(T) /\ Len(CString(b)) <= Len(b)
           /\ \A i \in 1..Len(CString(b)) : CString(b)[i] = b[i] /\ b[i] # NUL
           /\ \A n \in 1..Len(b) : b[n] = NUL => Len(CString(b)) < n
           /\ b # <<>> /\ b[1] # NUL => CString(b) # <<>>
<1>1. CASE \A i \in 1..Len(b) : b[i] # NUL
  BY <1>1, NoNul
<1>2. CASE \E i \in 1..Len(b) : b[i] = NUL
  <2> DEFINE I == {i \in 1..Len(b) : b[i] = NUL}
  <2>1. I \subseteq Nat /\ I # {}
    BY <1>2
  <2>2. PICK n \in I : \A i \in I : n <= i
    BY <2>1, LeastNatural
  <2>3. n \in 1..Len(b) /\ b[n] = NUL /\ \A i \in 1..Len(b) : b[i] = NUL => n <= i
    BY <2>2
  <2> HIDE DEF I
  <2>4. \A i \in 1..(n - 1) : b[i] # NUL
    BY <2>3
  <2>5. CString(b) = SubSeq(b, 1, n - 1)
    BY <2>3, <2>4, CutAtNul
  <2> DEFINE c == CString(b)
  <2>6. c \in Seq(T) /\ Len(c) = n - 1 /\ \A i \in 1..(n - 1) : c[i] = b[i]
    BY <2>3, <2>5
  <2> HIDE DEF c
  <2>7. c \in Seq(T) /\ Len(c) <= Len(b) /\ \A i \in 1..Len(c) : c[i] = b[i] /\ b[i] # NUL
    BY <2>3, <2>4, <2>6
  <2>8. \A m \in 1..Len(b) : b[m] = NUL => Len(c) < m
    BY <2>3, <2>6
  <2>9. b[1] # NUL => c # <<>>
    BY <2>3, <2>6
  <2> QED
    BY <2>7, <2>8, <2>9 DEF c
<1> QED
  BY <1>1, <1>2

(***************************************************************************)
(* What a copy leaves before, at and behind its place (memcpy, memmove).   *)
(***************************************************************************)
LEMMA PutIs ==
    ASSUME NEW T, NEW b \in Seq(T), NEW c \in Seq(T), NEW at \in 0..Len(b)
    PROVE  /\ Put(b, at, c) \in Seq(T)
           /\ Len(Put(b, at, c)) = IF at + Len(c) <= Len(b) THEN Len(b) ELSE at + Len(c)
           /\ \A i \in 1..at : Put(b, at, c)[i] = b[i]
           /\ \A i \in 1..Len(c) : Put(b, at, c)[at + i] = c[i]
           /\ \A i \in (at + Len(c) + 1)..Len(b) : Put(b, at, c)[i] = b[i]
<1> DEFINE x == SubSeq(b, 1, at)
           z == SubSeq(b, at + Len(c) + 1, Len(b))
           xc == x \o c
<1>1. x \in Seq(T) /\ Len(x) = at /\ \A i \in 1..at : x[i] = b[i]
  OBVIOUS
<1>2. /\ z \in Seq(T) /\ Len(z) = IF at + Len(c) <= Len(b) THEN Len(b) - (at + Len(c)) ELSE 0
      /\ \A i \in 1..Len(z) : z[i] = b[at + Len(c) + i]
  OBVIOUS
<1> HIDE DEF x, z
<1>3. /\ xc \in Seq(T) /\ Len(xc) = at + Len(c)
      /\ \A i \in 1..at : xc[i] = b[i]
      /\ \A i \in 1..Len(c) : xc[at + i] = c[i]
  <2>1. x \in Seq(T) /\ c \in Seq(T)
    BY <1>1
  <2>2. /\ xc \in Seq(T) /\ Len(xc) = Len(x) + Len(c)
        /\ \A i \in 1..Len(x) : xc[i] = x[i]
        /\ \A i \in 1..Len(c) : xc[Len(x) + i] = c[i]
    BY <2>1, Joined
  <2> HIDE DEF xc
  <2> QED
    BY <1>1, <2>2
<1> HIDE DEF xc
<1>4. /\ xc \o z \in Seq(T) /\ Len(xc \o z) = Len(xc) + Len(z)
      /\ \A i \in 1..Len(xc) : (xc \o z)[i] = xc[i]
      /\ \A i \in 1..Len(z) : (xc \o z)[Len(xc) + i] = z[i]
  <2>1. xc \in Seq(T) /\ z \in Seq(T)
    BY <1>2, <1>3
  <2> QED
    BY <2>1, Joined
<1>5. Put(b, at, c) = xc \o z
  BY DEF Put, x, z, xc
<1> DEFINE p == Put(b, at, c)
<1>6. p \in Seq(T) /\ Len(p) = IF at + Len(c) <= Len(b) THEN Len(b) ELSE at + Len(c)
  BY <1>2, <1>3, <1>4, <1>5
<1>7. \A i \in 1..at : p[i] = b[i]
  BY <1>3, <1>4, <1>5
<1>8. \A i \in 1..Len(c) : p[at + i] = c[i]
  BY <1>3, <1>4, <1>5
<1>9. ASSUME NEW i \in (at + Len(c) + 1)..Len(b)
      PROVE  p[i] = b[i]
  <2> DEFINE k == i - (at + Len(c))
  <2>1. k \in 1..Len(z) /\ i = Len(xc) + k
    BY <1>2, <1>3
  <2> HIDE DEF k
  <2>2. (xc \o z)[i] = z[k]
    BY <1>4, <2>1
  <2>3. z[k] = b[at + Len(c) + k]
    BY <1>2, <2>1
  <2>4. i = at + Len(c) + k
    BY <1>3, <2>1
  <2> QED
    BY <1>5, <2>2, <2>3, <2>4
<1> QED
  BY <1>6, <1>7, <1>8, <1>9

-----------------------------------------------------------------------------
(***************************************************************************)
(* Decimal numbers: how many digits a number has, and that those which     *)
(* print_int splits off from the right are those of the reference.         *)
(***************************************************************************)
IsWidth(n, w) == n < Power(10, w) /\ (w > 1 => n >= Power(10, w - 1))

LEMMA NumeralType == \A d \in 0..9 : Numeral(d) \in Figures
<1> SUFFICES ASSUME NEW d \in 0..9 PROVE Numeral(d) \in Figures
  OBVIOUS
<1>1. d \in {0, 1, 2, 3, 4, 5, 6, 7, 8, 9}
  OBVIOUS
<1>2. /\ Numeral(0) = "0" /\ Numeral(1) = "1" /\ Numeral(2) = "2" /\ Numeral(3) = "3"
      /\ Numeral(4) = "4" /\ Numeral(5) = "5" /\ Numeral(6) = "6" /\ Numeral(7) = "7"
      /\ Numeral(8) = "8" /\ Numeral(9) = "9"
  BY DEF Numeral
<1> QED
  BY <1>1, <1>2 DEF Figures

LEMMA CharsType == NUL \notin Chars /\ Figures \subseteq Chars
BY LettersAssumption DEF NUL, SPACE, Chars, Figures

LEMMA TenIs == Power(10, 1) = 10
<1>1. Power(10, 0) = 1 /\ Power(10, 0 + 1) = 10 * Power(10, 0)
  BY PowerNext
<1>2. 0 + 1 = 1
  OBVIOUS
<1> QED
  BY <1>1, <1>2

LEMMA TenPositive == \A n \in Nat : Power(10, n) \in Nat \ {0}
BY PowerPositive

LEMMA DecimalType ==
    ASSUME NEW n \in Nat, NEW w \in Nat
    PROVE  /\ Decimal(n, w) \in Seq(Chars) /\ Len(Decimal(n, w)) = w
           /\ \A i \in 1..w : Decimal(n, w)[i] = Numeral((n \div Power(10, w - i)) % 10)
<1> DEFINE c(i) == Numeral((n \div Power(10, w - i)) % 10)
<1>1. ASSUME NEW i \in 1..w
      PROVE  c(i) \in Chars
  <2>1. Power(10, w - i) \in Nat \ {0}
    BY PowerPositive
  <2>2. n \div Power(10, w - i) \in Nat
    BY <2>1, Divided
  <2>3. (n \div Power(10, w - i)) % 10 \in 0..9
    BY <2>2
  <2> QED
    BY <2>3, NumeralType, CharsType
<1> HIDE DEF c
<1>2. Decimal(n, w) = [i \in 1..w |-> c(i)]
  BY DEF Decimal, c
<1>3. Decimal(n, w) \in Seq(Chars) /\ Len(Decimal(n, w)) = w
  BY <1>1, <1>2
<1>4. \A i \in 1..w : Decimal(n, w)[i] = c(i)
  BY <1>2
<1> QED
  BY <1>3, <1>4 DEF c

LEMMA LessThanPower == \A n \in Nat : n < Power(10, n)
<1> DEFINE S == {n \in Nat : n < Power(10, n)}
<1>1. 0 \in S
  BY PowerNext
<1>2. ASSUME NEW n \in Nat, n \in S
      PROVE  n + 1 \in S
  <2>1. Power(10, n) \in Nat /\ Power(10, n + 1) = 10 * Power(10, n)
    BY PowerNext
  <2> QED
    BY <1>2, <2>1
<1> HIDE DEF S
<1>3. Nat \subseteq S
  BY <1>1, <1>2, SetInduction
<1> QED
  BY <1>3 DEF S

LEMMA WidthExists ==
    ASSUME NEW n \in Nat
    PROVE  \E w \in Nat \ {0} : IsWidth(n, w)
<1> DEFINE S == {w \in Nat \ {0} : n < Power(10, w)}
<1>1. n + 1 \in S
  <2>1. n < Power(10, n) /\ Power(10, n) \in Nat /\ Power(10, n + 1) = 10 * Power(10, n)
    BY LessThanPower, PowerNext
  <2> QED
    BY <2>1
<1>2. PICK w \in S : \A v \in S : w <= v
  <2>1. S \subseteq Nat /\ S # {}
    BY <1>1
  <2> HIDE DEF S
  <2> QED
    BY <2>1, LeastNatural
<1>3. ASSUME w > 1
      PROVE  n >= Power(10, w - 1)
  <2>1. w - 1 \in Nat \ {0} /\ w - 1 \notin S
    BY <1>2, <1>3
  <2>2. Power(10, w - 1) \in Nat
    BY <2>1, PowerPositive
  <2> QED
    BY <2>1, <2>2
<1> QED
  BY <1>2, <1>3 DEF IsWidth

LEMMA WidthIsOne ==
    ASSUME NEW n \in Nat, NEW v \in Nat \ {0}, NEW w \in Nat \ {0},
           IsWidth(n, v), IsWidth(n, w)
    PROVE  v = w
<1>1. ASSUME NEW x \in Nat \ {0}, NEW y \in Nat \ {0}, IsWidth(n, x), IsWidth(n, y), x < y
      PROVE  FALSE
  <2>1. x <= y - 1 /\ y - 1 \in Nat /\ y > 1
    BY <1>1
  <2>2. Power(10, x) <= Power(10, y - 1)
    BY <2>1, PowerMonotone
  <2>3. Power(10, x) \in Nat /\ Power(10, y - 1) \in Nat
    BY <2>1, PowerPositive
  <2> QED
    BY <1>1, <2>1, <2>2, <2>3 DEF IsWidth
<1> QED
  BY <1>1

(***************************************************************************)
(* A number has one digit more than its tenth, the last one.               *)
(***************************************************************************)
LEMMA WidthTenfold ==
    ASSUME NEW n \in Nat, n >= 10, NEW w \in Nat \ {0}, IsWidth(n \div 10, w)
    PROVE  IsWidth(n, w + 1)
<1>1. n \div 10 \in Nat /\ n = (n \div 10) * 10 + (n % 10) /\ n % 10 \in 0..9
  BY Divided
<1>2. Power(10, w) \in Nat /\ Power(10, w + 1) = 10 * Power(10, w)
  BY PowerNext
<1>3. n < Power(10, w + 1)
  BY <1>1, <1>2 DEF IsWidth
<1>4. n >= Power(10, w)
  <2>1. CASE w = 1
    BY <2>1, PowerNext
  <2>2. CASE w > 1
    <3>1. /\ Power(10, w - 1) \in Nat
          /\ Power(10, (w - 1) + 1) = 10 * Power(10, w - 1)
      <4>1. w - 1 \in Nat
        BY <2>2
      <4> QED
        BY <4>1, PowerNext
    <3>2. (w - 1) + 1 = w
      OBVIOUS
    <3> QED
      BY <1>1, <2>2, <3>1, <3>2 DEF IsWidth
  <2> QED
    BY <2>1, <2>2
<1> QED
  BY <1>3, <1>4 DEF IsWidth

LEMMA DecimalTenfold ==
    ASSUME NEW n \in Nat, NEW w \in Nat
    PROVE  Decimal(n, w + 1) = Append(Decimal(n \div 10, w), Numeral(n % 10))
<1> DEFINE a == Decimal(n, w + 1)
           b == Decimal(n \div 10, w)
<1>1. n \div 10 \in Nat
  BY Divided
<1>2. /\ a \in Seq(Chars) /\ Len(a) = w + 1
      /\ \A i \in 1..(w + 1) : a[i] = Numeral((n \div Power(10, (w + 1) - i)) % 10)
  BY DecimalType
<1>3. /\ b \in Seq(Chars) /\ Len(b) = w
      /\ \A i \in 1..w : b[i] = Numeral(((n \div 10) \div Power(10, w - i)) % 10)
  BY <1>1, DecimalType
<1> HIDE DEF a, b
<1>4. ASSUME NEW i \in 1..w
      PROVE  a[i] = b[i]
  <2>1. Power(10, w - i) \in Nat \ {0}
    BY PowerPositive
  <2>2. Power(10, (w - i) + 1) = 10 * Power(10, w - i)
    BY PowerNext
  <2>3. (n \div 10) \div Power(10, w - i) = n \div (10 * Power(10, w - i))
    BY <2>1, DividedTwice
  <2>4. (w - i) + 1 = (w + 1) - i
    OBVIOUS
  <2> QED
    BY <1>2, <1>3, <2>2, <2>3, <2>4
<1>5. a[w + 1] = Numeral(n % 10)
  <2>1. a[w + 1] = Numeral((n \div Power(10, (w + 1) - (w + 1))) % 10)
    BY <1>2
  <2>2. (w + 1) - (w + 1) = 0
    OBVIOUS
  <2>3. Power(10, 0) = 1 /\ n \div 1 = n
    BY PowerNext
  <2> QED
    BY <2>1, <2>2, <2>3
<1>6. a = Append(b, Numeral(n % 10))
  BY <1>2, <1>3, <1>4, <1>5
<1> QED
  BY <1>6 DEF a, b

(***************************************************************************)
(* print_int gives the digits of the reference.  Its recursion has the     *)
(* reference itself for a solution, and no other.                          *)
(***************************************************************************)
Tens(k) == CHOOSE w \in Nat \ {0} : IsWidth(k, w)

Written(k) == IF k = 0 THEN <<>> ELSE Decimal(k, Tens(k))

CodeStep(f) == [k \in Nat |-> IF k = 0 THEN <<>> ELSE Append(f[k \div 10], Numeral(k % 10))]

LEMMA TensIs ==
    ASSUME NEW k \in Nat
    PROVE  Tens(k) \in Nat \ {0} /\ IsWidth(k, Tens(k))
BY WidthExists DEF Tens

LEMMA WrittenStep ==
    ASSUME NEW k \in Nat \ {0}
    PROVE  /\ k \div 10 \in Nat /\ k \div 10 < k
           /\ Written(k) = Append(Written(k \div 10), Numeral(k % 10))
<1>1. k \div 10 \in Nat /\ k \div 10 < k
  OBVIOUS
<1>2. CASE k < 10
  <2>1. k \div 10 = 0
    BY <1>2
  <2>2. Decimal(k, 0 + 1) = Append(Decimal(0, 0), Numeral(k % 10))
    BY <2>1, DecimalTenfold
  <2>3. Decimal(0, 0) = <<>>
    BY DecimalType
  <2>4. IsWidth(k, 1)
    <3>1. Power(10, 1) = 10
      BY TenIs
    <3> QED
      BY <1>2, <3>1 DEF IsWidth
  <2>5. Tens(k) = 1
    BY <2>4, TensIs, WidthIsOne
  <2>6. Written(k) = Decimal(k, 0 + 1) /\ Written(k \div 10) = Decimal(0, 0)
    <3>1. Written(k \div 10) = <<>> /\ Written(k) = Decimal(k, 1) /\ 0 + 1 = 1
      BY <2>1, <2>5 DEF Written
    <3> QED
      BY <2>3, <3>1
  <2> QED
    BY <1>1, <2>2, <2>6
<1>3. CASE k >= 10
  <2>1. k \div 10 # 0
    BY <1>3
  <2> DEFINE w == Tens(k \div 10)
  <2>2. w \in Nat \ {0} /\ IsWidth(k \div 10, w)
    BY <1>1, TensIs
  <2> HIDE DEF w
  <2>3. IsWidth(k, w + 1) /\ w + 1 \in Nat \ {0}
    BY <1>3, <2>2, WidthTenfold
  <2>4. Tens(k) = w + 1
    BY <2>3, TensIs, WidthIsOne
  <2>5. Decimal(k, w + 1) = Append(Decimal(k \div 10, w), Numeral(k % 10))
    BY <2>2, DecimalTenfold
  <2> QED
    BY <1>1, <2>1, <2>4, <2>5 DEF Written, w
<1> QED
  BY <1>2, <1>3

LEMMA CodeExists == \E f : f = CodeStep(f)
<1> DEFINE f == [k \in Nat |-> Written(k)]
<1>1. ASSUME NEW k \in Nat
      PROVE  f[k] = CodeStep(f)[k]
  <2>1. CASE k = 0
    BY <2>1 DEF CodeStep, Written
  <2>2. CASE k # 0
    <3>1. k \div 10 \in Nat /\ Written(k) = Append(Written(k \div 10), Numeral(k % 10))
      BY <2>2, WrittenStep
    <3>2. f[k \div 10] = Written(k \div 10) /\ f[k] = Written(k)
      BY <3>1
    <3> HIDE DEF f
    <3>3. CodeStep(f)[k] = Append(f[k \div 10], Numeral(k % 10))
      BY <2>2 DEF CodeStep
    <3> QED
      BY <3>1, <3>2, <3>3
  <2> QED
    BY <2>1, <2>2
<1>2. f = [k \in Nat |-> f[k]] /\ CodeStep(f) = [k \in Nat |-> CodeStep(f)[k]]
  BY DEF CodeStep
<1>3. f = CodeStep(f)
  <2> HIDE DEF f
  <2> QED
    BY <1>1, <1>2
<1> QED
  BY <1>3

LEMMA DigitsAre ==
    ASSUME NEW n \in Nat
    PROVE  Digits(n) = Written(n)
<1> DEFINE f == CHOOSE f : f = CodeStep(f)
<1>1. Digits(n) = f[n]
  BY DEF Digits, CodeStep
<1>2. f = CodeStep(f)
  BY CodeExists
<1> HIDE DEF f
<1>3. f[0] = Written(0)
  BY <1>2 DEF CodeStep, Written
<1>4. \A k \in Nat \ {0} : f[k] = Append(f[k \div 10], Numeral(k % 10))
  BY <1>2 DEF CodeStep
<1> DEFINE S == {m \in Nat : \A k \in 0..m : f[k] = Written(k)}
<1>5. 0 \in S
  BY <1>3
<1>6. ASSUME NEW m \in Nat, m \in S
      PROVE  m + 1 \in S
  <2>1. m + 1 \in Nat \ {0}
    OBVIOUS
  <2> DEFINE k == m + 1
  <2> HIDE DEF k
  <2>2. k \in Nat \ {0} /\ k = m + 1
    BY <2>1 DEF k
  <2>3. /\ k \div 10 \in Nat /\ k \div 10 < k
        /\ Written(k) = Append(Written(k \div 10), Numeral(k % 10))
    BY <2>2, WrittenStep
  <2>4. f[k \div 10] = Written(k \div 10)
    BY <1>6, <2>2, <2>3
  <2>5. f[k] = Written(k)
    BY <1>4, <2>2, <2>3, <2>4
  <2> QED
    BY <1>6, <2>2, <2>5
<1> HIDE DEF S
<1>7. Nat \subseteq S
  BY <1>5, <1>6, SetInduction
<1> QED
  BY <1>1, <1>7 DEF S

LEMMA WrittenType ==
    ASSUME NEW k \in Nat
    PROVE  Written(k) \in Seq(Chars) /\ (k > 0 => Len(Written(k)) = Tens(k))
<1>1. CASE k = 0
  BY <1>1 DEF Written
<1>2. CASE k > 0
  BY <1>2, TensIs, DecimalType DEF Written
<1> QED
  BY <1>1, <1>2

(***************************************************************************)
(* Within 64 bits a number has fewer digits than there is room, and is     *)
(* printed as the reference has it (print_int).                            *)
(***************************************************************************)
LEMMA WidthIs ==
    ASSUME NEW n \in Nat, n <= WORD \div 2
    PROVE  Width(n) = Tens(n)
<1> DEFINE A == AMOUNT_MAX_SIZE
           w == Tens(n)
<1>1. A \in Nat /\ A >= 2 /\ WORD \div 2 < Power(10, A - 2) /\ WORD \div 2 \in Nat
  BY RoomAssumption, WordAssumption
<1>2. w \in Nat \ {0} /\ IsWidth(n, w)
  BY TensIs
<1> HIDE DEF A, w
<1>3. w <= A
  <2> SUFFICES ASSUME w > A PROVE FALSE
    BY <1>1, <1>2
  <2>1. A - 2 <= w - 1 /\ A - 2 \in Nat /\ w - 1 \in Nat /\ w > 1
    BY <1>1, <1>2
  <2>2. Power(10, A - 2) <= Power(10, w - 1)
    BY <2>1, PowerMonotone
  <2>3. Power(10, A - 2) \in Nat /\ Power(10, w - 1) \in Nat
    BY <2>1, PowerPositive
  <2>4. n >= Power(10, w - 1)
    BY <1>2, <2>1 DEF IsWidth
  <2> QED
    BY <1>1, <2>2, <2>3, <2>4
<1>4. w \in 1..A
  BY <1>1, <1>2, <1>3
<1>5. Width(n) = CHOOSE v \in 1..A : IsWidth(n, v)
  BY DEF Width, IsWidth, A
<1>6. Width(n) \in 1..A /\ IsWidth(n, Width(n))
  BY <1>2, <1>4, <1>5
<1>7. Width(n) \in Nat \ {0}
  BY <1>1, <1>6
<1> QED
  BY <1>2, <1>6, <1>7, WidthIsOne DEF w

LEMMA PrintIntType ==
    ASSUME NEW l \in Int
    PROVE  print_int(l) \in Seq(Chars) /\ Len(print_int(l)) \in Nat \ {0}
<1>1. "0" \in Chars /\ "-" \in Chars
  BY DEF Chars, Figures
<1>2. WORD \div 2 \in Nat
  BY WordAssumption
<1>3. CASE l = 0
  BY <1>1, <1>3 DEF print_int
<1>4. CASE l > 0
  <2>1. print_int(l) = <<>> \o Written(l)
    <3>1. l \in Nat /\ l # 0 /\ ~(l < 0) /\ l # -(WORD \div 2) /\ Magnitude(l) = l
      BY <1>2, <1>4 DEF Magnitude
    <3>2. Digits(l) = Written(l)
      BY <3>1, DigitsAre
    <3> QED
      BY <3>1, <3>2 DEF print_int
  <2>2. Written(l) \in Seq(Chars) /\ Len(Written(l)) \in Nat \ {0}
    BY <1>4, WrittenType, TensIs
  <2> QED
    BY <2>1, <2>2
<1>5. CASE l < 0
  <2> DEFINE d == IF l = -(WORD \div 2) THEN <<>> ELSE Digits(Magnitude(l))
  <2>1. d \in Seq(Chars)
    <3>1. -l \in Nat /\ Magnitude(l) = -l
      BY <1>5 DEF Magnitude
    <3>2. Digits(-l) \in Seq(Chars)
      BY <3>1, DigitsAre, WrittenType
    <3> QED
      BY <3>1, <3>2
  <2>2. print_int(l) = <<"-">> \o d
    BY <1>5 DEF print_int
  <2> HIDE DEF d
  <2>3. <<"-">> \in Seq(Chars) /\ Len(<<"-">>) = 1
    BY <1>1
  <2>4. <<"-">> \o d \in Seq(Chars) /\ Len(<<"-">> \o d) = 1 + Len(d)
    BY <2>1, <2>3, Joined
  <2> QED
    BY <2>1, <2>2, <2>4
<1> QED
  BY <1>3, <1>4, <1>5

LEMMA NumberIs ==
    ASSUME NEW n \in Nat, n <= WORD \div 2
    PROVE  Decimal(n, Width(n)) = IF n = 0 THEN <<"0">> ELSE Written(n)
<1>1. CASE n = 0
  <2>1. IsWidth(0, 1)
    <3>1. Power(10, 1) = 10
      BY TenIs
    <3> QED
      BY <3>1 DEF IsWidth
  <2>2. Width(n) = 1
    BY <1>1, <2>1, TensIs, WidthIs, WidthIsOne
  <2>3. /\ Decimal(0, 1) \in Seq(Chars) /\ Len(Decimal(0, 1)) = 1
        /\ Decimal(0, 1)[1] = Numeral((0 \div Power(10, 1 - 1)) % 10)
    <3>1. 0 \in Nat /\ 1 \in Nat /\ 1 \in 1..1
      OBVIOUS
    <3>2. \A i \in 1..1 : Decimal(0, 1)[i] = Numeral((0 \div Power(10, 1 - i)) % 10)
      BY <3>1, DecimalType
    <3> QED
      BY <3>1, <3>2, DecimalType
  <2>4. (0 \div Power(10, 1 - 1)) % 10 = 0
    <3>1. Power(10, 1 - 1) \in Nat \ {0}
      BY PowerPositive
    <3> QED
      BY <3>1
  <2>5. Numeral(0) = "0"
    BY DEF Numeral
  <2> QED
    BY <1>1, <2>2, <2>3, <2>4, <2>5
<1>2. CASE n > 0
  BY <1>2, WidthIs DEF Written
<1> QED
  BY <1>1, <1>2

LEMMA PrintIntIs ==
    ASSUME NEW l \in Int, l >= 0 \/ l > -(WORD \div 2), l <= WORD \div 2
    PROVE  print_int(l) = Number(l)
<1>1. WORD \div 2 \in Nat
  BY WordAssumption
<1>2. CASE l = 0
  <2>1. Decimal(0, Width(0)) = <<"0">>
    BY <1>1, NumberIs
  <2> QED
    BY <1>2, <2>1 DEF print_int, Number
<1>3. CASE l > 0
  <2>1. l \in Nat /\ Number(l) = Decimal(l, Width(l))
    BY <1>3 DEF Number
  <2>2. Number(l) = Written(l)
    BY <1>3, <2>1, NumberIs
  <2>3. print_int(l) = <<>> \o Written(l)
    <3>1. l # 0 /\ ~(l < 0) /\ l # -(WORD \div 2) /\ Magnitude(l) = l
      BY <1>1, <1>3 DEF Magnitude
    <3>2. Digits(l) = Written(l)
      BY <2>1, DigitsAre
    <3> QED
      BY <3>1, <3>2 DEF print_int
  <2>4. <<>> \o Written(l) = Written(l)
    BY <2>1, WrittenType
  <2> QED
    BY <2>2, <2>3, <2>4
<1>4. CASE l < 0
  <2>1. -l \in Nat \ {0} /\ -l <= WORD \div 2 /\ l # -(WORD \div 2) /\ l # 0
    BY <1>1, <1>4
  <2>2. Number(l) = <<"-">> \o Decimal(-l, Width(-l))
    BY <1>4 DEF Number
  <2>3. Decimal(-l, Width(-l)) = Written(-l)
    BY <2>1, NumberIs
  <2>4. Digits(-l) = Written(-l)
    BY <2>1, DigitsAre
  <2>5. print_int(l) = <<"-">> \o Digits(-l)
    BY <1>4, <2>1 DEF print_int, Magnitude
  <2> QED
    BY <2>2, <2>3, <2>4, <2>5
<1> QED
  BY <1>2, <1>3, <1>4

-----------------------------------------------------------------------------
(***************************************************************************)
(* What is left in the buffer of a page, and what is read in it.           *)
(***************************************************************************)
Marks == Chars \cup {NUL, JUNK}

LEMMA SizeIs == DETAIL_VALUE_MAX_SIZE \in Nat /\ DETAIL_VALUE_MAX_SIZE > 22
BY DEF DETAIL_VALUE_MAX_SIZE

LEMMA ClearedType ==
    ASSUME NEW b
    PROVE  /\ Cleared(b) \in Seq(Marks) /\ Len(Cleared(b)) = DETAIL_VALUE_MAX_SIZE
           /\ \A i \in 1..DETAIL_VALUE_MAX_SIZE : Cleared(b)[i] = NUL
BY SizeIs DEF Cleared, Fill, Marks

\* A text copied to the start of a cleared buffer has a NUL behind it.
LEMMA CopiedIs ==
    ASSUME NEW in \in Seq(Marks), Len(in) < DETAIL_VALUE_MAX_SIZE, NEW b
    PROVE  /\ Put(Cleared(b), 0, in) \in Seq(Marks)
           /\ Len(Put(Cleared(b), 0, in)) = DETAIL_VALUE_MAX_SIZE
           /\ Len(in) + 1 \in 1..DETAIL_VALUE_MAX_SIZE
           /\ \A i \in 1..Len(in) : Put(Cleared(b), 0, in)[i] = in[i]
           /\ Put(Cleared(b), 0, in)[Len(in) + 1] = NUL
<1> DEFINE c == Cleared(b)
           p == Put(c, 0, in)
           D == DETAIL_VALUE_MAX_SIZE
<1>1. D \in Nat /\ c \in Seq(Marks) /\ Len(c) = D /\ \A i \in 1..D : c[i] = NUL
  BY SizeIs, ClearedType
<1>2. Len(in) < D
  OBVIOUS
<1> HIDE DEF c, D
<1>3. /\ p \in Seq(Marks)
      /\ Len(p) = IF 0 + Len(in) <= Len(c) THEN Len(c) ELSE 0 + Len(in)
      /\ \A i \in 1..Len(in) : p[0 + i] = in[i]
      /\ \A i \in (0 + Len(in) + 1)..Len(c) : p[i] = c[i]
  <2>1. c \in Seq(Marks) /\ in \in Seq(Marks) /\ 0 \in 0..Len(c)
    BY <1>1
  <2> QED
    BY <2>1, PutIs
<1> HIDE DEF p
<1>4. Len(in) \in Nat /\ Len(in) + 1 \in 1..D
  BY <1>1, <1>2
<1>5. Len(p) = D /\ \A i \in 1..Len(in) : p[i] = in[i]
  BY <1>1, <1>2, <1>3, <1>4
<1>6. p[Len(in) + 1] = NUL
  BY <1>1, <1>3, <1>4
<1> QED
  BY <1>3, <1>4, <1>5, <1>6 DEF c, p, D

\* What is read of it: a text without a NUL, and up to its first NUL.
LEMMA CopiedIsRead ==
    ASSUME NEW in \in Seq(Marks), Len(in) < DETAIL_VALUE_MAX_SIZE, NEW b,
           \A i \in 1..Len(in) : in[i] # NUL
    PROVE  CString(Put(Cleared(b), 0, in)) = in
<1> DEFINE p == Put(Cleared(b), 0, in)
           n == Len(in) + 1
<1>1. /\ p \in Seq(Marks) /\ Len(p) = DETAIL_VALUE_MAX_SIZE
      /\ n \in 1..DETAIL_VALUE_MAX_SIZE
      /\ \A i \in 1..Len(in) : p[i] = in[i]
      /\ p[n] = NUL
  BY CopiedIs
<1> HIDE DEF p
<1>2. n \in 1..Len(p) /\ \A i \in 1..(n - 1) : p[i] # NUL
  BY <1>1
<1>3. CString(p) = SubSeq(p, 1, n - 1)
  <2> HIDE DEF n
  <2> QED
    BY <1>1, <1>2, CutAtNul
<1>4. SubSeq(p, 1, n - 1) = in
  BY <1>1, <1>2
<1> QED
  BY <1>3, <1>4 DEF p

LEMMA TerminatedIsRead ==
    ASSUME NEW in \in Seq(Marks), Len(in) + 1 < DETAIL_VALUE_MAX_SIZE, NEW b,
           \A i \in 1..Len(in) : in[i] # NUL
    PROVE  /\ Put(Cleared(b), 0, in \o <<NUL>>) \in Seq(Marks)
           /\ Len(Put(Cleared(b), 0, in \o <<NUL>>)) = DETAIL_VALUE_MAX_SIZE
           /\ CString(Put(Cleared(b), 0, in \o <<NUL>>)) = in
<1> DEFINE z == <<NUL>>
           t == in \o z
           p == Put(Cleared(b), 0, t)
           n == Len(in) + 1
<1>1. z \in Seq(Marks) /\ Len(z) = 1 /\ z[1] = NUL
  BY DEF Marks
<1> HIDE DEF z
<1>2. /\ t \in Seq(Marks) /\ Len(t) = Len(in) + Len(z)
      /\ \A i \in 1..Len(in) : t[i] = in[i]
      /\ \A i \in 1..Len(z) : t[Len(in) + i] = z[i]
  BY <1>1, Joined
<1> HIDE DEF t
<1>3. Len(t) = n /\ t[n] = NUL
  BY <1>1, <1>2
<1>4. /\ p \in Seq(Marks) /\ Len(p) = DETAIL_VALUE_MAX_SIZE
      /\ Len(t) + 1 \in 1..DETAIL_VALUE_MAX_SIZE
      /\ \A i \in 1..Len(t) : p[i] = t[i]
  BY <1>2, <1>3, CopiedIs
<1> HIDE DEF p
<1>5. n \in 1..Len(p) /\ p[n] = NUL /\ \A i \in 1..(n - 1) : p[i] = in[i] /\ p[i] # NUL
  <2>1. n \in 1..Len(t) /\ n <= DETAIL_VALUE_MAX_SIZE
    BY <1>3, SizeIs
  <2>2. \A i \in 1..Len(in) : i \in 1..Len(t)
    BY <1>3
  <2> QED
    BY <1>2, <1>3, <1>4, <2>1, <2>2
<1>6. CString(p) = SubSeq(p, 1, n - 1)
  <2> HIDE DEF n
  <2> QED
    BY <1>4, <1>5, CutAtNul
<1>7. SubSeq(p, 1, n - 1) = in
  BY <1>4, <1>5
<1> QED
  BY <1>4, <1>6, <1>7 DEF p, t, z

(***************************************************************************)
(* A text too long for the display gives its ends (print_summary).         *)
(***************************************************************************)
LEMMA EndIs ==
    ASSUME NEW T, NEW s \in Seq(T), NEW n \in Nat, n <= Len(s)
    PROVE  SubSeq(s, Len(s) - n + 1, Len(s)) \in Seq(T)
           /\ Len(SubSeq(s, Len(s) - n + 1, Len(s))) = n
OBVIOUS

LEMMA StartIs ==
    ASSUME NEW T, NEW s \in Seq(T), NEW n \in Nat, n <= Len(s)
    PROVE  SubSeq(s, 1, n) \in Seq(T) /\ Len(SubSeq(s, 1, n)) = n
OBVIOUS

LEMMA ElidedType ==
    ASSUME NEW T, "." \in T, NEW in \in Seq(T), Len(in) > 14
    PROVE  Elided(in) \in Seq(T) /\ Len(Elided(in)) = 14
<1> DEFINE l == SubSeq(in, 1, 6)
           m == <<".", ".">>
           r == SubSeq(in, Len(in) - 5, Len(in))
<1>1. l \in Seq(T) /\ Len(l) = 6
  <2>1. 6 \in Nat /\ 6 <= Len(in)
    OBVIOUS
  <2> QED
    BY <2>1, StartIs
<1>2. m \in Seq(T) /\ Len(m) = 2
  OBVIOUS
<1>3. r \in Seq(T) /\ Len(r) = 6
  <2>1. 6 \in Nat /\ 6 <= Len(in) /\ Len(in) - 6 + 1 = Len(in) - 5
    OBVIOUS
  <2>2. /\ SubSeq(in, Len(in) - 6 + 1, Len(in)) \in Seq(T)
        /\ Len(SubSeq(in, Len(in) - 6 + 1, Len(in))) = 6
    BY <2>1, EndIs
  <2> QED
    BY <2>1, <2>2
<1> HIDE DEF l, m, r
<1>4. l \o m \in Seq(T) /\ Len(l \o m) = Len(l) + Len(m)
  BY <1>1, <1>2, Joined
<1>5. (l \o m) \o r \in Seq(T) /\ Len((l \o m) \o r) = Len(l \o m) + Len(r)
  BY <1>3, <1>4, Joined
<1>6. Len((l \o m) \o r) = 14
  BY <1>1, <1>2, <1>3, <1>4, <1>5
<1> QED
  BY <1>5, <1>6 DEF Elided, l, m, r

\* A NUL within it ends what is read of the buffer.
LEMMA EndsAt ==
    ASSUME NEW T, NEW b \in Seq(T), NEW n \in 1..Len(b), b[n] = NUL
    PROVE  Len(CString(b)) \in Nat /\ Len(CString(b)) <= n - 1
BY CStringType

LEMMA SummaryType ==
    ASSUME NEW in \in Seq(Marks), NEW b
    PROVE  /\ Len(print_summary(in, Cleared(b))) = DETAIL_VALUE_MAX_SIZE
           /\ Len(CString(print_summary(in, Cleared(b)))) <= 14
<1>1. CASE Len(in) > 14
  <2> DEFINE e == Elided(in)
             z == <<NUL>>
             t == e \o z
             p == Put(Cleared(b), 0, t)
  <2>1. "." \in Marks /\ NUL \in Marks
    BY DEF Marks, Chars
  <2>2. e \in Seq(Marks) /\ Len(e) = 14
    BY <1>1, <2>1, ElidedType
  <2>3. z \in Seq(Marks) /\ Len(z) = 1 /\ z[1] = NUL
    BY <2>1
  <2>4. print_summary(in, Cleared(b)) = p
    BY <1>1 DEF print_summary
  <2> HIDE DEF e, z
  <2>5. /\ t \in Seq(Marks) /\ Len(t) = Len(e) + Len(z)
        /\ \A i \in 1..Len(z) : t[Len(e) + i] = z[i]
    <3>1. e \in Seq(Marks) /\ z \in Seq(Marks)
      BY <2>2, <2>3
    <3> QED
      BY <3>1, Joined
  <2> HIDE DEF t
  <2>6. Len(t) = 15 /\ t[Len(t)] = NUL /\ Len(t) \in 1..Len(t)
    <3>1. Len(t) = Len(e) + 1 /\ 1 \in 1..Len(z)
      BY <2>3, <2>5
    <3>2. t[Len(e) + 1] = NUL
      BY <2>3, <2>5, <3>1
    <3> QED
      BY <2>2, <3>1, <3>2
  <2>7. /\ p \in Seq(Marks) /\ Len(p) = DETAIL_VALUE_MAX_SIZE
        /\ \A i \in 1..Len(t) : p[i] = t[i]
    <3>1. Len(t) = 15 /\ 15 < DETAIL_VALUE_MAX_SIZE
      BY <2>6, SizeIs
    <3>2. t \in Seq(Marks) /\ Len(t) < DETAIL_VALUE_MAX_SIZE
      BY <2>5, <3>1
    <3> QED
      BY <3>2, CopiedIs
  <2> HIDE DEF p
  <2> DEFINE n == Len(t)
  <2>8. n \in 1..Len(p) /\ p[n] = NUL /\ n = 15
    BY <2>6, <2>7, SizeIs
  <2> HIDE DEF n
  <2>9. Len(CString(p)) \in Nat /\ Len(CString(p)) <= n - 1
    BY <2>7, <2>8, EndsAt
  <2> QED
    BY <2>4, <2>7, <2>8, <2>9
<1>2. CASE Len(in) <= 14
  <2> DEFINE p == Put(Cleared(b), 0, in)
             n == Len(in) + 1
  <2>1. print_summary(in, Cleared(b)) = p
    BY <1>2 DEF print_summary
  <2>2. /\ p \in Seq(Marks) /\ Len(p) = DETAIL_VALUE_MAX_SIZE
        /\ n \in 1..DETAIL_VALUE_MAX_SIZE /\ p[n] = NUL
    <3>1. Len(in) < DETAIL_VALUE_MAX_SIZE
      BY <1>2, SizeIs
    <3> QED
      BY <3>1, CopiedIs
  <2> HIDE DEF p
  <2>3. n - 1 = Len(in) /\ Len(in) \in Nat
    OBVIOUS
  <2> HIDE DEF n
  <2>4. Len(CString(p)) \in Nat /\ Len(CString(p)) <= n - 1
    BY <2>2, EndsAt
  <2> QED
    BY <1>2, <2>1, <2>2, <2>3, <2>4
<1> QED
  BY <1>1, <1>2

(***************************************************************************)
(* Of a text without a NUL the page shows what the reference has.          *)
(***************************************************************************)
LEMMA SummaryIs ==
    ASSUME NEW in \in Seq(Chars), NEW b
    PROVE  CString(print_summary(in, Cleared(b))) = Summary(in, 6, 6)
<1>1. Chars \subseteq Marks /\ in \in Seq(Marks)
  BY DEF Marks
<1>2. CASE Len(in) > 14
  <2> DEFINE e == Elided(in)
  <2>1. e \in Seq(Chars) /\ Len(e) = 14
    <3>1. "." \in Chars
      BY DEF Chars
    <3> QED
      BY <1>2, <3>1, ElidedType
  <2>2. e = Summary(in, 6, 6)
    <3>1. Len(in) - 6 + 1 = Len(in) - 5 /\ ~(Len(in) <= 6 + 6 + 2)
      BY <1>2
    <3> QED
      BY <3>1 DEF Elided, Summary
  <2>3. print_summary(in, Cleared(b)) = Put(Cleared(b), 0, e \o <<NUL>>)
    BY <1>2 DEF print_summary
  <2> HIDE DEF e
  <2>4. e \in Seq(Marks) /\ Len(e) + 1 < DETAIL_VALUE_MAX_SIZE
    BY <1>1, <2>1, SizeIs
  <2>5. \A i \in 1..Len(e) : e[i] # NUL
    <3>1. e \in Seq(Chars)
      BY <2>1
    <3> QED
      BY <3>1, CharsType
  <2>6. CString(Put(Cleared(b), 0, e \o <<NUL>>)) = e
    BY <2>4, <2>5, TerminatedIsRead
  <2> QED
    BY <2>2, <2>3, <2>6
<1>3. CASE Len(in) <= 14
  <2>1. print_summary(in, Cleared(b)) = Put(Cleared(b), 0, in)
    BY <1>3 DEF print_summary
  <2>2. Len(in) < DETAIL_VALUE_MAX_SIZE /\ \A i \in 1..Len(in) : in[i] # NUL
    BY <1>3, SizeIs, CharsType
  <2>3. Summary(in, 6, 6) = in
    BY <1>3 DEF Summary
  <2>4. CString(Put(Cleared(b), 0, in)) = in
    BY <1>1, <2>2, CopiedIsRead
  <2> QED
    BY <2>1, <2>3, <2>4
<1> QED
  BY <1>2, <1>3

-----------------------------------------------------------------------------
(***************************************************************************)
(* Names: what rtrim finds, and the NUL that parse_name puts behind it.    *)
(***************************************************************************)
LEMMA LargestNatural ==
    ASSUME NEW n \in Nat, NEW S, S \subseteq 1..n, S # {}
    PROVE  Max(S) \in S /\ \A i \in S : i <= Max(S)
<1> DEFINE R == {k \in Nat : \E i \in S : k = n - i}
<1>1. R \subseteq Nat /\ R # {}
  <2>1. PICK i \in S : TRUE
    OBVIOUS
  <2>2. n - i \in Nat /\ n - i \in R
    BY <2>1
  <2> QED
    BY <2>2
<1>2. PICK m \in R : \A k \in R : m <= k
  <2> HIDE DEF R
  <2> QED
    BY <1>1, LeastNatural
<1>3. PICK i \in S : m = n - i
  BY <1>2
<1>4. ASSUME NEW j \in S
      PROVE  j <= i
  <2>1. n - j \in R
    OBVIOUS
  <2>2. m <= n - j /\ i \in 1..n /\ j \in 1..n
    BY <1>2, <2>1
  <2> HIDE DEF R
  <2> QED
    BY <1>3, <2>2
<1>5. \E x \in S : \A y \in S : x >= y
  BY <1>3, <1>4
<1>6. Max(S) \in S /\ \A y \in S : Max(S) >= y
  BY <1>5 DEF Max
<1> QED
  BY <1>6

\* The last character that is not a dot.
LEMMA LastIs ==
    ASSUME NEW T, NEW s \in Seq(T), NEW m \in 0..Len(s)
    PROVE  LET last == SelectLastInSubSeq(s, 1, m, LAMBDA c : c # ".")
           IN  /\ last \in 0..m
               /\ last # 0 => s[last] # "."
               /\ \A i \in 1..m : i > last => s[i] = "."
<1> DEFINE I == {i \in 1..m : s[i] # "."}
           last == SelectLastInSubSeq(s, 1, m, LAMBDA c : c # ".")
<1>1. last = IF I # {} THEN Max(I) ELSE 0
  BY DEF SelectLastInSubSeq
<1> HIDE DEF last
<1>2. CASE I = {}
  <2>1. \A i \in 1..m : s[i] = "."
    BY <1>2
  <2> QED
    BY <1>1, <1>2, <2>1 DEF last
<1>3. CASE I # {}
  <2>1. I \subseteq 1..m /\ m \in Nat
    OBVIOUS
  <2>2. last \in I /\ \A i \in I : i <= last
    <3> HIDE DEF I
    <3> QED
      BY <1>1, <1>3, <2>1, LargestNatural
  <2>3. last \in 1..m /\ s[last] # "." /\ \A i \in 1..m : s[i] # "." => i <= last
    BY <2>2
  <2> QED
    BY <2>1, <2>3 DEF last
<1> QED
  BY <1>2, <1>3

LEMMA LastIsOne ==
    ASSUME NEW s, NEW m \in Nat, NEW a \in 0..m, NEW b \in 0..m,
           a # 0 => s[a] # ".", \A i \in 1..m : i > a => s[i] = ".",
           b # 0 => s[b] # ".", \A i \in 1..m : i > b => s[i] = "."
    PROVE  a = b
OBVIOUS

LEMMA MemoryIs ==
    ASSUME NEW T, NEW below \in T, NEW name \in Seq(T), NEW behind \in Seq(T)
    PROVE  LET mem == <<below>> \o name \o behind
           IN  /\ mem \in Seq(T) /\ Len(mem) = 1 + Len(name) + Len(behind)
               /\ mem[1] = below /\ \A i \in 1..Len(name) : mem[1 + i] = name[i]
<1> DEFINE b == <<below>>
           c == b \o name
           mem == c \o behind
<1>1. b \in Seq(T) /\ Len(b) = 1 /\ b[1] = below
  OBVIOUS
<1> HIDE DEF b
<1>2. /\ c \in Seq(T) /\ Len(c) = Len(b) + Len(name)
      /\ \A i \in 1..Len(b) : c[i] = b[i]
      /\ \A i \in 1..Len(name) : c[Len(b) + i] = name[i]
  <2>1. b \in Seq(T) /\ name \in Seq(T)
    BY <1>1
  <2> QED
    BY <2>1, Joined
<1> HIDE DEF c
<1>3. /\ mem \in Seq(T) /\ Len(mem) = Len(c) + Len(behind)
      /\ \A i \in 1..Len(c) : mem[i] = c[i]
  <2>1. c \in Seq(T) /\ behind \in Seq(T)
    BY <1>2
  <2> QED
    BY <2>1, Joined
<1> HIDE DEF mem
<1>4. mem[1] = below /\ \A i \in 1..Len(name) : mem[1 + i] = name[i]
  BY <1>1, <1>2, <1>3
<1>5. mem \in Seq(T) /\ Len(mem) = 1 + Len(name) + Len(behind)
  BY <1>1, <1>2, <1>3
<1> QED
  BY <1>4, <1>5 DEF mem, c, b

LEMMA TupleType ==
    ASSUME NEW T, NEW U, T \subseteq U, NEW n \in Nat, NEW s \in [1..n -> T]
    PROVE  s \in Seq(T) /\ s \in Seq(U) /\ Len(s) = n
OBVIOUS

LEMMA PartIs ==
    ASSUME NEW T, NEW s \in Seq(T), NEW m \in Nat \ {0}, NEW n \in m..Len(s)
    PROVE  /\ SubSeq(s, m, n) \in Seq(T) /\ Len(SubSeq(s, m, n)) = n - m + 1
           /\ \A i \in 1..(n - m + 1) : SubSeq(s, m, n)[i] = s[m - 1 + i]
OBVIOUS

LEMMA NameType ==
    ASSUME NEW below \in Chars, NEW name \in [1..13 -> Chars], NEW behind \in Seq(Chars)
    PROVE  CString(parse_name(name, below, behind)) \in Seq(Marks)
<1> DEFINE mem == <<below>> \o name \o behind
           last == TrimmedAt(mem)
           z == <<NUL>>
           q == Put(mem, last, z)
           p == SubSeq(q, 2, 14)
<1>1. below \in Marks /\ name \in Seq(Marks) /\ behind \in Seq(Marks) /\ Len(name) = 13
  <2>1. Chars \subseteq Marks
    BY DEF Marks
  <2>2. name \in Seq(Marks) /\ Len(name) = 13
    <3>1. \A n \in Nat : \A s \in [1..n -> Chars] : s \in Seq(Marks) /\ Len(s) = n
      BY <2>1, TupleType
    <3> QED
      BY <3>1
  <2>3. below \in Marks /\ behind \in Seq(Marks)
    BY <2>1
  <2> QED
    BY <2>2, <2>3
<1>2. mem \in Seq(Marks) /\ Len(mem) = 1 + Len(name) + Len(behind)
  <2>1. below \in Marks /\ name \in Seq(Marks) /\ behind \in Seq(Marks)
    BY <1>1
  <2> QED
    BY <2>1, MemoryIs
<1>3. Len(mem) - 1 \in 0..Len(mem)
  BY <1>1, <1>2
<1>4. last \in 0..Len(mem)
  <2> HIDE DEF mem
  <2>1. last \in 0..(Len(mem) - 1)
    BY <1>2, <1>3, LastIs DEF TrimmedAt
  <2> QED
    BY <1>2, <2>1
<1> HIDE DEF last, mem
<1>5. q \in Seq(Marks) /\ Len(q) >= Len(mem)
  <2>1. z \in Seq(Marks) /\ Len(z) = 1
    BY DEF Marks
  <2> HIDE DEF z
  <2>2. /\ q \in Seq(Marks)
        /\ Len(q) = IF last + Len(z) <= Len(mem) THEN Len(mem) ELSE last + Len(z)
    <3>1. mem \in Seq(Marks) /\ last \in 0..Len(mem) /\ z \in Seq(Marks)
      BY <1>2, <1>4, <2>1
    <3> QED
      BY <3>1, PutIs
  <2> QED
    BY <1>2, <1>4, <2>1, <2>2
<1> HIDE DEF q
<1>6. p \in Seq(Marks)
  <2>1. Len(mem) >= 14 /\ Len(mem) \in Nat
    BY <1>1, <1>2
  <2>2. 2 \in Nat \ {0} /\ 14 \in 2..Len(q)
    BY <1>5, <2>1
  <2> QED
    BY <1>5, <2>2, PartIs
<1>7. parse_name(name, below, behind) = p
  BY DEF parse_name, p, q, z, last, mem
<1> HIDE DEF p
<1> QED
  BY <1>6, <1>7, CStringType

(***************************************************************************)
(* A name that ends with a dot loses its last dots and nothing else.       *)
(***************************************************************************)
LastKept(name) == SelectLastInSeq(name, LAMBDA c : c # ".")

LEMMA TrimmedIs ==
    ASSUME NEW below \in Chars, below # ".",
           NEW name \in Seq(Chars), NEW m \in Nat \ {0}, Len(name) = m, name[m] = ".",
           NEW behind \in Seq(Chars), Len(behind) <= 1
    PROVE  LET mem == <<below>> \o name \o behind
               n == LastKept(name)
           IN  /\ TrimmedAt(mem) = n + 1 /\ n \in 0..(m - 1)
               /\ mem \in Seq(Chars) /\ m + 1 <= Len(mem)
               /\ \A i \in 1..m : mem[1 + i] = name[i]
<1> DEFINE mem == <<below>> \o name \o behind
           n == LastKept(name)
           l == Len(mem) - 1
           last == TrimmedAt(mem)
<1>1. /\ mem \in Seq(Chars) /\ Len(mem) = 1 + Len(name) + Len(behind)
      /\ mem[1] = below /\ \A i \in 1..Len(name) : mem[1 + i] = name[i]
  BY MemoryIs
<1>2. n \in 0..m /\ (n # 0 => name[n] # ".") /\ \A i \in 1..m : i > n => name[i] = "."
  <2>1. m \in 0..Len(name)
    OBVIOUS
  <2>2. n = SelectLastInSubSeq(name, 1, m, LAMBDA c : c # ".")
    BY DEF LastKept, SelectLastInSeq, SelectLastInSubSeq
  <2> HIDE DEF n
  <2> QED
    BY <2>1, <2>2, LastIs
<1> HIDE DEF mem, n
<1>3. l \in 0..Len(mem) /\ m <= l /\ l <= m + 1
  BY <1>1
<1>4. last \in 0..l /\ (last # 0 => mem[last] # ".") /\ \A i \in 1..l : i > last => mem[i] = "."
  <2>1. last = SelectLastInSubSeq(mem, 1, l, LAMBDA c : c # ".")
    BY DEF TrimmedAt
  <2> HIDE DEF last, l
  <2> QED
    BY <1>1, <1>3, <2>1, LastIs
<1> HIDE DEF last
<1>5. n \in 0..(m - 1)
  BY <1>2
<1> DEFINE k == n + 1
<1>6. k \in 0..l /\ mem[k] # "."
  <2>1. CASE n = 0
    BY <1>1, <1>3, <1>5, <2>1
  <2>2. CASE n # 0
    <3>1. n \in 1..Len(name) /\ k = 1 + n
      BY <1>5, <2>2
    <3> QED
      BY <1>1, <1>2, <1>3, <1>5, <2>2, <3>1
  <2> QED
    BY <2>1, <2>2
<1>7. ASSUME NEW i \in 1..l, i > k
      PROVE  mem[i] = "."
  <2> DEFINE j == i - 1
  <2>1. j \in 1..m /\ j > n /\ i = 1 + j
    BY <1>3, <1>5, <1>7
  <2> HIDE DEF j
  <2>2. mem[i] = name[j]
    BY <1>1, <2>1
  <2> QED
    BY <1>2, <2>1, <2>2
<1>8. last = k
  <2>1. l \in Nat /\ last \in 0..l /\ k \in 0..l
    BY <1>1, <1>3, <1>4, <1>6
  <2> HIDE DEF l, k
  <2> QED
    BY <1>4, <1>6, <1>7, <2>1, LastIsOne
<1>9. m + 1 <= Len(mem)
  BY <1>1
<1> QED
  BY <1>1, <1>5, <1>8, <1>9 DEF last, mem, n

LEMMA NulIsPut ==
    ASSUME NEW below \in Chars, below # ".",
           NEW name \in Seq(Chars), NEW m \in Nat \ {0}, Len(name) = m, name[m] = ".",
           NEW behind \in Seq(Chars), Len(behind) <= 1
    PROVE  LET n == LastKept(name)
               mem == <<below>> \o name \o behind
           IN  /\ CString(SubSeq(Put(mem, TrimmedAt(mem), <<NUL>>), 2, m + 1)) = SubSeq(name, 1, n)
               /\ SubSeq(name, 1, n) \in Seq(Chars)
<1> DEFINE n == LastKept(name)
           mem == <<below>> \o name \o behind
           z == <<NUL>>
           q == Put(mem, TrimmedAt(mem), z)
           p == SubSeq(q, 2, m + 1)
<1>1. /\ TrimmedAt(mem) = n + 1 /\ n \in 0..(m - 1)
      /\ mem \in Seq(Chars) /\ m + 1 <= Len(mem)
      /\ \A i \in 1..m : mem[1 + i] = name[i]
  BY TrimmedIs
<1> DEFINE k == n + 1
<1> HIDE DEF n, mem
<1>2. mem \in Seq(Marks) /\ z \in Seq(Marks) /\ Len(z) = 1 /\ z[1] = NUL /\ k \in 0..Len(mem)
  <2>1. mem \in Seq(Marks)
    BY <1>1 DEF Marks
  <2>2. z \in Seq(Marks)
    BY DEF Marks
  <2> QED
    BY <1>1, <2>1, <2>2
<1>3. k = n + 1 /\ n \in Nat /\ k \in 1..m
  BY <1>1
<1> HIDE DEF z, k
<1>4. /\ q \in Seq(Marks)
      /\ Len(q) = IF k + Len(z) <= Len(mem) THEN Len(mem) ELSE k + Len(z)
      /\ \A i \in 1..k : q[i] = mem[i]
      /\ \A i \in 1..Len(z) : q[k + i] = z[i]
  <2>1. mem \in Seq(Marks) /\ z \in Seq(Marks) /\ k \in 0..Len(mem)
    BY <1>2
  <2>2. q = Put(mem, k, z)
    BY <1>1, <1>3
  <2> HIDE DEF q
  <2> QED
    BY <2>1, <2>2, PutIs
<1> HIDE DEF q
<1>5. Len(q) >= m + 1 /\ Len(q) \in Nat /\ q[1 + k] = NUL
  BY <1>1, <1>2, <1>4, <1>3
<1>6. p \in Seq(Marks) /\ Len(p) = m /\ \A i \in 1..m : p[i] = q[1 + i]
  <2>1. 2 \in Nat \ {0} /\ m + 1 \in 2..Len(q) /\ (m + 1) - 2 + 1 = m /\ 2 - 1 = 1
    BY <1>5
  <2>2. q \in Seq(Marks)
    BY <1>4
  <2>3. \A a \in Nat \ {0} : \A b \in a..Len(q) :
          /\ SubSeq(q, a, b) \in Seq(Marks) /\ Len(SubSeq(q, a, b)) = b - a + 1
          /\ \A i \in 1..(b - a + 1) : SubSeq(q, a, b)[i] = q[a - 1 + i]
    BY <2>2, PartIs
  <2>4. /\ p \in Seq(Marks) /\ Len(p) = (m + 1) - 2 + 1
        /\ \A i \in 1..((m + 1) - 2 + 1) : p[i] = q[2 - 1 + i]
    BY <2>1, <2>3
  <2> HIDE DEF p
  <2> QED
    BY <2>1, <2>4
<1> HIDE DEF p
<1>7. k \in 1..Len(p) /\ p[k] = NUL
  BY <1>3, <1>5, <1>6
<1>8. \A i \in 1..n : p[i] = name[i] /\ name[i] \in Chars /\ name[i] # NUL
  <2> SUFFICES ASSUME NEW i \in 1..n PROVE p[i] = name[i] /\ name[i] \in Chars /\ name[i] # NUL
    OBVIOUS
  <2>1. i \in 1..m /\ 1 + i \in 1..k
    BY <1>1, <1>3
  <2>2. p[i] = mem[1 + i]
    BY <1>4, <1>6, <2>1
  <2>3. name[i] \in Chars /\ name[i] # NUL
    BY <2>1, CharsType
  <2> QED
    BY <1>1, <2>1, <2>2, <2>3
<1>9. CString(p) = SubSeq(p, 1, n)
  <2>1. k - 1 = n
    BY <1>3
  <2>2. p \in Seq(Marks) /\ k \in 1..Len(p) /\ p[k] = NUL /\ \A i \in 1..(k - 1) : p[i] # NUL
    BY <1>6, <1>7, <1>8, <2>1
  <2>3. CString(p) = SubSeq(p, 1, k - 1)
    BY <2>2, CutAtNul
  <2> QED
    BY <2>1, <2>3
<1>10. n \in 0..Len(p) /\ n \in 0..Len(name)
  BY <1>1, <1>6
<1>11. SubSeq(p, 1, n) = SubSeq(name, 1, n) /\ SubSeq(name, 1, n) \in Seq(Chars)
  <2>1. /\ SubSeq(p, 1, n) = [i \in 1..n |-> p[i]]
        /\ SubSeq(name, 1, n) = [i \in 1..n |-> name[i]]
    BY <1>6, <1>10
  <2>2. SubSeq(name, 1, n) \in Seq(Chars)
    BY <1>8, <1>10, <2>1
  <2> QED
    BY <1>8, <2>1, <2>2
<1> QED
  BY <1>9, <1>11 DEF n, p, q, z, mem

LEMMA NameIs ==
    ASSUME NEW below \in Chars, below # ".", NEW behind \in Seq(Chars), Len(behind) <= 1
    PROVE  \A name \in [1..13 -> Chars] :
             name[13] = "." =>
               LET n == LastKept(name)
               IN  /\ CString(parse_name(name, below, behind)) = SubSeq(name, 1, n)
                   /\ SubSeq(name, 1, n) \in Seq(Chars)
<1>1. \A n \in Nat : \A s \in [1..n -> Chars] : s \in Seq(Chars) /\ Len(s) = n
  BY TupleType
<1>2. \A m \in Nat \ {0} : \A s \in Seq(Chars) : Len(s) = m /\ s[m] = "." =>
        LET n == LastKept(s)
            mem == <<below>> \o s \o behind
        IN  /\ CString(SubSeq(Put(mem, TrimmedAt(mem), <<NUL>>), 2, m + 1)) = SubSeq(s, 1, n)
            /\ SubSeq(s, 1, n) \in Seq(Chars)
  BY NulIsPut
<1>3. 13 \in Nat \ {0} /\ 13 + 1 = 14
  OBVIOUS
<1>4. \A s \in Seq(Chars) : Len(s) = 13 /\ s[13] = "." =>
        LET mem == <<below>> \o s \o behind
        IN  /\ CString(SubSeq(Put(mem, TrimmedAt(mem), <<NUL>>), 2, 13 + 1))
                 = SubSeq(s, 1, LastKept(s))
            /\ SubSeq(s, 1, LastKept(s)) \in Seq(Chars)
  BY <1>2, <1>3
<1>5. \A s \in Seq(Chars) : Len(s) = 13 /\ s[13] = "." =>
        /\ CString(parse_name(s, below, behind)) = SubSeq(s, 1, LastKept(s))
        /\ SubSeq(s, 1, LastKept(s)) \in Seq(Chars)
  BY <1>3, <1>4 DEF parse_name
<1>6. \A name \in [1..13 -> Chars] : name \in Seq(Chars) /\ Len(name) = 13
  BY <1>1
<1> QED
  BY <1>5, <1>6

-----------------------------------------------------------------------------
(***************************************************************************)
(* Assets: the digits behind the 1 that keeps the zeros of a fraction, and *)
(* the point that PointInserted moves them away from (format_asset).       *)
(***************************************************************************)
LEMMA FillType ==
    ASSUME NEW T, NEW c \in T, NEW n \in Nat
    PROVE  Fill(n, c) \in Seq(T) /\ Len(Fill(n, c)) = n /\ \A i \in 1..n : Fill(n, c)[i] = c
BY DEF Fill

LEMMA PrintPositive ==
    ASSUME NEW l \in Nat \ {0}
    PROVE  print_int(l) = Written(l)
<1>1. WORD \div 2 \in Nat
  BY WordAssumption
<1>2. l # 0 /\ ~(l < 0) /\ l # -(WORD \div 2) /\ Magnitude(l) = l
  BY <1>1 DEF Magnitude
<1>3. Digits(l) = Written(l)
  BY DigitsAre
<1>4. print_int(l) = <<>> \o Written(l)
  BY <1>2, <1>3 DEF print_int
<1>5. Written(l) \in Seq(Chars)
  BY WrittenType
<1> QED
  BY <1>4, <1>5

\* The figures of a fraction are those of the number with the 1 before it.
LEMMA FractionDigits ==
    ASSUME NEW d \in Nat, NEW frac \in 0..(Power(10, d) - 1), NEW i \in 1..d
    PROVE  ((Power(10, d) + frac) \div Power(10, d - i)) % 10 = (frac \div Power(10, d - i)) % 10
<1> DEFINE q == Power(10, d - i)
           r == Power(10, i - 1)
           e == frac \div q
<1>1. d - i \in Nat /\ i - 1 \in Nat /\ Power(10, d) \in Nat /\ frac \in Nat
  BY PowerPositive
<1>2. q \in Nat \ {0} /\ r \in Nat \ {0} /\ Power(10, (i - 1) + 1) = 10 * r
  <2>1. q \in Nat \ {0} /\ r \in Nat \ {0}
    BY <1>1, PowerPositive
  <2>2. Power(10, (i - 1) + 1) = 10 * r
    BY <1>1, PowerNext
  <2> QED
    BY <2>1, <2>2
<1>3. Power(10, d) = q * (10 * r)
  <2>1. Power(10, (d - i) + i) = Power(10, d - i) * Power(10, i)
    BY <1>1, PowerSum
  <2>2. (d - i) + i = d /\ (i - 1) + 1 = i
    OBVIOUS
  <2> QED
    BY <1>2, <2>1, <2>2
<1>4. e \in Nat /\ frac = e * q + (frac % q) /\ frac % q \in 0..(q - 1)
  BY <1>1, <1>2, Divided
<1> HIDE DEF q, r, e
<1>5. q * (10 * r) + frac = q * (10 * r + e) + (frac % q)
  <2> DEFINE t == 10 * r
             u == frac % q
  <2>1. t \in Nat /\ u \in Nat /\ frac = e * q + u
    BY <1>2, <1>4
  <2> HIDE DEF t, u
  <2>2. q * (t + e) = q * t + e * q
    BY <1>2, <1>4, <2>1
  <2> QED
    BY <1>2, <1>4, <2>1, <2>2 DEF t, u
<1>6. (q * (10 * r) + frac) \div q = 10 * r + e
  <2>1. 10 * r + e \in Nat
    BY <1>2, <1>4
  <2> DEFINE n == q * (10 * r) + frac
             u == 10 * r + e
             t == frac % q
  <2>2. n = q * u + t /\ u \in Nat /\ t \in 0..(q - 1)
    BY <1>4, <1>5, <2>1
  <2> HIDE DEF n, u, t
  <2>3. n \div q = u
    BY <1>2, <2>2, QuotientIs
  <2> QED
    BY <2>3 DEF n, u
<1>7. (10 * r + e) % 10 = e % 10
  BY <1>2, <1>4
<1> QED
  BY <1>3, <1>6, <1>7 DEF q, e

\* The 1 with its digits behind it, as print_int writes it.
LEMMA MarkedIs ==
    ASSUME NEW d \in Nat, NEW frac \in 0..(Power(10, d) - 1)
    PROVE  LET w == print_int(Power(10, d) + frac)
           IN  /\ w \in Seq(Chars) /\ Len(w) = d + 1
               /\ \A i \in 1..d : w[1 + i] = Decimal(frac, d)[i]
<1> DEFINE n == Power(10, d) + frac
           w == Decimal(n, d + 1)
<1>1. Power(10, d) \in Nat \ {0} /\ frac \in Nat /\ Power(10, d + 1) = 10 * Power(10, d)
  BY PowerPositive, PowerNext
<1>2. n \in Nat \ {0} /\ Power(10, d) <= n /\ n < Power(10, d + 1)
  BY <1>1
<1>3. IsWidth(n, d + 1)
  <2>1. (d + 1) - 1 = d
    OBVIOUS
  <2> QED
    BY <1>2, <2>1 DEF IsWidth
<1> HIDE DEF n
<1>4. Tens(n) = d + 1
  BY <1>2, <1>3, TensIs, WidthIsOne
<1>5. print_int(n) = w
  BY <1>2, <1>4, PrintPositive DEF Written
<1>6. /\ w \in Seq(Chars) /\ Len(w) = d + 1
      /\ \A i \in 1..(d + 1) : w[i] = Numeral((n \div Power(10, (d + 1) - i)) % 10)
  BY <1>2, DecimalType
<1>7. \A i \in 1..d : Decimal(frac, d)[i] = Numeral((frac \div Power(10, d - i)) % 10)
  BY <1>1, DecimalType
<1> HIDE DEF w
<1>8. ASSUME NEW i \in 1..d
      PROVE  w[1 + i] = Decimal(frac, d)[i]
  <2>1. 1 + i \in 1..(d + 1) /\ (d + 1) - (1 + i) = d - i
    OBVIOUS
  <2>2. w[1 + i] = Numeral((n \div Power(10, d - i)) % 10)
    BY <1>6, <2>1
  <2>3. (n \div Power(10, d - i)) % 10 = (frac \div Power(10, d - i)) % 10
    BY FractionDigits DEF n
  <2> QED
    BY <1>7, <2>2, <2>3
<1> QED
  BY <1>5, <1>6, <1>8 DEF n

\* Two overlapping copies, and a point in between.
LEMMA PointIs ==
    ASSUME NEW f \in Seq(Marks), POINTER + 2 <= Len(f)
    PROVE  /\ PointInserted(f) \in Seq(Marks) /\ POINTER + 3 <= Len(PointInserted(f))
           /\ PointInserted(f)[1] = f[1] /\ PointInserted(f)[2] = "."
           /\ \A i \in 1..(POINTER + 1) : PointInserted(f)[2 + i] = f[1 + i]
<1> DEFINE m == SubSeq(f, 2, POINTER + 2)
           c == <<".">>
           g == Put(f, 2, m)
           h == Put(g, 1, c)
<1>1. POINTER \in Nat \ {0}
  BY PointerAssumption
<1>2. m \in Seq(Marks) /\ Len(m) = POINTER + 1 /\ \A i \in 1..(POINTER + 1) : m[i] = f[1 + i]
  <2>1. \A a \in Nat \ {0} : \A b \in a..Len(f) :
          /\ SubSeq(f, a, b) \in Seq(Marks) /\ Len(SubSeq(f, a, b)) = b - a + 1
          /\ \A i \in 1..(b - a + 1) : SubSeq(f, a, b)[i] = f[a - 1 + i]
    BY PartIs
  <2>2. 2 \in Nat \ {0} /\ POINTER + 2 \in 2..Len(f) /\ (POINTER + 2) - 2 + 1 = POINTER + 1 /\ 2 - 1 = 1
    BY <1>1
  <2>3. /\ m \in Seq(Marks) /\ Len(m) = (POINTER + 2) - 2 + 1
        /\ \A i \in 1..((POINTER + 2) - 2 + 1) : m[i] = f[2 - 1 + i]
    BY <2>1, <2>2
  <2> HIDE DEF m
  <2> QED
    BY <2>2, <2>3
<1>3. c \in Seq(Marks) /\ Len(c) = 1 /\ c[1] = "."
  <2>1. "." \in Marks
    BY DEF Marks, Chars
  <2> QED
    BY <2>1
<1> HIDE DEF m, c
<1>4. /\ g \in Seq(Marks)
      /\ Len(g) = IF 2 + Len(m) <= Len(f) THEN Len(f) ELSE 2 + Len(m)
      /\ \A i \in 1..2 : g[i] = f[i]
      /\ \A i \in 1..Len(m) : g[2 + i] = m[i]
  <2>1. f \in Seq(Marks) /\ m \in Seq(Marks)
    BY <1>2
  <2>2. 2 \in 0..Len(f)
    BY <1>1
  <2>3. \A at \in 0..Len(f) :
          /\ Put(f, at, m) \in Seq(Marks)
          /\ Len(Put(f, at, m)) = IF at + Len(m) <= Len(f) THEN Len(f) ELSE at + Len(m)
          /\ \A i \in 1..at : Put(f, at, m)[i] = f[i]
          /\ \A i \in 1..Len(m) : Put(f, at, m)[at + i] = m[i]
    BY <2>1, PutIs
  <2> QED
    BY <2>2, <2>3
<1> HIDE DEF g
<1>5. POINTER + 3 <= Len(g) /\ Len(g) \in Nat
  BY <1>1, <1>2, <1>4
<1>6. /\ h \in Seq(Marks)
      /\ Len(h) = IF 1 + Len(c) <= Len(g) THEN Len(g) ELSE 1 + Len(c)
      /\ \A i \in 1..1 : h[i] = g[i]
      /\ \A i \in 1..Len(c) : h[1 + i] = c[i]
      /\ \A i \in (1 + Len(c) + 1)..Len(g) : h[i] = g[i]
  <2>1. g \in Seq(Marks) /\ c \in Seq(Marks)
    BY <1>3, <1>4
  <2>2. 1 \in 0..Len(g)
    BY <1>1, <1>5
  <2>3. \A at \in 0..Len(g) :
          /\ Put(g, at, c) \in Seq(Marks)
          /\ Len(Put(g, at, c)) = IF at + Len(c) <= Len(g) THEN Len(g) ELSE at + Len(c)
          /\ \A i \in 1..at : Put(g, at, c)[i] = g[i]
          /\ \A i \in 1..Len(c) : Put(g, at, c)[at + i] = c[i]
          /\ \A i \in (at + Len(c) + 1)..Len(g) : Put(g, at, c)[i] = g[i]
    BY <2>1, PutIs
  <2> QED
    BY <2>2, <2>3
<1> HIDE DEF h
<1>7. Len(h) = Len(g) /\ h[1] = f[1] /\ h[2] = "."
  BY <1>1, <1>3, <1>4, <1>5, <1>6
<1>8. ASSUME NEW i \in 1..(POINTER + 1)
      PROVE  h[2 + i] = f[1 + i]
  <2>1. 2 + i \in (1 + Len(c) + 1)..Len(g) /\ i \in 1..Len(m)
    BY <1>1, <1>2, <1>3, <1>5
  <2> QED
    BY <1>2, <1>4, <1>6, <2>1
<1>9. PointInserted(f) = h
  BY DEF PointInserted, h, g, m, c
<1> QED
  BY <1>5, <1>6, <1>7, <1>8, <1>9

\* The ten characters of fracStr, or as many more as print_int writes.
FracStr(l) == Put(Fill(10, JUNK), 0, print_int(l) \o <<NUL>>)

LEMMA FracStrIs ==
    ASSUME NEW l \in Int
    PROVE  /\ FracStr(l) \in Seq(Marks)
           /\ POINTER + 2 <= Len(FracStr(l)) /\ Len(print_int(l)) + 1 <= Len(FracStr(l))
           /\ \A i \in 1..Len(print_int(l)) : FracStr(l)[i] = print_int(l)[i]
           /\ FracStr(l)[Len(print_int(l)) + 1] = NUL
<1> DEFINE w == print_int(l)
           z == <<NUL>>
           s == w \o z
           b == Fill(10, JUNK)
           f == Put(b, 0, s)
<1>1. w \in Seq(Marks)
  <2>1. w \in Seq(Chars) /\ Chars \subseteq Marks
    BY PrintIntType DEF Marks
  <2> QED
    BY <2>1
<1>2. z \in Seq(Marks) /\ Len(z) = 1 /\ z[1] = NUL
  BY DEF Marks
<1>3. b \in Seq(Marks) /\ Len(b) = 10
  <2>1. JUNK \in Marks /\ 10 \in Nat
    BY DEF Marks
  <2> QED
    BY <2>1, FillType
<1> HIDE DEF w, z, b
<1>4. /\ s \in Seq(Marks) /\ Len(s) = Len(w) + Len(z)
      /\ \A i \in 1..Len(w) : s[i] = w[i]
      /\ \A i \in 1..Len(z) : s[Len(w) + i] = z[i]
  <2>1. w \in Seq(Marks) /\ z \in Seq(Marks)
    BY <1>1, <1>2
  <2> QED
    BY <2>1, Joined
<1> HIDE DEF s
<1>5. /\ f \in Seq(Marks)
      /\ Len(f) = IF 0 + Len(s) <= Len(b) THEN Len(b) ELSE 0 + Len(s)
      /\ \A i \in 1..Len(s) : f[0 + i] = s[i]
  <2>1. b \in Seq(Marks) /\ s \in Seq(Marks)
    BY <1>3, <1>4
  <2>2. 0 \in 0..Len(b)
    BY <2>1
  <2> QED
    BY <2>1, <2>2, PutIs
<1> HIDE DEF f
<1>6. Len(w) \in Nat /\ Len(s) = Len(w) + 1 /\ Len(f) >= Len(s) /\ Len(f) >= 10
  BY <1>1, <1>2, <1>3, <1>4, <1>5
<1>7. \A i \in 1..Len(s) : f[i] = s[i]
  BY <1>5
<1>8. s[Len(w) + 1] = NUL
  BY <1>2, <1>4
<1>9. (\A i \in 1..Len(w) : f[i] = w[i]) /\ f[Len(w) + 1] = NUL
  BY <1>4, <1>6, <1>7, <1>8
<1>10. POINTER + 2 <= Len(f)
  BY <1>5, <1>6, PointerAssumption
<1> QED
  BY <1>5, <1>6, <1>9, <1>10 DEF FracStr, f, s, b, w, z

LEMMA FractionType ==
    ASSUME NEW l \in Int
    PROVE  Tail(CString(PointInserted(FracStr(l)))) \in Seq(Marks)
<1> DEFINE h == PointInserted(FracStr(l))
<1>1. h \in Seq(Marks) /\ h[1] = FracStr(l)[1] /\ Len(h) > 0
  <2>1. FracStr(l) \in Seq(Marks) /\ POINTER + 2 <= Len(FracStr(l))
    BY FracStrIs
  <2>2. h \in Seq(Marks) /\ POINTER + 3 <= Len(h) /\ h[1] = FracStr(l)[1]
    BY <2>1, PointIs
  <2>3. POINTER \in Nat
    BY PointerAssumption
  <2> HIDE DEF h
  <2> QED
    BY <2>2, <2>3
<1>2. FracStr(l)[1] # NUL
  <2>1. print_int(l) \in Seq(Chars) /\ Len(print_int(l)) \in Nat \ {0}
    BY PrintIntType
  <2>2. 1 \in 1..Len(print_int(l)) /\ print_int(l)[1] \in Chars
    BY <2>1
  <2>3. \A i \in 1..Len(print_int(l)) : FracStr(l)[i] = print_int(l)[i]
    BY FracStrIs
  <2> QED
    BY <2>2, <2>3, CharsType
<1> HIDE DEF h
<1>3. CString(h) \in Seq(Marks) /\ CString(h) # <<>>
  BY <1>1, <1>2, CStringType
<1> QED
  BY <1>3 DEF h

(***************************************************************************)
(* A fraction is the point and its figures, zeros and all, when the move   *)
(* makes room for them.                                                    *)
(***************************************************************************)
LEMMA FractionIs ==
    ASSUME NEW d \in Nat \ {0}, d <= POINTER, NEW frac \in 0..(Power(10, d) - 1)
    PROVE  /\ Fraction(frac, Power(10, d)) = <<".">> \o Decimal(frac, d)
           /\ Fraction(frac, Power(10, d)) \in Seq(Chars)
<1> DEFINE l == Power(10, d) + frac
           w == print_int(l)
           f == FracStr(l)
           h == PointInserted(f)
           D == Decimal(frac, d)
           c == <<".">>
<1>1. l \in Int /\ frac \in Nat
  BY PowerPositive
<1>2. w \in Seq(Chars) /\ Len(w) = d + 1 /\ \A i \in 1..d : w[1 + i] = D[i]
  BY MarkedIs
<1>3. D \in Seq(Chars) /\ Len(D) = d
  BY <1>1, DecimalType
<1>4. c \in Seq(Chars) /\ Len(c) = 1 /\ c[1] = "."
  <2>1. "." \in Chars
    BY DEF Chars
  <2> QED
    BY <2>1
<1>5. Fraction(frac, Power(10, d)) = Tail(CString(h))
  BY DEF Fraction, FracStr
<1> HIDE DEF l, c, D
<1>6. /\ f \in Seq(Marks) /\ POINTER + 2 <= Len(f)
      /\ \A i \in 1..Len(w) : f[i] = w[i]
      /\ f[Len(w) + 1] = NUL
  BY <1>1, FracStrIs
<1> HIDE DEF f, w
<1>7. /\ h \in Seq(Marks) /\ POINTER + 3 <= Len(h)
      /\ h[1] = f[1] /\ h[2] = "."
      /\ \A i \in 1..(POINTER + 1) : h[2 + i] = f[1 + i]
  BY <1>6, PointIs
<1> HIDE DEF h
<1>8. POINTER \in Nat
  BY PointerAssumption
<1>9. h[1] # NUL
  <2>1. w[1] \in Chars /\ h[1] = w[1]
    BY <1>2, <1>6, <1>7
  <2> QED
    BY <2>1, CharsType
<1>10. ASSUME NEW i \in 1..d
       PROVE  h[2 + i] = D[i] /\ D[i] \in Chars /\ h[2 + i] # NUL
  <2>1. i \in 1..(POINTER + 1) /\ 1 + i \in 1..Len(w)
    BY <1>2, <1>8
  <2>2. h[2 + i] = w[1 + i]
    BY <1>6, <1>7, <2>1
  <2>3. h[2 + i] = D[i] /\ D[i] \in Chars
    BY <1>2, <1>3, <2>2
  <2> QED
    BY <2>3, CharsType
<1>11. h[d + 3] = NUL
  <2>1. d + 1 \in 1..(POINTER + 1) /\ 2 + (d + 1) = d + 3 /\ 1 + (d + 1) = Len(w) + 1
    BY <1>2, <1>8
  <2>2. h[2 + (d + 1)] = f[1 + (d + 1)]
    BY <1>7, <2>1
  <2> QED
    BY <1>6, <2>1, <2>2
<1> DEFINE n == d + 3
<1>12. n \in 1..Len(h) /\ h[n] = NUL /\ n - 1 = d + 2
  BY <1>7, <1>8, <1>11
<1>13. \A i \in 1..(n - 1) : h[i] # NUL
  <2> SUFFICES ASSUME NEW i \in 1..(d + 2) PROVE h[i] # NUL
    BY <1>12
  <2>1. CASE i = 1
    BY <1>9, <2>1
  <2>2. CASE i = 2
    BY <1>7, <2>2 DEF NUL
  <2>3. CASE i > 2
    <3>1. i - 2 \in 1..d /\ 2 + (i - 2) = i
      BY <2>3
    <3>2. h[2 + (i - 2)] # NUL
      BY <1>10, <3>1
    <3> QED
      BY <3>1, <3>2
  <2> QED
    BY <2>1, <2>2, <2>3
<1> HIDE DEF n
<1>14. CString(h) = SubSeq(h, 1, n - 1)
  BY <1>7, <1>12, <1>13, CutAtNul
<1> DEFINE t == Tail(CString(h))
<1>15. Len(t) = d + 1 /\ t = [i \in 1..(d + 1) |-> h[1 + i]]
  <2>1. d + 2 \in 0..Len(h)
    BY <1>7, <1>12
  <2>2. CString(h) = [i \in 1..(d + 2) |-> h[i]] /\ CString(h) \in Seq(Marks)
    BY <1>7, <1>12, <1>14, <2>1
  <2>3. Len(CString(h)) = d + 2 /\ \A i \in 1..(d + 2) : CString(h)[i] = h[i]
    BY <2>2
  <2> QED
    BY <2>2, <2>3
<1>16. /\ c \o D \in Seq(Chars) /\ Len(c \o D) = Len(c) + Len(D)
       /\ \A i \in 1..Len(c) : (c \o D)[i] = c[i]
       /\ \A i \in 1..Len(D) : (c \o D)[Len(c) + i] = D[i]
  <2>1. c \in Seq(Chars) /\ D \in Seq(Chars)
    BY <1>3, <1>4
  <2> QED
    BY <2>1, Joined
<1> DEFINE r == c \o D
<1> HIDE DEF t, r
<1>17. r \in Seq(Chars) /\ Len(r) = d + 1 /\ r[1] = "." /\ \A i \in 1..d : r[1 + i] = D[i]
  BY <1>3, <1>4, <1>16 DEF r
<1>18. \A i \in 1..(d + 1) : r[i] = h[1 + i]
  <2> SUFFICES ASSUME NEW i \in 1..(d + 1) PROVE r[i] = h[1 + i]
    OBVIOUS
  <2>1. CASE i = 1
    BY <1>7, <1>17, <2>1
  <2>2. CASE i > 1
    <3>1. i - 1 \in 1..d /\ 1 + (i - 1) = i /\ 2 + (i - 1) = 1 + i
      BY <2>2
    <3>2. r[1 + (i - 1)] = D[i - 1] /\ h[2 + (i - 1)] = D[i - 1]
      BY <1>10, <1>17, <3>1
    <3> QED
      BY <3>1, <3>2
  <2> QED
    BY <2>1, <2>2
<1>19. t = r
  BY <1>15, <1>17, <1>18
<1> QED
  BY <1>5, <1>17, <1>19 DEF t, r, c, D

\* What precedes the symbol: figures, or whatever the move brought along.
AssetText(number, d, text) ==
    print_int(Magnitude(number) \div Power(10, d))
        \o (IF d = 0 THEN <<>> ELSE Fraction(Magnitude(number) % Power(10, d), Power(10, d)))
        \o <<SPACE>> \o text

LEMMA AssetType ==
    ASSUME NEW number \in Int, NEW d \in Nat, NEW text \in Seq(Chars)
    PROVE  AssetText(number, d, text) \in Seq(Marks)
<1> DEFINE P == Power(10, d)
           n == Magnitude(number)
           a == print_int(n \div P)
           f == IF d = 0 THEN <<>> ELSE Fraction(n % P, P)
           c == <<SPACE>>
<1>1. Chars \subseteq Marks /\ c \in Seq(Marks) /\ text \in Seq(Marks)
  <2>1. Chars \subseteq Marks /\ SPACE \in Marks
    BY DEF Marks, Chars
  <2>2. text \in Seq(Marks)
    BY <2>1
  <2>3. c \in Seq(Marks)
    BY <2>1
  <2> QED
    BY <2>1, <2>2, <2>3
<1>2. P \in Nat \ {0} /\ n \in Nat
  <2>1. P \in Nat \ {0}
    BY PowerPositive
  <2>2. n \in Nat
    BY DEF Magnitude
  <2> QED
    BY <2>1, <2>2
<1>3. n \div P \in Nat /\ n % P \in 0..(P - 1)
  <2> HIDE DEF n, P
  <2> QED
    BY <1>2, Divided
<1>4. a \in Seq(Marks)
  <2>1. a \in Seq(Chars)
    BY <1>3, PrintIntType
  <2> HIDE DEF a, f
  <2> QED
    BY <1>1, <2>1, Widened
<1>5. f \in Seq(Marks)
  <2>1. P + (n % P) \in Int
    BY <1>2, <1>3
  <2>2. Fraction(n % P, P) = Tail(CString(PointInserted(FracStr(P + (n % P)))))
    BY DEF Fraction, FracStr
  <2>3. Fraction(n % P, P) \in Seq(Marks)
    BY <2>1, <2>2, FractionType
  <2> QED
    BY <2>3
<1>6. AssetText(number, d, text) = a \o f \o c \o text
  BY DEF AssetText
<1> HIDE DEF a, f, c
<1>7. a \o f \in Seq(Marks)
  BY <1>4, <1>5, Joined
<1>8. a \o f \o c \in Seq(Marks)
  BY <1>1, <1>7, Joined
<1>9. a \o f \o c \o text \in Seq(Marks)
  BY <1>1, <1>8, Joined
<1> QED
  BY <1>6, <1>9

LEMMA AssetIs ==
    ASSUME NEW n \in Nat, n <= WORD \div 2, NEW d \in Nat, d <= POINTER, NEW text \in Seq(Chars)
    PROVE  /\ AssetText(n, d, text) =
                Number(n \div Power(10, d))
                    \o (IF d = 0 THEN <<>> ELSE <<".">> \o Decimal(n % Power(10, d), d))
                    \o <<SPACE>> \o text
           /\ AssetText(n, d, text) \in Seq(Chars)
<1> DEFINE P == Power(10, d)
           a == print_int(n \div P)
           f == IF d = 0 THEN <<>> ELSE Fraction(n % P, P)
           c == <<SPACE>>
<1>1. WORD \div 2 \in Nat /\ Magnitude(n) = n
  <2>1. WORD \div 2 \in Nat
    BY WordAssumption
  <2>2. Magnitude(n) = n
    BY DEF Magnitude
  <2> QED
    BY <2>1, <2>2
<1>2. P \in Nat \ {0}
  BY TenPositive
<1>3. n \div P \in Nat /\ n \div P <= n /\ n % P \in 0..(P - 1)
  <2> HIDE DEF P
  <2>1. n \div P \in Nat /\ n % P \in 0..(P - 1) /\ n = (n \div P) * P + (n % P)
    BY <1>1, <1>2, Divided
  <2> DEFINE q == n \div P
             r == n % P
  <2> HIDE DEF q, r
  <2>2. q \in Nat /\ r \in Nat /\ n = q * P + r
    BY <1>2, <2>1 DEF q, r
  <2>3. q * P \in Nat /\ q * P = q * (P - 1) + q /\ q * (P - 1) \in Nat
    <3>1. P - 1 \in Nat /\ P = (P - 1) + 1
      BY <1>2
    <3> QED
      BY <2>2, <3>1
  <2>4. q * P >= q
    BY <2>2, <2>3
  <2>5. q <= n
    BY <2>2, <2>3, <2>4
  <2> QED
    BY <2>1, <2>5 DEF q
<1>4. a = Number(n \div P) /\ a \in Seq(Chars)
  <2>1. n \div P \in Int /\ n \div P >= 0 /\ n \div P <= WORD \div 2
    BY <1>1, <1>3
  <2> HIDE DEF P
  <2> QED
    BY <2>1, PrintIntIs, PrintIntType
<1>5. /\ f = IF d = 0 THEN <<>> ELSE <<".">> \o Decimal(n % P, d)
      /\ f \in Seq(Chars)
  <2>1. CASE d = 0
    BY <2>1
  <2>2. CASE d # 0
    <3>1. d \in Nat \ {0} /\ d <= POINTER
      BY <2>2
    <3>2. Fraction(n % P, P) = <<".">> \o Decimal(n % P, d) /\ Fraction(n % P, P) \in Seq(Chars)
      BY <1>3, <3>1, FractionIs
    <3> QED
      BY <2>2, <3>2
  <2> QED
    BY <2>1, <2>2
<1>6. AssetText(n, d, text) = a \o f \o c \o text
  BY <1>1 DEF AssetText
<1>7. c \in Seq(Chars)
  <2>1. SPACE \in Chars
    BY DEF Chars
  <2> QED
    BY <2>1
<1>8. Number(n \div P) \o (IF d = 0 THEN <<>> ELSE <<".">> \o Decimal(n % P, d)) \o c \o text
        = a \o f \o c \o text
  BY <1>4, <1>5
<1> HIDE DEF a, f, c
<1>9. a \o f \in Seq(Chars)
  BY <1>4, <1>5, Joined
<1>10. a \o f \o c \in Seq(Chars)
  BY <1>7, <1>9, Joined
<1>11. a \o f \o c \o text \in Seq(Chars)
  BY <1>10, Joined
<1> QED
  BY <1>6, <1>8, <1>11 DEF a, f, c

-----------------------------------------------------------------------------
(***************************************************************************)
(* Hashes: what is written of a part of the bytes is that part of what is  *)
(* written of them all (array_to_hex).                                     *)
(***************************************************************************)
Byte == 0..255

Nibble(byte, j) == hexAlphabet[1 + (IF j % 2 = 1 THEN byte \div 16 ELSE byte % 16)]

LEMMA NibbleType ==
    ASSUME NEW byte \in Byte, NEW j \in Nat
    PROVE  Nibble(byte, j) \in Chars
<1> DEFINE k == IF j % 2 = 1 THEN byte \div 16 ELSE byte % 16
<1>1. k \in 0..15
  BY DEF Byte
<1>2. k \in {0, 1, 2, 3, 4, 5, 6, 7, 8, 9, 10, 11, 12, 13, 14, 15}
  BY <1>1
<1> HIDE DEF k
<1>3. \A i \in {0, 1, 2, 3, 4, 5, 6, 7, 8, 9, 10, 11, 12, 13, 14, 15} :
        hexAlphabet[1 + i] \in Figures \cup {"A", "B", "C", "D", "E", "F"}
  BY DEF hexAlphabet, Figures
<1>4. Nibble(byte, j) = hexAlphabet[1 + k]
  BY DEF Nibble, k
<1> QED
  BY <1>2, <1>3, <1>4 DEF Chars

LEMMA HalfIs ==
    ASSUME NEW n \in Nat, NEW j \in 1..(2 * n)
    PROVE  (j + 1) \div 2 \in 1..n
OBVIOUS

LEMMA HexIs ==
    ASSUME NEW b \in Seq(Byte), NEW n \in Nat, Len(b) = n
    PROVE  /\ Hex(b) \in Seq(Chars) /\ Len(Hex(b)) = 2 * n
           /\ \A j \in 1..(2 * n) : Hex(b)[j] = Nibble(b[(j + 1) \div 2], j)
<1> DEFINE c(j) == Nibble(b[(j + 1) \div 2], j)
<1>1. ASSUME NEW j \in 1..(2 * n)
      PROVE  c(j) \in Chars
  <2> DEFINE i == (j + 1) \div 2
  <2>1. i \in 1..n
    BY HalfIs
  <2> HIDE DEF i
  <2>2. b[i] \in Byte
    BY <2>1
  <2>3. j \in Nat
    OBVIOUS
  <2> QED
    BY <2>2, <2>3, NibbleType DEF i
<1>2. 2 * n \in Nat
  OBVIOUS
<1>3. Hex(b) = [j \in 1..(2 * n) |-> c(j)]
  BY DEF Hex, Nibble
<1> HIDE DEF c
<1>4. Hex(b) \in Seq(Chars) /\ Len(Hex(b)) = 2 * n
  BY <1>1, <1>2, <1>3
<1>5. \A j \in 1..(2 * n) : Hex(b)[j] = c(j)
  BY <1>3
<1> QED
  BY <1>4, <1>5 DEF c

LEMMA HexPart ==
    ASSUME NEW b \in Seq(Byte), NEW a \in Nat, NEW k \in Nat \ {0}, a + k <= Len(b)
    PROVE  /\ SubSeq(b, a + 1, a + k) \in Seq(Byte) /\ Len(SubSeq(b, a + 1, a + k)) = k
           /\ \A j \in 1..(2 * k) : Hex(SubSeq(b, a + 1, a + k))[j] = Hex(b)[2 * a + j]
<1> DEFINE n == Len(b)
           s == SubSeq(b, a + 1, a + k)
<1>1. s \in Seq(Byte) /\ Len(s) = k /\ \A i \in 1..k : s[i] = b[a + i]
  <2>1. a + 1 \in Nat \ {0} /\ a + k \in (a + 1)..Len(b) /\ (a + k) - (a + 1) + 1 = k
        /\ (a + 1) - 1 = a
    OBVIOUS
  <2>2. /\ s \in Seq(Byte) /\ Len(s) = (a + k) - (a + 1) + 1
        /\ \A i \in 1..((a + k) - (a + 1) + 1) : s[i] = b[(a + 1) - 1 + i]
    BY <2>1, PartIs
  <2> HIDE DEF s
  <2> QED
    BY <2>1, <2>2
<1> HIDE DEF s
<1>2. n \in Nat
  OBVIOUS
<1>3. \A j \in 1..(2 * k) : Hex(s)[j] = Nibble(s[(j + 1) \div 2], j)
  BY <1>1, HexIs
<1>4. \A j \in 1..(2 * n) : Hex(b)[j] = Nibble(b[(j + 1) \div 2], j)
  BY <1>2, HexIs
<1>5. ASSUME NEW j \in 1..(2 * k)
      PROVE  Hex(s)[j] = Hex(b)[2 * a + j]
  <2> DEFINE i == (j + 1) \div 2
             m == 2 * a + j
  <2>1. i \in 1..k
    BY HalfIs
  <2>2. m \in 1..(2 * n) /\ (m + 1) \div 2 = a + i /\ m % 2 = j % 2
    BY <1>2
  <2> HIDE DEF i, m
  <2>3. Hex(s)[j] = Nibble(b[a + i], j)
    BY <1>1, <1>3, <2>1 DEF i
  <2>4. Hex(b)[m] = Nibble(b[a + i], m)
    BY <1>4, <2>2
  <2>5. Nibble(b[a + i], m) = Nibble(b[a + i], j)
    BY <2>2 DEF Nibble
  <2> QED
    BY <2>3, <2>4, <2>5 DEF m
<1> QED
  BY <1>1, <1>5 DEF s

LEMMA SameSequence ==
    ASSUME NEW T, NEW s \in Seq(T), NEW t \in Seq(T), NEW n \in Nat, Len(s) = n, Len(t) = n,
           \A i \in 1..n : s[i] = t[i]
    PROVE  s = t
OBVIOUS

\* The two ends of the text of a hash, h before its digits.
LEMMA HexStart ==
    ASSUME NEW b \in Seq(Byte), NEW k \in Nat \ {0}, k <= Len(b),
           NEW h \in Seq(Chars)
    PROVE  /\ SubSeq(h \o Hex(b), 1, Len(h) + 2 * k) = h \o Hex(SubSeq(b, 1, k))
           /\ h \o Hex(SubSeq(b, 1, k)) \in Seq(Chars)
           /\ Len(h \o Hex(SubSeq(b, 1, k))) = Len(h) + 2 * k
<1> DEFINE n == Len(b)
           x == Hex(b)
           t == h \o x
           s == SubSeq(b, 1, k)
           y == Hex(s)
           u == h \o y
           l == Len(h) + 2 * k
           v == SubSeq(t, 1, l)
<1>1. n \in Nat /\ l \in Nat /\ 2 * k \in Nat \ {0} /\ 2 * k <= 2 * n
  OBVIOUS
<1>2. x \in Seq(Chars) /\ Len(x) = 2 * n
  BY <1>1, HexIs
<1>3. s \in Seq(Byte) /\ Len(s) = k /\ \A j \in 1..(2 * k) : y[j] = x[j]
  <2>1. 0 \in Nat /\ 0 + k <= Len(b) /\ 0 + 1 = 1 /\ 0 + k = k /\ 2 * 0 = 0
    OBVIOUS
  <2>2. /\ SubSeq(b, 0 + 1, 0 + k) \in Seq(Byte) /\ Len(SubSeq(b, 0 + 1, 0 + k)) = k
        /\ \A j \in 1..(2 * k) : Hex(SubSeq(b, 0 + 1, 0 + k))[j] = Hex(b)[2 * 0 + j]
    BY <2>1, HexPart
  <2>3. /\ s \in Seq(Byte) /\ Len(s) = k
        /\ \A j \in 1..(2 * k) : y[j] = x[0 + j]
    BY <2>1, <2>2
  <2> HIDE DEF s, x, y
  <2> QED
    BY <2>3
<1>4. y \in Seq(Chars) /\ Len(y) = 2 * k
  <2> HIDE DEF s
  <2> QED
    BY <1>3, HexIs
<1> HIDE DEF n, x, s, y, l
<1>5. /\ t \in Seq(Chars) /\ Len(t) = Len(h) + Len(x)
      /\ \A i \in 1..Len(h) : t[i] = h[i]
      /\ \A i \in 1..Len(x) : t[Len(h) + i] = x[i]
  <2>1. x \in Seq(Chars)
    BY <1>2
  <2> QED
    BY <2>1, Joined
<1>6. /\ u \in Seq(Chars) /\ Len(u) = Len(h) + Len(y)
      /\ \A i \in 1..Len(h) : u[i] = h[i]
      /\ \A i \in 1..Len(y) : u[Len(h) + i] = y[i]
  <2>1. y \in Seq(Chars)
    BY <1>4
  <2> QED
    BY <2>1, Joined
<1> HIDE DEF t, u
<1>7. Len(t) >= l /\ Len(u) = l /\ l = Len(h) + 2 * k
  BY <1>1, <1>2, <1>4, <1>5, <1>6 DEF l
<1>8. v \in Seq(Chars) /\ Len(v) = l /\ \A i \in 1..l : v[i] = t[i]
  BY <1>1, <1>5, <1>7
<1>9. ASSUME NEW i \in 1..l
      PROVE  t[i] = u[i]
  <2>1. CASE i <= Len(h)
    BY <1>1, <1>5, <1>6, <2>1
  <2>2. CASE i > Len(h)
    <3> DEFINE j == i - Len(h)
    <3>1. j \in 1..(2 * k) /\ i = Len(h) + j
      BY <1>1, <1>7, <2>2
    <3> HIDE DEF j
    <3>2. j \in 1..Len(y) /\ j \in 1..Len(x)
      BY <1>1, <1>2, <1>4, <3>1
    <3> QED
      BY <1>3, <1>5, <1>6, <3>1, <3>2
  <2> QED
    BY <1>1, <2>1, <2>2
<1> HIDE DEF v
<1>10. v = u
  <2>1. l \in Nat /\ v \in Seq(Chars) /\ u \in Seq(Chars) /\ Len(v) = l /\ Len(u) = l
    BY <1>1, <1>6, <1>7, <1>8
  <2>2. \A i \in 1..l : v[i] = u[i]
    BY <1>8, <1>9
  <2> QED
    BY <2>1, <2>2, SameSequence
<1> QED
  BY <1>6, <1>7, <1>10 DEF v, u, t, x, y, s, l

LEMMA HexEnd ==
    ASSUME NEW b \in Seq(Byte), NEW k \in Nat \ {0}, k <= Len(b),
           NEW h \in Seq(Chars)
    PROVE  LET t == h \o Hex(b)
               y == Hex(SubSeq(b, Len(b) - k + 1, Len(b)))
           IN  /\ t \in Seq(Chars) /\ Len(t) = Len(h) + 2 * Len(b)
               /\ SubSeq(t, Len(t) - 2 * k + 1, Len(t)) = y
               /\ y \in Seq(Chars) /\ Len(y) = 2 * k
<1> DEFINE n == Len(b)
           x == Hex(b)
           t == h \o x
           s == SubSeq(b, Len(b) - k + 1, Len(b))
           y == Hex(s)
           a == n - k
           l == 2 * k
           v == SubSeq(t, Len(t) - l + 1, Len(t))
<1>1. /\ n \in Nat /\ a \in Nat /\ l \in Nat \ {0} /\ a + 1 = n - k + 1 /\ a + k = n
      /\ 2 * n = 2 * a + l
  OBVIOUS
<1>2. x \in Seq(Chars) /\ Len(x) = 2 * n
  BY <1>1, HexIs
<1>3. s \in Seq(Byte) /\ Len(s) = k /\ \A j \in 1..(2 * k) : y[j] = x[2 * a + j]
  <2>1. s = SubSeq(b, a + 1, a + k) /\ a + k <= Len(b)
    BY <1>1
  <2> HIDE DEF a, s
  <2>2. /\ SubSeq(b, a + 1, a + k) \in Seq(Byte) /\ Len(SubSeq(b, a + 1, a + k)) = k
        /\ \A j \in 1..(2 * k) : Hex(SubSeq(b, a + 1, a + k))[j] = Hex(b)[2 * a + j]
    BY <1>1, <2>1, HexPart
  <2> QED
    BY <2>1, <2>2
<1>4. y \in Seq(Chars) /\ Len(y) = l
  <2> HIDE DEF s
  <2> QED
    BY <1>3, HexIs
<1> HIDE DEF n, x, s, y, a
<1>5. /\ t \in Seq(Chars) /\ Len(t) = Len(h) + Len(x)
      /\ \A i \in 1..Len(x) : t[Len(h) + i] = x[i]
  <2>1. x \in Seq(Chars)
    BY <1>2
  <2> QED
    BY <2>1, Joined
<1>6. \A j \in 1..l : y[j] = x[2 * a + j]
  BY <1>3
<1> HIDE DEF t, l
<1> DEFINE g == Len(h)
           w == 2 * a
<1>7. /\ Len(t) = g + 2 * n /\ l <= Len(t) /\ Len(t) - l = g + w
      /\ g \in Nat /\ w \in Nat /\ Len(x) = w + l
  <2>1. g \in Nat /\ w \in Nat /\ 2 * n = w + l
    BY <1>1
  <2>2. Len(t) = g + 2 * n
    BY <1>2, <1>5
  <2> HIDE DEF g, w
  <2> QED
    BY <1>1, <1>2, <2>1, <2>2
<1>8. v \in Seq(Chars) /\ Len(v) = l /\ \A j \in 1..l : v[j] = t[(Len(t) - l) + j]
  BY <1>1, <1>5, <1>7
<1>9. ASSUME NEW j \in 1..l
      PROVE  v[j] = y[j]
  <2>1. w + j \in 1..Len(x) /\ (Len(t) - l) + j = g + (w + j)
    <3> HIDE DEF g, w
    <3> QED
      BY <1>1, <1>7
  <2>2. t[Len(h) + (2 * a + j)] = x[2 * a + j]
    BY <1>5, <2>1
  <2> QED
    BY <1>6, <1>8, <2>1, <2>2
<1> HIDE DEF v
<1>10. v = y
  <2>1. l \in Nat /\ v \in Seq(Chars) /\ y \in Seq(Chars) /\ Len(v) = l /\ Len(y) = l
    BY <1>1, <1>4, <1>8
  <2> QED
    BY <1>9, <2>1, SameSequence
<1> QED
  BY <1>4, <1>5, <1>7, <1>10 DEF v, y, s, t, x, n, l

(***************************************************************************)
(* The page of a hash shows four bytes of either end (format_hash and      *)
(* print_binary_summary).                                                  *)
(***************************************************************************)
LEMMA BinarySummaryIs ==
    ASSUME NEW b \in Seq(Byte), Len(b) > 9
    PROVE  LET s == Summary(<<"0", "x">> \o Hex(b), 10, 8)
           IN  /\ BinarySummary(b) = s \o <<NUL>>
               /\ s \in Seq(Chars) /\ Len(s) = 20
<1> DEFINE h == <<"0", "x">>
           d == <<".", ".">>
           t == h \o Hex(b)
           u == h \o Hex(SubSeq(b, 1, 4))
           y == Hex(SubSeq(b, Len(b) - 3, Len(b)))
           s == (u \o d) \o y
<1>1. BinarySummary(b) = s \o <<NUL>>
  BY DEF BinarySummary
<1>2. h \in Seq(Chars) /\ Len(h) = 2
  <2>1. "0" \in Chars /\ "x" \in Chars
    BY DEF Chars, Figures
  <2> QED
    BY <2>1
<1>3. d \in Seq(Chars) /\ Len(d) = 2
  <2>1. "." \in Chars
    BY DEF Chars
  <2> QED
    BY <2>1
<1> HIDE DEF h, d
<1>4. 4 \in Nat \ {0} /\ 4 <= Len(b) /\ 2 * 4 = 8 /\ Len(b) - 4 + 1 = Len(b) - 3
  OBVIOUS
<1>5. SubSeq(t, 1, 10) = u /\ u \in Seq(Chars) /\ Len(u) = 10
  <2>1. h \in Seq(Chars)
    BY <1>2
  <2>2. /\ SubSeq(t, 1, Len(h) + 2 * 4) = u
        /\ u \in Seq(Chars)
        /\ Len(u) = Len(h) + 2 * 4
    BY <1>4, <2>1, HexStart
  <2>3. Len(h) + 2 * 4 = 10
    BY <1>2
  <2> HIDE DEF t, u
  <2> QED
    BY <2>2, <2>3
<1>6. /\ t \in Seq(Chars) /\ Len(t) = Len(h) + 2 * Len(b)
      /\ SubSeq(t, Len(t) - 8 + 1, Len(t)) = y
      /\ y \in Seq(Chars) /\ Len(y) = 8
  <2>1. h \in Seq(Chars)
    BY <1>2
  <2> DEFINE z == Hex(SubSeq(b, Len(b) - 4 + 1, Len(b)))
  <2>2. /\ t \in Seq(Chars) /\ Len(t) = Len(h) + 2 * Len(b)
        /\ SubSeq(t, Len(t) - 2 * 4 + 1, Len(t)) = z
        /\ z \in Seq(Chars) /\ Len(z) = 2 * 4
    BY <1>4, <2>1, HexEnd
  <2>3. z = y
    BY <1>4
  <2> HIDE DEF t, z, y
  <2> QED
    BY <1>4, <2>2, <2>3
<1>7. ~(Len(t) <= 10 + 8 + 2)
  BY <1>2, <1>6
<1> HIDE DEF t, u, y
<1>8. Summary(t, 10, 8) = s
  BY <1>5, <1>6, <1>7 DEF Summary, d
<1>9. u \o d \in Seq(Chars) /\ Len(u \o d) = Len(u) + Len(d)
  <2>1. u \in Seq(Chars) /\ d \in Seq(Chars)
    BY <1>3, <1>5
  <2> QED
    BY <2>1, Joined
<1>10. s \in Seq(Chars) /\ Len(s) = Len(u \o d) + Len(y)
  <2>1. u \o d \in Seq(Chars) /\ y \in Seq(Chars)
    BY <1>6, <1>9
  <2> QED
    BY <2>1, Joined
<1>11. Len(s) = 20
  BY <1>3, <1>5, <1>6, <1>9, <1>10
<1> QED
  BY <1>1, <1>8, <1>10, <1>11 DEF t, h

-----------------------------------------------------------------------------
(***************************************************************************)
(* The pages, one kind of value at a time.                                 *)
(***************************************************************************)
LEMMA NameText ==
    ASSUME NEW v, v.kind = "name"
    PROVE  Text(v) = SubSeq(v.text, 1, LastKept(v.text))
BY DEF Text, LastKept

LEMMA NumberText ==
    ASSUME NEW v, v.kind = "int" \/ v.kind = "sellram"
    PROVE  Text(v) = Number(v.number)
BY DEF Text

LEMMA AssetIsText ==
    ASSUME NEW v, v.kind = "asset"
    PROVE  Text(v) = Number(v.number \div Power(10, v.decimals))
                        \o (IF v.decimals = 0 THEN <<>>
                            ELSE <<".">> \o Decimal(v.number % Power(10, v.decimals), v.decimals))
                        \o <<SPACE>> \o v.text
BY DEF Text

LEMMA HashText ==
    ASSUME NEW v, v.kind = "hash"
    PROVE  Text(v) = <<"0", "x">> \o Hex(v.text)
BY DEF Text

LEMMA NamePage ==
    ASSUME NEW v \in Values, v.kind = "name", NEW below \in Below, NEW behind \in Behind, NEW b
    PROVE  LET p == print_summary(CString(parse_name(v.text, below, behind)), Cleared(b))
           IN  /\ Len(p) = DETAIL_VALUE_MAX_SIZE /\ Len(CString(p)) <= 14
               /\ Printable => CString(p) = Summary(Text(v), 6, 6)
<1> DEFINE s == CString(parse_name(v.text, below, behind))
<1>1. v.text \in [1..13 -> Chars] /\ below \in Chars /\ behind \in Seq(Chars)
  BY ValuesAssumption, StackAssumption
<1>2. s \in Seq(Marks)
  BY <1>1, NameType
<1>3. ASSUME Printable
      PROVE  s = Text(v) /\ s \in Seq(Chars)
  <2>1. v.text[13] = "." /\ below # "." /\ Len(behind) <= 1
    BY <1>3 DEF Printable
  <2>2. s = SubSeq(v.text, 1, LastKept(v.text)) /\ s \in Seq(Chars)
    BY <1>1, <2>1, NameIs
  <2> QED
    BY <2>2, NameText
<1> HIDE DEF s
<1> QED
  BY <1>2, <1>3, SummaryType, SummaryIs DEF s

LEMMA IntPage ==
    ASSUME NEW v \in Values, v.kind = "int", NEW b
    PROVE  LET p == print_summary(print_int(v.number), Cleared(b))
           IN  /\ Len(p) = DETAIL_VALUE_MAX_SIZE /\ Len(CString(p)) <= 14
               /\ Printable => CString(p) = Summary(Text(v), 6, 6)
<1> DEFINE l == v.number
           s == print_int(l)
<1>1. WORD \div 2 \in Nat
  BY WordAssumption
<1>2. l \in -(WORD \div 2)..(WORD \div 2 - 1)
  BY ValuesAssumption
<1>3. Printable => l > -(WORD \div 2)
  BY DEF Printable
<1>4. Text(v) = Number(l)
  BY NumberText
<1> HIDE DEF l
<1>5. l \in Int /\ l <= WORD \div 2
  BY <1>1, <1>2
<1>6. s \in Seq(Chars) /\ s \in Seq(Marks)
  <2>1. s \in Seq(Chars)
    BY <1>5, PrintIntType
  <2> QED
    BY <2>1, Widened DEF Marks
<1>7. Printable => s = Text(v)
  BY <1>3, <1>4, <1>5, PrintIntIs
<1> HIDE DEF s
<1> QED
  BY <1>6, <1>7, SummaryType, SummaryIs DEF s, l

LEMMA SellRamPage ==
    ASSUME NEW v \in Values, v.kind = "sellram", NEW b
    PROVE  LET p == print_summary(print_int(Signed(v.number)), Cleared(b))
           IN  /\ Len(p) = DETAIL_VALUE_MAX_SIZE /\ Len(CString(p)) <= 14
               /\ Printable => CString(p) = Summary(Text(v), 6, 6)
<1> DEFINE l == v.number
           s == print_int(Signed(l))
<1>1. WORD \in Nat /\ WORD \div 2 \in Nat
  BY WordAssumption
<1>2. l \in 0..(WORD - 1)
  BY ValuesAssumption
<1>3. Printable => l < WORD \div 2
  BY DEF Printable
<1>4. Text(v) = Number(l)
  BY NumberText
<1> HIDE DEF l
<1>5. l \in Int /\ l >= 0 /\ Signed(l) \in Int
  BY <1>1, <1>2 DEF Signed
<1>6. s \in Seq(Chars) /\ s \in Seq(Marks)
  <2>1. s \in Seq(Chars)
    BY <1>5, PrintIntType
  <2> QED
    BY <2>1, Widened DEF Marks
<1>7. ASSUME Printable
      PROVE  s = Text(v)
  <2>1. Signed(l) = l /\ l <= WORD \div 2
    BY <1>1, <1>3, <1>5, <1>7 DEF Signed
  <2> QED
    BY <1>4, <1>5, <2>1, PrintIntIs
<1> HIDE DEF s
<1> QED
  BY <1>6, <1>7, SummaryType, SummaryIs DEF s, l

LEMMA AssetPage ==
    ASSUME NEW v \in Values, v.kind = "asset", NEW b
    PROVE  LET p == print_summary(format_asset(v), Cleared(b))
           IN  /\ Len(p) = DETAIL_VALUE_MAX_SIZE /\ Len(CString(p)) <= 14
               /\ Printable => CString(p) = Summary(Text(v), 6, 6)
<1> DEFINE s == format_asset(v)
           n == v.number
           d == v.decimals
           t == v.text
<1>1. WORD \div 2 \in Nat
  BY WordAssumption
<1>2. n \in -(WORD \div 2)..(WORD \div 2 - 1) /\ d \in Nat /\ t \in Seq(Chars)
  BY ValuesAssumption
<1>3. Printable => n >= 0 /\ d <= POINTER
  BY DEF Printable
<1>4. s = AssetText(n, d, t)
  BY DEF format_asset, AssetText
<1>5. Text(v) = Number(n \div Power(10, d))
                   \o (IF d = 0 THEN <<>> ELSE <<".">> \o Decimal(n % Power(10, d), d))
                   \o <<SPACE>> \o t
  BY AssetIsText
<1> HIDE DEF s, n, d, t
<1>6. n \in Int /\ n <= WORD \div 2 /\ (n >= 0 => n \in Nat)
  BY <1>1, <1>2
<1>7. s \in Seq(Marks)
  BY <1>2, <1>4, <1>6, AssetType
<1>8. ASSUME Printable
      PROVE  s = Text(v) /\ s \in Seq(Chars)
  BY <1>2, <1>3, <1>4, <1>5, <1>6, <1>8, AssetIs
<1> QED
  BY <1>7, <1>8, SummaryType, SummaryIs DEF s

LEMMA HashPage ==
    ASSUME NEW v \in Values, v.kind = "hash", NEW b
    PROVE  LET p == Put(Cleared(b), 0, BinarySummary(v.text))
           IN  /\ Len(p) = DETAIL_VALUE_MAX_SIZE /\ Len(CString(p)) = 20
               /\ CString(p) = Summary(Text(v), 10, 8)
<1> DEFINE t == v.text
           s == Summary(<<"0", "x">> \o Hex(t), 10, 8)
<1>1. t \in Seq(Byte) /\ Len(t) > 9
  <2>1. t \in [1..32 -> Byte]
    BY ValuesAssumption DEF Byte
  <2>2. \A n \in Nat : \A x \in [1..n -> Byte] : x \in Seq(Byte) /\ Len(x) = n
    BY TupleType
  <2>3. 32 \in Nat
    OBVIOUS
  <2> HIDE DEF t
  <2>4. t \in Seq(Byte) /\ Len(t) = 32
    BY <2>1, <2>2, <2>3
  <2> QED
    BY <2>4
<1>2. Text(v) = <<"0", "x">> \o Hex(t)
  BY HashText
<1> HIDE DEF t
<1>3. BinarySummary(t) = s \o <<NUL>> /\ s \in Seq(Chars) /\ Len(s) = 20
  BY <1>1, BinarySummaryIs
<1>4. s = Summary(Text(v), 10, 8)
  BY <1>2
<1> HIDE DEF s
<1>5. s \in Seq(Marks)
  BY <1>3, Widened DEF Marks
<1>6. \A i \in 1..Len(s) : s[i] # NUL
  <2>1. s \in Seq(Chars)
    BY <1>3
  <2> QED
    BY <2>1, CharsType
<1>7. Len(s) + 1 < DETAIL_VALUE_MAX_SIZE
  BY <1>3, SizeIs
<1>8. /\ Len(Put(Cleared(b), 0, s \o <<NUL>>)) = DETAIL_VALUE_MAX_SIZE
      /\ CString(Put(Cleared(b), 0, s \o <<NUL>>)) = s
  BY <1>5, <1>6, <1>7, TerminatedIsRead
<1> QED
  BY <1>3, <1>4, <1>8 DEF t

(***************************************************************************)
(* The theorems.  No step needs to know the page before: the buffer is     *)
(* cleared first.                                                          *)
(***************************************************************************)
LEMMA InitPage == Init => TypeOK /\ ShowsTheValue
<1> SUFFICES ASSUME Init PROVE TypeOK /\ ShowsTheValue
  OBVIOUS
<1> DEFINE p == Cleared(value)
<1>1. value = Nothing /\ detailValue = p
  BY DEF Init, Cleared
<1>2. value.kind = "none"
  BY <1>1 DEF Nothing, Value
<1>3. p \in Seq(Marks) /\ Len(p) = DETAIL_VALUE_MAX_SIZE /\ \A i \in 1..DETAIL_VALUE_MAX_SIZE : p[i] = NUL
  BY ClearedType
<1> HIDE DEF p
<1>4. Len(CString(p)) \in Nat /\ Len(CString(p)) <= 1 - 1
  <2>1. 1 \in 1..Len(p) /\ p[1] = NUL
    BY <1>3, SizeIs
  <2> QED
    BY <1>3, <2>1, EndsAt
<1>5. TypeOK
  BY <1>1, <1>2, <1>3, <1>4 DEF TypeOK
<1>6. ShowsTheValue
  BY <1>2 DEF ShowsTheValue
<1> QED
  BY <1>5, <1>6

LEMMA NextPage == Next => TypeOK' /\ (Printable => ShowsTheValue')
<1> SUFFICES ASSUME Next PROVE TypeOK' /\ (Printable => ShowsTheValue')
  OBVIOUS
<1> DEFINE v == value'
           p == detailValue'
           r == IF v.kind = "hash" THEN Summary(Text(v), 10, 8) ELSE Summary(Text(v), 6, 6)
<1>1. v \in Values
  BY DEF Next
<1>2. CASE ShowName
  <2>1. PICK below \in Below, behind \in Behind :
          p = print_summary(CString(parse_name(v.text, below, behind)), Cleared(detailValue))
    BY <1>2 DEF ShowName
  <2>2. v.kind = "name"
    BY <1>2 DEF ShowName
  <2> HIDE DEF v, p
  <2>3. /\ Len(p) = DETAIL_VALUE_MAX_SIZE /\ Len(CString(p)) <= 14
        /\ Printable => CString(p) = Summary(Text(v), 6, 6)
    BY <1>1, <2>1, <2>2, NamePage
  <2> QED
    BY <1>1, <2>2, <2>3 DEF TypeOK, ShowsTheValue, Shown, v, p
<1>3. CASE ShowInt
  <2>1. v.kind = "int" /\ p = print_summary(print_int(v.number), Cleared(detailValue))
    BY <1>3 DEF ShowInt
  <2> HIDE DEF v, p
  <2>2. /\ Len(p) = DETAIL_VALUE_MAX_SIZE /\ Len(CString(p)) <= 14
        /\ Printable => CString(p) = Summary(Text(v), 6, 6)
    BY <1>1, <2>1, IntPage
  <2> QED
    BY <1>1, <2>1, <2>2 DEF TypeOK, ShowsTheValue, Shown, v, p
<1>4. CASE ShowSellRamBytes
  <2>1. v.kind = "sellram" /\ p = print_summary(print_int(Signed(v.number)), Cleared(detailValue))
    BY <1>4 DEF ShowSellRamBytes
  <2> HIDE DEF v, p
  <2>2. /\ Len(p) = DETAIL_VALUE_MAX_SIZE /\ Len(CString(p)) <= 14
        /\ Printable => CString(p) = Summary(Text(v), 6, 6)
    BY <1>1, <2>1, SellRamPage
  <2> QED
    BY <1>1, <2>1, <2>2 DEF TypeOK, ShowsTheValue, Shown, v, p
<1>5. CASE ShowAsset
  <2>1. v.kind = "asset" /\ p = print_summary(format_asset(v), Cleared(detailValue))
    BY <1>5 DEF ShowAsset
  <2> HIDE DEF v, p
  <2>2. /\ Len(p) = DETAIL_VALUE_MAX_SIZE /\ Len(CString(p)) <= 14
        /\ Printable => CString(p) = Summary(Text(v), 6, 6)
    BY <1>1, <2>1, AssetPage
  <2> QED
    BY <1>1, <2>1, <2>2 DEF TypeOK, ShowsTheValue, Shown, v, p
<1>6. CASE ShowHash
  <2>1. v.kind = "hash" /\ p = Put(Cleared(detailValue), 0, BinarySummary(v.text))
    BY <1>6 DEF ShowHash
  <2> HIDE DEF v, p
  <2>2. /\ Len(p) = DETAIL_VALUE_MAX_SIZE /\ Len(CString(p)) = 20
        /\ CString(p) = Summary(Text(v), 10, 8)
    BY <1>1, <2>1, HashPage
  <2>3. Len(CString(p)) <= 20
    BY <2>2
  <2> QED
    BY <1>1, <2>1, <2>2, <2>3 DEF TypeOK, ShowsTheValue, Shown, v, p
<1> QED
  BY <1>2, <1>3, <1>4, <1>5, <1>6 DEF Next

\* TypeOK is about the state after a step alone.
LEMMA SamePage == UNCHANGED vars => (TypeOK => TypeOK') /\ (ShowsTheValue => ShowsTheValue')
BY DEF vars, TypeOK, ShowsTheValue, Shown

(***************************************************************************)
(* Whatever the value, and whatever lies on the stack around a name, a     *)
(* page stays within its 89 characters and has a NUL within the first 15   *)
(* of them, 21 for a hash: the longest summary is all there is to read,    *)
(* and nothing of a longer page before it.                                 *)
(***************************************************************************)
THEOREM TextPagesTypeCorrect == Spec => []TypeOK
<1>1. Init => TypeOK
  BY InitPage
<1>2. TypeOK /\ [Next]_vars => TypeOK'
  BY NextPage, SamePage
<1> QED
  BY <1>1, <1>2, PTL DEF Spec

(***************************************************************************)
(* On every page the string is the text of its value, in full or its two   *)
(* ends, for the values that Printable names: names of up to twelve        *)
(* characters, over a stack with no dot below the name and a NUL behind it *)
(* or one character on; int64_t above the least one; numbers of sellram    *)
(* below half of a uint64_t; assets that are not negative, with no more    *)
(* decimals than the move of format_asset makes room for; and every hash.  *)
(* What the code prints for other values is not claimed.                   *)
(***************************************************************************)
THEOREM PagesShowTheValue == Printable => (Spec => []ShowsTheValue)
<1> SUFFICES ASSUME Printable PROVE Spec => []ShowsTheValue
  OBVIOUS
<1>1. Init => ShowsTheValue
  BY InitPage
<1>2. ShowsTheValue /\ [Next]_vars => ShowsTheValue'
  BY NextPage, SamePage
<1> QED
  BY <1>1, <1>2, PTL DEF Spec
=============================================================================
