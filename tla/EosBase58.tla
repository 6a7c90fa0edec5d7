----------------------------- MODULE EosBase58 -----------------------------
(***************************************************************************)
(* b58enc of eos_base58.c, loop by loop, as eos_hash_and_encode_base58 of  *)
(* eos_helpers.c calls it for an address: a number is converted from BASE  *)
(* (256) to DIGITS (58) by multiplying the digits so far and adding the    *)
(* next byte, from the last digit up, with a carry.  The alphabet gives    *)
(* each digit a character of its own and the digit 0 the character "1":    *)
(* here a character is its digit.                                          *)
(***************************************************************************)
EXTENDS Naturals, Sequences

CONSTANTS
    BASE,    \* number of values of a byte
    DIGITS,  \* length of b58digits_ordered
    Inputs,  \* the data that are encoded
    Olens    \* what the uninitialized olen may hold (eos_helpers.c:64)

VARIABLES
    bin,    \* the data
    b58sz,  \* *b58sz: how much room the caller says there is
    pc,     \* "bytes" and "digits" are the heads of the two nested loops
    i,      \* the byte that is added
    j,      \* the digit that it is added to
    high,   \* the highest digit that the last byte has reached
    carry,
    buf,    \* the digits, the highest first
    b58     \* the text

vars == <<bin, b58sz, pc, i, j, high, carry, buf, b58>>

NoText == <<>>

\* How many elements at the start are zero.
LeadingZeros(s) == CHOOSE z \in 0..Len(s) :
    /\ \A k \in 1..z : s[k] = 0
    /\ z < Len(s) => s[z + 1] # 0

zcount == LeadingZeros(bin)

\* Fault: a byte gives four thirds of a digit.
SmallSize == ((Len(bin) - zcount) * 133) \div 100 + 1

size == ((Len(bin) - zcount) * 138) \div 100 + 1

Init ==
    /\ bin \in Inputs /\ b58sz \in Olens
    /\ pc = "bytes"
    /\ i = zcount /\ j = 0 /\ high = size - 1 /\ carry = 0
    /\ buf = [k \in 0..(size - 1) |-> 0]
    /\ b58 = NoText

\* for (i = zcount, high = size - 1; i < binsz; ++i, high = j)
NextByte ==
    /\ pc = "bytes" /\ i < Len(bin)
    /\ carry' = bin[i + 1]
    /\ j' = size - 1
    /\ pc' = "digits"
    /\ UNCHANGED <<bin, b58sz, i, high, buf, b58>>

LastByte ==
    /\ pc = "bytes" /\ i = Len(bin)
    /\ pc' = "write"
    /\ UNCHANGED <<bin, b58sz, i, j, high, carry, buf, b58>>

\* Fault: the digits above the last carry are not multiplied.
UntilNoCarry == carry > 0

MoreDigits == j > high \/ carry > 0

\* Fault: the outer loop does not go on to the next byte.
SameByte(last) ==
    /\ pc' = "bytes"
    /\ i' = i
    /\ high' = last

\* The rest of the outer loop's step.
ByteAdded(last) ==
    /\ pc' = "bytes"
    /\ i' = i + 1
    /\ high' = last

\* Fault: j is counted down from 0.
NeverAtFirst == FALSE

\* "Otherwise j wraps to maxint which is > high"
AtFirst == j = 0

\* for (carry = bin[i], j = size - 1; (j > high) || carry; --j)
NextDigit ==
    /\ pc = "digits" /\ MoreDigits
    /\ LET sum == carry + BASE * buf[j]
       IN  /\ buf' = [buf EXCEPT ![j] = sum % DIGITS]
           /\ carry' = sum \div DIGITS
    /\ \/ AtFirst /\ j' = j /\ ByteAdded(j)
       \/ ~AtFirst /\ j' = j - 1 /\ UNCHANGED <<pc, i, high>>
    /\ UNCHANGED <<bin, b58sz, b58>>

LastDigit ==
    /\ pc = "digits" /\ ~MoreDigits
    /\ ByteAdded(j)
    /\ UNCHANGED <<bin, b58sz, j, carry, buf, b58>>

\* The digits as a sequence, without the zeros at its start.
Digits == [k \in 1..size |-> buf[k - 1]]
Significant == SubSeq(Digits, LeadingZeros(Digits) + 1, size)

\* Fault: the zeros in front of the data are not written.
WithoutZeros == Significant

Text == [k \in 1..zcount |-> 0] \o Significant

\* With a NUL at the end the text must fit the room.
Write ==
    /\ pc = "write"
    /\ pc' = "return"
    /\ IF b58sz <= zcount + size - LeadingZeros(Digits)
       THEN b58' = NoText
       ELSE b58' = Text
    /\ b58sz' = zcount + size - LeadingZeros(Digits) + 1
    /\ UNCHANGED <<bin, i, j, high, carry, buf>>

Next == NextByte \/ LastByte \/ NextDigit \/ LastDigit \/ Write

Spec == Init /\ [][Next]_vars

(***************************************************************************)
(* Every index is inside its array: j wraps below 0 in no step, although   *)
(* it is unsigned and counts down (eos_base58.c:46), and i stays inside    *)
(* the data.                                                               *)
(***************************************************************************)
TypeOK ==
    /\ bin \in Inputs /\ b58sz \in Nat
    /\ pc \in {"bytes", "digits", "write", "return"}
    /\ i \in 0..Len(bin) /\ (pc = "digits" => i < Len(bin))
    /\ j \in 0..(size - 1) /\ high \in 0..(size - 1)
    /\ carry \in Nat
    /\ buf \in [0..(size - 1) -> 0..(DIGITS - 1)]
    /\ b58 \in Seq(Nat)

-----------------------------------------------------------------------------
\* The number that digits denote.
NumberOf(s, base) ==
    LET value[k \in 0..Len(s)] == IF k = 0 THEN 0 ELSE value[k - 1] * base + s[k]
    IN  value[Len(s)]

(***************************************************************************)
(* Nothing is lost on the way: after each byte the digits are the number   *)
(* that the bytes so far are, no carry is left over at the first digit     *)
(* (size is large enough, eos_base58.c:35), and the digits above "high"    *)
(* are zero, which is why the inner loop may stop there.                   *)
(***************************************************************************)
DigitsAreTheBytes ==
    pc = "bytes" =>
        /\ NumberOf(Digits, DIGITS) = NumberOf(SubSeq(bin, 1, i), BASE)
        /\ i > zcount => carry = 0
        /\ i > zcount => \A k \in 0..(high - 1) : buf[k] = 0

(***************************************************************************)
(* The text denotes the data: a "1" for each leading zero byte, then the   *)
(* same number without leading zeros, if there was room for it.            *)
(***************************************************************************)
TextIsTheData ==
    b58 # NoText =>
        LET z == LeadingZeros(bin)
        IN  /\ LeadingZeros(b58) = z
            /\ NumberOf(b58, DIGITS) = NumberOf(bin, BASE)

============================================================================
