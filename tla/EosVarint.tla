----------------------------- MODULE EosVarint -----------------------------
(***************************************************************************)
(* The varint codec, eos_varint.c, and parse_varint32 of eos_utils.c,      *)
(* which the transaction parser reads every length and count with.  Seven  *)
(* bits to a byte, the lowest first; the eighth bit says that more bytes   *)
(* follow.                                                                 *)
(***************************************************************************)
EXTENDS Naturals, Sequences, Powers

CONSTANTS
    CHAR_SIGNED,  \* plain char is signed: on the host of the tests it is,
                  \* on the ARM of the device it is not
    UINT32        \* number of values of a uint32_t

ASSUME CharAssumption == CHAR_SIGNED \in BOOLEAN
ASSUME Uint32Assumption == UINT32 \in Nat \ {0}

\* A byte of a buffer, counted from 0; what lies behind the buffer is zero.
ByteAt(bytes, at) == IF at + 1 \in DOMAIN bytes THEN bytes[at + 1] ELSE 0

\* "2 ^ 7", "2 ^ 14", ... : N1, N2, ...
EncodingLength(value) == CHOOSE k \in 1..10 :
    /\ value < Power(128, k)
    /\ k > 1 => value >= Power(128, k - 1)

\* n & MSBALL: the mask is a plain char, widened to the width of n.
More(value) ==
    IF CHAR_SIGNED THEN value >= 128 ELSE (value \div 128) % 2 = 1

Encode(value) ==
    LET code[k \in 0..value] == IF More(k) THEN <<128 + (k % 128)>> \o code[k \div 128]
                                ELSE <<k % 256>>
    IN  code[value]

\* How many bytes varint_decode consumes at a position.
Bytes(bytes, at) == CHOOSE k \in 1..(Len(bytes) + 1) :
    /\ ByteAt(bytes, at + k - 1) < 128
    /\ \A j \in 1..(k - 1) : ByteAt(bytes, at + j - 1) >= 128

\* Fault: every byte is shifted by eight bits.
ByEight(bytes, at) ==
    LET n == Bytes(bytes, at)
        sum[k \in 0..n] ==
            IF k = 0 THEN 0
            ELSE sum[k - 1] + (ByteAt(bytes, at + k - 1) % 128) * Power(256, k - 1)
    IN  sum[n] % UINT32

\* parse_varint32: the result of varint_decode, cut to 32 bits.
Varint(bytes, at) ==
    LET n == Bytes(bytes, at)
        sum[k \in 0..n] ==
            IF k = 0 THEN 0
            ELSE sum[k - 1] + (ByteAt(bytes, at + k - 1) % 128) * Power(128, k - 1)
    IN  sum[n] % UINT32
=============================================================================
