----------------------------- MODULE EosAddress -----------------------------
(***************************************************************************)
(* The address prompt's text: encode_key, base32_encode and print_summary  *)
(* of eos_utils.c, as print_public_key(ctx.req.pk.address, detailValue,    *)
(* 12, 12) of ui_show_address_init calls them on the address that the host *)
(* will get.  base32_encode takes five bits at a time from a buffer that a *)
(* byte is shifted into whenever fewer than five are left.                 *)
(*                                                                         *)
(* A character of a text is its index in base32Alphabet.  The bytes of a   *)
(* key are whole groups of five (35), which give whole groups of eight     *)
(* characters (56): the lines of base32_encode that pad an incomplete      *)
(* group (eos_utils.c:94, 112) have no caller that reaches them.           *)
(***************************************************************************)
EXTENDS Integers, Sequences, Powers

CONSTANTS
    KEY_SIZE,   \* how many of its characters encode_key takes: 32
    Checksums,  \* what crc16 may give, as two bytes
    BUF_SIZE,   \* the room that encode_key grants: 56
    SUMMARY     \* numCharsL and numCharsR: 12

VARIABLES
    address,     \* ctx.req.pk.address, from EosBase58
    data,        \* the argument of base32_encode
    pc,
    next,        \* the byte that is taken next
    buffer,      \* the bits; no more than the last twelve are ever read
    bitsLeft,
    result,      \* the local buffer of print_public_key, without its NUL
    detailValue  \* what the prompt shows

vars == <<address, data, pc, next, buffer, bitsLeft, result, detailValue>>

DOT == 32   \* the character '.', which is not in base32Alphabet
KeepBits == Power(2, 12)

At(s, k) == IF k + 1 \in DOMAIN s THEN s[k + 1] ELSE 0

\* encode_public_key: the version byte 6 << 3, the key, its checksum.
encode_key(in, crc) == <<6 * 8>> \o [k \in 1..KEY_SIZE |-> At(in, k - 1)] \o crc

Init ==
    /\ pc = "idle" /\ data = <<>>
    /\ next = 1 /\ buffer = 0 /\ bitsLeft = 8
    /\ result = <<>> /\ detailValue = <<>>

\* encode_key, up to the loop of base32_encode.
Start ==
    /\ pc = "idle"
    /\ \E crc \in Checksums : data' = encode_key(address, crc)
    /\ pc' = "encode"
    /\ buffer' = At(data', 0)
    /\ UNCHANGED <<address, next, bitsLeft, result, detailValue>>

\* Fault: the loop stops with the last byte, not with the last bit.
MoreBytes == next < Len(data)

\* count < bufSize && (bitsLeft > 0 || next < length)
More == Len(result) < BUF_SIZE /\ (bitsLeft > 0 \/ next < Len(data))

\* The character of the five highest bits.
Encode(bits, left, from) ==
    /\ buffer' = bits % KeepBits
    /\ bitsLeft' = left - 5
    /\ next' = from
    /\ result' = Append(result, (bits \div Power(2, left - 5)) % 32)

EncodeNext ==
    /\ pc = "encode" /\ More
    /\ \/ bitsLeft >= 5 /\ Encode(buffer, bitsLeft, next)
       \/ /\ bitsLeft < 5
          /\ Encode(buffer * 256 + At(data, next), bitsLeft + 8, next + 1)
    /\ UNCHANGED <<address, data, pc, detailValue>>

\* Of a text that is longer than its summary.
print_summary(in, left, right) ==
    SubSeq(in, 1, left) \o <<DOT, DOT>> \o SubSeq(in, Len(in) - right + 1, Len(in))

\* encode_key puts a NUL at the end of its room, and print_public_key writes
\* the summary.
Return ==
    /\ pc = "encode" /\ ~More
    /\ pc' = "shown"
    /\ detailValue' = print_summary(result, SUMMARY, SUMMARY)
    /\ UNCHANGED <<address, data, next, buffer, bitsLeft, result>>

Next == Start \/ EncodeNext \/ Return

Spec == Init /\ [][Next]_vars

TypeOK ==
    /\ pc \in {"idle", "encode", "shown"}
    /\ next \in 1..(Len(data) + 1) /\ bitsLeft \in 0..8
    /\ Len(result) <= BUF_SIZE /\ \A k \in DOMAIN result : result[k] \in 0..31

-----------------------------------------------------------------------------
\* Base 32 by its definition: the k-th five bits of the data.
Bit(bytes, k) == (At(bytes, k \div 8) \div Power(2, 7 - (k % 8))) % 2

Five(bytes, k) ==
    16 * Bit(bytes, 5 * k) + 8 * Bit(bytes, 5 * k + 1) + 4 * Bit(bytes, 5 * k + 2)
        + 2 * Bit(bytes, 5 * k + 3) + Bit(bytes, 5 * k + 4)

\* The characters that n bytes have.
Chars(n) == (8 * n) \div 5

Base32(bytes) == [k \in 1..Chars(Len(bytes)) |-> Five(bytes, k - 1)]

\* The two ends of a text, and two dots between them.
Summarizes(shown, text, ends) ==
    /\ Len(shown) = 2 * ends + 2
    /\ \A k \in 1..ends : /\ shown[k] = text[k]
                          /\ shown[ends + 2 + k] = text[Len(text) - ends + k]
    /\ shown[ends + 1] = DOT /\ shown[ends + 2] = DOT

(***************************************************************************)
(* The prompt shows the two ends of the base 32 of what the host will get: *)
(* of the version, the first KEY_SIZE characters of the address in the     *)
(* union, and a checksum, with the five bits that straddle two bytes and   *)
(* the last ones of the checksum in their places (eos_api.h:83, 86).       *)
(***************************************************************************)
ShowsEndsOfBase32 ==
    pc = "shown" =>
        \E crc \in Checksums :
            Summarizes(detailValue, Base32(encode_key(address, crc)), SUMMARY)
=============================================================================
