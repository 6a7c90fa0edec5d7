---------------------------- MODULE EosPublicKey ----------------------------
(***************************************************************************)
(* handle_get_public_key of eos.c from the compressed key on: the base 58  *)
(* text of the key goes into ctx.req.pk.address, for the host, and         *)
(* ui_show_address_init makes the text of the prompt from that, the two    *)
(* ends of its base 32.                                                    *)
(* Two converters run one after the other on the same buffer: EosBase58,   *)
(* digit by digit, and EosAddress, five bits by five bits.                 *)
(***************************************************************************)
EXTENDS Integers, Sequences, Powers

CONSTANTS
    BASE, DIGITS, Inputs, Olens,    \* see EosBase58
    Alphabet,                       \* b58digits_ordered, as bytes
    KEY_SIZE, Checksums, BUF_SIZE, SUMMARY   \* see EosAddress

ASSUME DataAssumption ==
    /\ BASE \in Nat \ {0} /\ DIGITS \in Nat \ {0, 1}
    /\ Inputs \subseteq Seq(0..(BASE - 1)) /\ Olens \subseteq Nat

\* 138/100 digits hold a byte, because 11/8 do: 256^8 <= 58^11.
ASSUME MarginAssumption == Power(BASE, 8) <= Power(DIGITS, 11)

VARIABLES
    bin, b58sz, pc, i, j, high, carry, buf, b58,                          \* b58enc
    step, data, next, buffer, bitsLeft, result, detailValue               \* print_public_key

b58enc == INSTANCE EosBase58

keyVars == <<bin, b58sz, pc, i, j, high, carry, buf, b58>>
promptVars == <<step, data, next, buffer, bitsLeft, result, detailValue>>

vars == <<keyVars, promptVars>>

\* ctx.req.pk.address, which is cleared before.
address == [k \in DOMAIN b58 |-> Alphabet[b58[k] + 1]]

base32 == INSTANCE EosAddress WITH pc <- step

\* A key with its version and its checksum is made of groups of five bytes (35),
\* and its text fits and is longer than its summary (56 characters, 26 shown).
ASSUME PromptAssumption ==
    /\ Alphabet \in Seq(0..255) /\ Len(Alphabet) = DIGITS
    /\ {KEY_SIZE, BUF_SIZE, SUMMARY} \subseteq Nat
    /\ \A crc \in Checksums : crc \in Seq(0..255) /\ Len(crc) = 2
    /\ (KEY_SIZE + 3) % 5 = 0
    /\ base32!Chars(KEY_SIZE + 3) <= BUF_SIZE
    /\ 2 * SUMMARY + 2 < base32!Chars(KEY_SIZE + 3)

Init ==
    /\ b58enc!Init
    /\ base32!Init

EncodeKey == b58enc!Next /\ UNCHANGED promptVars

\* print_public_key(ctx.req.pk.address, detailValue, 12, 12)
ui_show_address_init == pc = "return" /\ UNCHANGED keyVars /\ base32!Next

Next == EncodeKey \/ ui_show_address_init

Spec == Init /\ [][Next]_vars

\* The processor runs.
FairSpec == Spec /\ WF_vars(Next)

\* Every index of both converters is inside its array: j does not wrap below
\* 0 although it is unsigned and counts down (eos_base58.c:46).
TypeOK == b58enc!TypeOK /\ base32!TypeOK

(***************************************************************************)
(* Base 58 loses nothing on the way: see EosBase58 (eos_base58.c:35, 44).  *)
(***************************************************************************)
DigitsAreTheBytes == b58enc!DigitsAreTheBytes

(***************************************************************************)
(* What the host gets denotes the key (b58enc), or is empty, if what the   *)
(* stack had left in olen was small (eos_helpers.c:64).                    *)
(***************************************************************************)
TextIsTheData == b58enc!TextIsTheData

(***************************************************************************)
(* What the owner sees are the two ends of the base 32 of what the host    *)
(* gets, or of its first KEY_SIZE characters (print_public_key).           *)
(***************************************************************************)
ShowsEndsOfBase32 == base32!ShowsEndsOfBase32

\* The steps that are left at most: one for each digit, and one more, for each
\* byte of the key; one for each character that the prompt has room for.
KeySteps ==
    CASE pc = "bytes" -> (Len(bin) - i) * (b58enc!size + 1) + 2
      [] pc = "digits" -> (Len(bin) - i - 1) * (b58enc!size + 1) + j + 3
      [] pc = "write" -> 1
      [] pc = "return" -> 0

PromptSteps ==
    CASE step = "idle" -> BUF_SIZE + 2
      [] step = "encode" -> BUF_SIZE - Len(result) + 1
      [] step = "shown" -> 0

StepsLeft == KeySteps + PromptSteps

(***************************************************************************)
(* No step of either converter is wasted: each brings the end nearer, and  *)
(* their number is bounded by the lengths alone, although the inner loop   *)
(* runs on for a carry (eos_base58.c:46) and that of base32_encode takes   *)
(* no byte in most of its turns (eos_utils.c:87).                          *)
(***************************************************************************)
EndComesNearer == [][StepsLeft' \in Nat /\ StepsLeft' < StepsLeft]_vars

(***************************************************************************)
(* The loops of both converters end, and the prompt comes up: j comes down *)
(* to "high" or to 0 for every byte, and base32_encode runs out of data or *)
(* of room (eos_base58.c:46, eos_utils.c:87).                              *)
(***************************************************************************)
Returns == <>(step = "shown")
=============================================================================
