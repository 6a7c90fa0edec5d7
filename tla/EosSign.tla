------------------------------ MODULE EosSign ------------------------------
(***************************************************************************)
(* The signature of a transaction: the loop of set_result_sign_tx (eos.c)  *)
(* that signs until the signature is canonical, and what eos_helpers.c     *)
(* makes of its DER encoding.  A signature has two integers of SIZE bytes  *)
(* (32); a byte has BYTE values (256), the upper half of which have the    *)
(* top bit set.                                                            *)
(***************************************************************************)
EXTENDS Naturals, Sequences, Powers

CONSTANTS
    BYTE,        \* number of values of a byte
    SIZE,        \* bytes of r and s
    SEQUENCE,    \* the DER tag of a sequence
    INTEGER,     \* the DER tag of an integer
    Signatures   \* what the key and the random nonces can give: [r, s, odd]

ASSUME BytesAssumption ==
    /\ BYTE \in Nat /\ BYTE >= 2
    /\ SIZE \in Nat /\ SIZE >= 2
    /\ SEQUENCE \in Nat /\ INTEGER \in Nat

ASSUME SignaturesAssumption ==
    Signatures \subseteq [r : Nat, s : Nat, odd : {0, 1}]

\* r and s are below the order of the curve, which takes SIZE bytes.
ASSUME SizeAssumption ==
    \A sig \in Signatures : sig.r < Power(BYTE, SIZE) /\ sig.s < Power(BYTE, SIZE)

VARIABLES
    nonce,      \* (history) the signature made last
    signature,  \* signature[164]: its DER encoding
    info,       \* CX_ECCINFO_PARITY_ODD
    answer      \* G_io_apdu_buffer

signVars == <<nonce, signature, info, answer>>

Pending == <<>>

\* The bytes of a number, the highest first.
BytesOf(number, size) == [i \in 1..size |-> (number \div Power(BYTE, size - i)) % BYTE]

TopBit(byte) == byte >= BYTE \div 2

-----------------------------------------------------------------------------
(***************************************************************************)
(* cx_ecdsa_sign, from the SDK: a DER sequence of two integers, each in as *)
(* few bytes as it needs for its value and a sign bit of 0.                *)
(***************************************************************************)
DerInteger(number) ==
    LET size == CHOOSE k \in 1..(SIZE + 1) :
                    /\ 2 * number < Power(BYTE, k)
                    /\ k > 1 => 2 * number >= Power(BYTE, k - 1)
    IN  <<INTEGER, size>> \o BytesOf(number, size)

Der(sig) ==
    LET integers == DerInteger(sig.r) \o DerInteger(sig.s)
    IN  <<SEQUENCE, Len(integers)>> \o integers

-----------------------------------------------------------------------------
(***************************************************************************)
(* Both functions of eos_helpers.c find the integers in the same way.  An  *)
(* index of C is one less than one of TLA+.                                *)
(***************************************************************************)
rLength(sig) == sig[3 + 1]
sLength(sig) == sig[4 + rLength(sig) + 1 + 1]

\* Fault: the zero in front of an integer with the top bit set is not skipped.
NotSkipped(length) == 0

\* rLength == 33 ? 1 : 0
Skipped(length) == IF length = SIZE + 1 THEN 1 ELSE 0

rStart(sig) == 4 + Skipped(rLength(sig))
sStart(sig) == 4 + rLength(sig) + 2 + Skipped(sLength(sig))

\* signature[164] has been cleared.
At(sig, i) == IF i + 1 \in DOMAIN sig THEN sig[i + 1] ELSE 0

\* Fault: the sign bit of s is not looked at.
CanonicalR(sig) ==
    /\ ~TopBit(At(sig, rStart(sig)))
    /\ ~(At(sig, rStart(sig)) = 0 /\ ~TopBit(At(sig, rStart(sig) + 1)))

\* The code copies an integer to a buffer of its own before it tests two bytes.
\* An integer of one byte would leave the second as it is, uninitialised; it is
\* looked at only when the first is zero, and no signature has an r or s of 0.
eos_is_canonical(sig) ==
    \A start \in {rStart(sig), sStart(sig)} :
        /\ ~TopBit(At(sig, start))
        /\ ~(At(sig, start) = 0 /\ ~TopBit(At(sig, start + 1)))

\* Fault: s follows r directly.
NoTagBetween(sig, odd) ==
    <<27 + odd>> \o [i \in 1..SIZE |-> At(sig, rStart(sig) + i - 1)]
                 \o [i \in 1..SIZE |-> At(sig, sStart(sig) + i - 3)]

\* eos_signature_to_encoded_base58: not base 58, but 27 or 28, r and s.
Compact(sig, odd) ==
    <<27 + odd>> \o [i \in 1..SIZE |-> At(sig, rStart(sig) + i - 1)]
                 \o [i \in 1..SIZE |-> At(sig, sStart(sig) + i - 1)]

-----------------------------------------------------------------------------
NoSignature == <<>>

SignInit ==
    /\ nonce \in Signatures
    /\ signature = NoSignature /\ info = 0
    /\ answer = Pending

\* Fault: CX_RND_RFC6979, the nonce is a function of the key and the hash.
SameNonce(chosen) == chosen = nonce

\* CX_RND_TRNG
AnyNonce(chosen) == TRUE

\* Fault: another attempt is written behind the last one.
Appended(der) == signature \o der

\* The buffer is cleared before the loop only: a shorter signature leaves the
\* end of a longer one behind it.
Overwritten(der) == der \o SubSeq(signature, Len(der) + 1, Len(signature))

Signed(chosen) ==
    /\ AnyNonce(chosen)
    /\ nonce' = chosen
    /\ signature' = Overwritten(Der(chosen))
    /\ info' = chosen.odd

\* do
Sign ==
    /\ signature = NoSignature
    /\ \E chosen \in Signatures : Signed(chosen)
    /\ UNCHANGED answer

\* while (!eos_is_canonical(signature, signatureLength));
SignAgain ==
    /\ signature # NoSignature /\ answer = Pending
    /\ ~eos_is_canonical(signature)
    /\ \E chosen \in Signatures : Signed(chosen)
    /\ UNCHANGED answer

Reply ==
    /\ signature # NoSignature /\ answer = Pending
    /\ eos_is_canonical(signature)
    /\ answer' = Compact(signature, info)
    /\ UNCHANGED <<nonce, signature, info>>

\* The next request is for another signature.
NextRequest ==
    /\ answer # Pending
    /\ signature' = NoSignature /\ info' = 0
    /\ answer' = Pending
    /\ UNCHANGED nonce

SignNext == Sign \/ SignAgain \/ Reply \/ NextRequest

SignSpec == SignInit /\ [][SignNext]_signVars

\* A random nonce gives a canonical signature sooner or later.
FairSignSpec ==
    /\ SignSpec
    /\ WF_signVars(SignNext)
    /\ SF_signVars(SignAgain /\ eos_is_canonical(signature'))

\* The buffer never holds more than one signature of the largest size, and an
\* answer is as long as EOSIO has it.
SignTypeOK ==
    /\ nonce \in Signatures
    /\ signature \in Seq(Nat) /\ Len(signature) <= 2 * (SIZE + 1) + 6
    /\ info \in {0, 1}
    /\ answer \in Seq(Nat) /\ Len(answer) \in {0, 2 * SIZE + 1}

-----------------------------------------------------------------------------
\* What EOSIO takes: 27 or 28, r and s in full, and of each neither the top
\* bit set nor a leading zero that it could do without.
Reference(sig) == <<27 + sig.odd>> \o BytesOf(sig.r, SIZE) \o BytesOf(sig.s, SIZE)

LooksCanonical(compact) ==
    \A i \in {2, SIZE + 2} :
        /\ ~TopBit(compact[i])
        /\ ~(compact[i] = 0 /\ ~TopBit(compact[i + 1]))

(***************************************************************************)
(* The test and the encoding agree: the two functions of eos_helpers.c     *)
(* take the DER encoding apart each for itself, and what is sent satisfies *)
(* byte for byte what was tested (eos_helpers.c:31-42, 97-103).            *)
(***************************************************************************)
AnswerLooksCanonical == answer # Pending => LooksCanonical(answer)

FullLength(number) == 2 * number >= Power(BYTE, SIZE - 1)

(***************************************************************************)
(* What is sent is the signature that was made last, r and s in their      *)
(* places whichever of them has a zero in front or was signed again after  *)
(* a longer one.  The exception is a number that is short of SIZE bytes in *)
(* DER: eos_is_canonical takes it, and Compact copies what follows it too  *)
(* (eos_helpers.c:33, 102).                                                *)
(***************************************************************************)
AnswerIsTheSignature ==
    answer # Pending /\ FullLength(nonce.r) /\ FullLength(nonce.s)
        => answer = Reference(nonce)

(***************************************************************************)
(* The loop ends: every approved transaction is signed, because a new      *)
(* attempt takes a new nonce (eos.c:177).                                  *)
(***************************************************************************)
EveryRequestIsSigned == answer = Pending ~> answer # Pending
=============================================================================
