---------------------------- MODULE MCPublicKey ----------------------------
(***************************************************************************)
(* Base 9 to base 5: a byte of base 9 takes 1.365 digits, as one of base   *)
(* 256 takes 1.366 digits of base 58, so the 138/100 of the code has the   *)
(* same margin.  The addresses have none to nine characters, of which a    *)
(* key takes two: with its version and its checksum that is five bytes,    *)
(* one group of eight characters, of which the summary leaves out four.    *)
(***************************************************************************)
EXTENDS EosPublicKey

MCInputs == UNION {[1..length -> {0, 1, 8}] : length \in 1..6}

MCAlphabet == <<1, 90, 255, 128, 63>>

MCChecksums == {<<0, 170>>, <<129, 7>>}
=============================================================================
