------------------------------- MODULE MCSign -------------------------------
(***************************************************************************)
(* Numbers of three bytes of two bits each: on both sides of every border  *)
(* at which the length in DER, the top bit or the leading zero changes.    *)
(***************************************************************************)
EXTENDS EosSign

Numbers == {1, 7, 8, 15, 16, 31, 32, 63}

MCSignatures == [r : Numbers, s : Numbers, odd : {0, 1}]
=============================================================================
