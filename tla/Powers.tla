------------------------------- MODULE Powers -------------------------------
(***************************************************************************)
(* Powers of natural numbers, by recursion, for the modules whose numbers  *)
(* are written in bytes or digits: the prover knows nothing about "^".     *)
(***************************************************************************)
EXTENDS Naturals

Power(base, n) ==
    LET power[k \in 0..n] == IF k = 0 THEN 1 ELSE base * power[k - 1]
    IN  power[n]
=============================================================================
