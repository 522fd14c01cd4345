----------------------------- MODULE MCRestart -----------------------------
(* Instances of Restart for TLC.                                           *)
EXTENDS Restart

CONSTANTS r1, kb, fa, fb

OneSize == (fa :> 1) @@ (fb :> 1)

\* Files of one size are interchangeable.
Sym == Permutations({fa, fb})
=============================================================================
