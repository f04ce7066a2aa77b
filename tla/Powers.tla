--------------------------------- MODULE Powers ---------------------------------
(* Powers, as products: a theorem can be proved of them.                    *)
EXTENDS Integers, SequencesExt

Times(a, b) == a * b

\* b to the power of k.
Power(b, k) == FoldLeft(Times, 1, [i \in 1 .. k |-> b])
================================================================================
