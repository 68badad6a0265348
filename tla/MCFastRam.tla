----------------------------- MODULE MCFastRam -----------------------------
(* The fast RAM for TLC: a few lines that share a cache row, and a unit    *)
(* whose two words lie in two entries of a way.                            *)
EXTENDS FastRam, TLC

OddPair == {[blk |-> 5, two |-> 1, sel |-> {5, 6}]}

Data == {"D"}
Never == {0}
Sometimes == {0, 1}
AnyReset == {"cpu", "full"}

\* lines are interchangeable
Symmetry == Permutations(Lines)
=============================================================================
