------------------------------- MODULE MCOutputTxn -------------------------------
(* Two contents of the same size and one that is larger; the artifacts are
   interchangeable, and so are the two contents. *)
EXTENDS OutputTxn, TLC

CONSTANTS a, b, large

MCContents == {a, b, large}
MCSymmetry == Permutations(Paths) \cup Permutations({a, b})
MCBytes == [c \in MCContents |-> IF c = large THEN 2 ELSE 1]
===============================================================================
