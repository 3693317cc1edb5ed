------------------------------- MODULE MCRecords -------------------------------
(* Finite instances of Records: two servers and two aliases, where rows of a kind *)
(* matter to each other, and one or two rows of the other kinds.                *)
EXTENDS Records, TLC

Symmetry == Permutations(Req)
================================================================================
