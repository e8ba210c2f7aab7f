------------------------------ MODULE MCConnPool ------------------------------
(* TLC instances of ConnPool.                                              *)
EXTENDS ConnPool, TLC

Symmetry == Permutations(Callers) \cup Permutations(Conns)
=============================================================================
