------------------------------ MODULE MCTempPool ------------------------------
(* TempPool for TLC: the patterns are interchangeable.                      *)
EXTENDS TempPool, TLC

Symmetry == Permutations(Value)
===============================================================================
