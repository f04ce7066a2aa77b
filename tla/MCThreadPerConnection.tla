-------------------------- MODULE MCThreadPerConnection --------------------------
(* Small instances of ThreadPerConnection for TLC.                         *)
EXTENDS ThreadPerConnection, TLC

Symmetry == Permutations(Connections) \cup Permutations(ThreadIds)
================================================================================
