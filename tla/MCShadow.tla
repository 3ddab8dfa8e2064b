------------------------------ MODULE MCShadow ------------------------------
(* Instances of Shadow for TLC. *)
EXTENDS Shadow, TLC

Symmetry == Permutations(Request) \cup Permutations(App)
=============================================================================
