----------------------------- MODULE MCThreads -----------------------------
(* Instances of MqttThreads for TLC. *)
EXTENDS MqttThreads, TLC

Symmetry == Permutations(Node) \cup Permutations(App)
=============================================================================
