----------------------------- MODULE MCSession -----------------------------
(* Instances of MqttSession for TLC. *)
EXTENDS MqttSession, TLC

Symmetry == Permutations(PacketId) \cup Permutations(Topic) \cup Permutations(Handler)
=============================================================================
