------------------------------- MODULE MCLink -------------------------------
(* Instances of MqttLink for TLC. *)
EXTENDS MqttLink
=============================================================================
