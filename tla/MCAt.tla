-------------------------------- MODULE MCAt --------------------------------
(* The MQTT connection and one of an HTTP client. *)
EXTENDS AtClient

CONSTANTS mqtt, http
=============================================================================
