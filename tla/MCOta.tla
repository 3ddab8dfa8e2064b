------------------------------- MODULE MCOta -------------------------------
(* Instances of Ota for TLC. *)
EXTENDS Ota, TLC

CONSTANTS u1, u2, u3

\* A file of two pieces, one of a single piece, and one that is never fetched.
FileSize == u1 :> 2 @@ u2 :> 1 @@ u3 :> 1
=============================================================================
