------------------------------- MODULE MCHttp -------------------------------
(* A file of three slices.  A server without Range sends it in one response, *)
(* which takes the caller two buffers.                                       *)
EXTENDS HttpClient
=============================================================================
