--------------------------- MODULE MCHttpTransport ---------------------------
(* The instance of HttpTransport for TLC. *)
EXTENDS HttpTransport
=============================================================================
