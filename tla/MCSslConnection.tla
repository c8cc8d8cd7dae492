--------------------------- MODULE MCSslConnection ---------------------------
(* One client and two requests, in TLS or in the clear. *)
EXTENDS SslConnection
=============================================================================
