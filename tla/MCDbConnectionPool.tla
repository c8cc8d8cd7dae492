------------------------- MODULE MCDbConnectionPool -------------------------
(* Three threads over two connections: a thread waits while two others hold  *)
(* everything, and a newcomer can overtake a woken thread.                   *)
EXTENDS DbConnectionPool
=============================================================================
