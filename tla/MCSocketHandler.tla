------------------------- MODULE MCSocketHandler --------------------------
(* Instances of SocketHandler for TLC. *)
EXTENDS SocketHandler
============================================================================
