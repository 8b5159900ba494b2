-------------------------- MODULE MCFileHandler ---------------------------
(* Instances of FileHandler for TLC. *)
EXTENDS FileHandler
============================================================================
