---------------------------- MODULE MCLogHandler ---------------------------
(* LogHandler on small instances. *)
EXTENDS LogHandler, TLC

ProducerSymmetry == Permutations(Producers)
=============================================================================
