---------------------------- MODULE MCRegistry -----------------------------
(* Instances of Registry for TLC: addresses, names and threads are model
   values, any of which may be exchanged for another of its kind. *)
EXTENDS Registry, TLC

Symmetry ==
  Permutations(Threads) \cup Permutations(Loggers) \cup Permutations(Handlers)
    \cup Permutations(LoggerNames) \cup Permutations(HandlerNames)
============================================================================
