---------------------------- MODULE MCNetService ----------------------------
(* Instances of NetService for TLC; the sizes are in the configurations.   *)
EXTENDS NetService, TLC

Symmetry == Permutations(IoThreads) \cup Permutations(AppThreads)
=============================================================================
