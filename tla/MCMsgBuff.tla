----------------------------- MODULE MCMsgBuff -----------------------------
(* MsgBuff for TLC. *)
EXTENDS MsgBuff, TLC

(* Threads are interchangeable. *)
Symmetry == Permutations(Writers) \cup Permutations(Readers)
=============================================================================
