------------------------------- MODULE MCFfid -------------------------------
(* Ffid for TLC: three slots and a limit so small that slots run through   *)
(* all their ids, to restart or to retire as isLoop has it.                *)
EXTENDS Ffid
=============================================================================
