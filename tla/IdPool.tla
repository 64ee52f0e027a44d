------------------------------- MODULE IdPool -------------------------------
(***************************************************************************)
(* What the id allocator of engine/tool/ffid.c promises its clients, with  *)
(* the representation left out: a first-in first-out queue of free         *)
(* tickets.  A ticket is a slot and a generation of it.  Taking an id      *)
(* hands out the ticket at the head; giving it back queues the next        *)
(* generation of the same slot behind all other free slots.  When the      *)
(* generations of a slot are used up the slot restarts at generation 0     *)
(* (a looping pool) or is never offered again.                             *)
(***************************************************************************)
EXTENDS Integers, Sequences

CONSTANTS
  MaxSize,    \* number of slots
  MaxLimit    \* ids handed out are numbered below this limit

VARIABLES
  isLoop,     \* TRUE when generations restart after the last one
  free,       \* sequence of free tickets, next one to hand out first
  held        \* set of tickets held by clients

vars == <<isLoop, free, held>>

(* A slot has generation g when its g-th id still lies below the limit. *)
HasGeneration(slot, g) == slot + g * MaxSize < MaxLimit

Init == /\ isLoop \in BOOLEAN
        /\ free = [k \in 1..MaxSize |-> <<k - 1, 0>>]
        /\ held = {}

Take == /\ free # <<>>
        /\ held' = held \cup {Head(free)}
        /\ free' = Tail(free)
        /\ isLoop' = isLoop

Give(t) == /\ t \in held
           /\ held' = held \ {t}
           /\ free' = IF HasGeneration(t[1], t[2] + 1)
                      THEN Append(free, <<t[1], t[2] + 1>>)
                      ELSE IF isLoop THEN Append(free, <<t[1], 0>>) ELSE free
           /\ isLoop' = isLoop

Next == Take \/ \E t \in held : Give(t)

Spec == Init /\ [][Next]_vars
=============================================================================
