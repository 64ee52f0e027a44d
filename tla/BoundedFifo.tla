---------------------------- MODULE BoundedFifo ----------------------------
(***************************************************************************)
(* What a message queue promises: messages leave in the order in which     *)
(* they were accepted, each exactly once, and never more than Capacity of  *)
(* them are waiting.  A reader takes any number of waiting messages.       *)
(***************************************************************************)
EXTENDS Integers, Sequences

CONSTANTS Readers, Msg, Capacity

VARIABLES
  waiting,    \* the accepted messages that were not taken yet
  taken       \* what the call of each reader in progress has taken

vars == <<waiting, taken>>

Init == waiting = <<>> /\ taken = [r \in Readers |-> <<>>]

Put(m) == /\ Len(waiting) < Capacity
          /\ waiting' = Append(waiting, m)
          /\ UNCHANGED taken

Take(r, k) == /\ taken[r] = <<>>
              /\ waiting' = SubSeq(waiting, k + 1, Len(waiting))
              /\ taken' = [taken EXCEPT ![r] = SubSeq(waiting, 1, k)]

Return(r) == /\ taken' = [taken EXCEPT ![r] = <<>>]
             /\ UNCHANGED waiting

Next == \/ \E m \in Msg : Put(m)
        \/ \E r \in Readers : Return(r) \/ \E k \in 0..Len(waiting) : Take(r, k)

Spec == Init /\ [][Next]_vars
=============================================================================
