-------------------------------- MODULE Agenda --------------------------------
(***************************************************************************)
(* What common/sec_tick.lua promises whoever registers a callback, with    *)
(* the tree and the table of callbacks left out: a callback runs in no     *)
(* second before its own, callbacks run in the order of their seconds and, *)
(* within a second, in the order in which they were registered, and a      *)
(* round runs exactly the callbacks that were due when it began.           *)
(***************************************************************************)
EXTENDS Integers, FiniteSets

CONSTANT Span     \* ids per second: the id of a callback tells its second

VARIABLES
  pending,    \* ids of the callbacks that wait
  seconds,    \* the current second
  left        \* callbacks the current round still has to run

vars == <<pending, seconds, left>>

Second(id) == id \div Span

Due == {id \in pending : Second(id) <= seconds}

First(id) == \A other \in pending : id <= other

(* A new id comes behind all those of its second.                          *)
Added(id, ids) == /\ Second(id) >= seconds
                  /\ \A other \in ids : Second(other) = Second(id) => other < id

Init == seconds = 0 /\ left = 0 /\ \A id \in pending : Second(id) >= 0

Register(id) == /\ Added(id, pending)
                /\ pending' = pending \cup {id}
                /\ UNCHANGED <<seconds, left>>

Cancel(id) == /\ left = 0
              /\ pending' = pending \ {id}
              /\ UNCHANGED <<seconds, left>>

Begin == /\ left = 0
         /\ seconds' > seconds
         /\ pending' = pending
         /\ left' = Cardinality(Due')

(* The callback that runs may register one other.                          *)
Run(id) == /\ left > 0
           /\ id \in Due /\ First(id)
           /\ left' = left - 1
           /\ seconds' = seconds
           /\ \/ pending' = pending \ {id}
              \/ \E new \in pending' : /\ Added(new, pending \ {id})
                                       /\ pending' = (pending \ {id}) \cup {new}

Next == \/ Begin
        \/ \E id \in pending : Run(id) \/ Cancel(id)
        \/ \E id \in pending' : Register(id)

Spec == Init /\ [][Next]_vars
===============================================================================
