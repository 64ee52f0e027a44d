--------------------------- MODULE MCTreeShapes ---------------------------
(* TreeShapes for TLC.  MCLogicServer explores the trees of a few keys in   *)
(* full; of larger ones there are too many, and PlanSpec follows one        *)
(* sequence of insertions and deletions, to 23 keys and back to 17.         *)
EXTENDS TreeShapes, Sequences

VARIABLE done   \* operations of Plan that were made

(* How many keys are below the one inserted, and below the one deleted.    *)
Plan == [i \in 1..20 |-> <<"insert", 0>>]
          \o <<<<"insert", 9>>, <<"insert", 16>>, <<"insert", 16>>>>
          \o <<<<"delete", 0>>, <<"delete", 0>>, <<"delete", 0>>>>
          \o <<<<"delete", 13>>, <<"delete", 16>>, <<"delete", 11>>>>

Follow == LET op == Plan[done + 1]
          IN  /\ done < Len(Plan)
              /\ done' = done + 1
              /\ \/ op[1] = "insert" /\ Insert(2 * op[2] + 1)
                 \/ op[1] = "delete" /\ Delete(2 * op[2] + 2)

PlanSpec == Init /\ done = 0 /\ [][Follow]_<<tree, done>>
=============================================================================
