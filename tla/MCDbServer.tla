----------------------------- MODULE MCDbServer -----------------------------
(* DbServer for TLC: a behaviour has two zones, a log and several           *)
(* statements of one kind, or one zone and one statement of any kind.       *)
EXTENDS DbMessages
CONSTANTS z1, z2, l1

MCServices == {z1, z2, l1, Shared}

Body(heap, values) == [heap |-> heap, values |-> values]
Ref(t) == Value("table", t)

(* Integers on both sides of every width, strings of every size, and      *)
(* values of every other type.                                             *)
Plain == {Body(<<>>, [i \in 1..2 * B32 + 3 |-> Integer(i - B32 - 2)]),
          Body(<<>>, [i \in 1..S16 |-> Value("string", i - 1)]),
          Body(<<>>, <<Nil, Value("boolean", 0), Value("boolean", 1), Value("double", 1),
                       Value("userdata", 1), Value("lightuserdata", 1), Value("function", 1)>>)}

(* Two tables with two entries each, of themselves, each other and values. *)
Entry == {Ref(1), Ref(2), Value("function", 1)}
Fields == {<<>>} \cup {<<<<Integer(1), v>>, <<Value("string", 1), w>>>> : v, w \in Entry}
Graphs == {Body(<<f, g>>, <<Ref(1), Ref(1), Ref(2)>>) : f, g \in Fields}

(* A table as the key of an entry.                                         *)
Keyed == {Body(<<<<<<Ref(2), Ref(1)>>>>, <<>>>>, <<Ref(2), Ref(1)>>)}

Several == [zones |-> <<z1, z2>>, logs |-> <<l1>>, max |-> 3, dbids |-> {1, 2},
            bodies |-> {Body(<<>>, <<>>)}]
Single  == [zones |-> <<z1>>, logs |-> <<>>, max |-> 1, dbids |-> {1},
            bodies |-> Plain \cup Graphs \cup Keyed]
MCLoads == <<Several, Single>>
=============================================================================
