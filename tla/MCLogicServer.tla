--------------------------- MODULE MCLogicServer ---------------------------
(* LogicServer for TLC, with the tree of its ticks: a behaviour either has  *)
(* many callbacks and no client, or clients and only the callback of the    *)
(* database, or the server does nothing and a tree grows and shrinks beyond *)
(* what those need.                                                         *)
EXTENDS LogicServer, SbTree

CONSTANT MaxKeys   \* bound: keys in the tree of the last load

VARIABLE tree      \* the tree of the last load

Shapes == INSTANCE TreeShapes

Busy    == [ticks |-> 5, seconds |-> 3, sockets |-> 1, inbox |-> 0, cfg |-> 1]
Clients == [ticks |-> 0, seconds |-> 0, sockets |-> 4, inbox |-> 1, cfg |-> 1]
Linux   == [ticks |-> 0, seconds |-> 2, sockets |-> 3, inbox |-> 2, cfg |-> 1]
Windows == [ticks |-> 0, seconds |-> 3, sockets |-> 3, inbox |-> 1, cfg |-> 0]
Trees   == [ticks |-> 0, seconds |-> 0, sockets |-> 1, inbox |-> 0, cfg |-> 0]
MCLoads == {Busy, Clients, Linux, Windows, Trees}

MCUnknown == {Linux}

MCInit == Init /\ Shapes!Init

MCSpec == /\ MCInit
          /\ [][\/ load # Trees /\ Next /\ UNCHANGED tree
                \/ load = Trees /\ Shapes!Next /\ UNCHANGED vars]_<<vars, tree>>

(* What the ticks rely on, for every tree that insertions and deletions     *)
(* (sbtree.c) can make with up to MaxKeys keys.                             *)
TreeSound == Shapes!TreeSound
=============================================================================
