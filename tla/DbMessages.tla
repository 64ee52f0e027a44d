----------------------------- MODULE DbMessages -----------------------------
(***************************************************************************)
(* The messages of a database server as serialize.c packs them: DbServer   *)
(* with Pack for Packed and Unpack for Unpacked.                           *)
(***************************************************************************)
EXTENDS DbServer, Serialize

(* What lua_service_pop_msg unpacks.                                       *)
Args(node) == Unpack(node.data, -1)

(* A service gets the values that were sent, whatever they are: numbers at *)
(* the edge of a width, and tables that share tables or contain            *)
(* themselves, through packing, the socket put in front and unpacking; the *)
(* parameters of a service include another service.                        *)
ArrivesIntact ==
  /\ \A i \in DOMAIN executed :
       LET sent == received[executed[i].number]
       IN  Intact(sent.body.heap, <<Fd>> \o Values(sent.dbid, sent.body), Args(executed[i]))
  /\ \A s \in Threads :
       hand[s] # <<>> =>
         /\ Args(hand[s][1]).tables = IF s \in ToSet(Zones) THEN <<ToSet(ParamHeap[1])>> ELSE <<>>
         /\ Args(hand[s][1]).values = ParamValues(s)
=============================================================================
