------------------------------ MODULE DbServer ------------------------------
(***************************************************************************)
(* A database server: the script db/db_server.lua starts a service for     *)
(* each zone and each log, db/db_session.lua hands the statements it       *)
(* receives to the zones, the services work them off                       *)
(* (db/zone/zone_service.lua, db/log/log_service.lua), and in the end the  *)
(* script stops all of them and joins them.  A service without a thread,   *)
(* main_zone_service, is shared by the zones.  Every thread takes a step   *)
(* per call of the service library.                                        *)
(***************************************************************************)
EXTENDS LuaService, LuaValue, FiniteSets, SequencesExt

CONSTANTS
  Shared,       \* main_zone_service
  Loads         \* bounds of a behaviour: a sequence of [zones |-> and
                \*  logs |-> the services in zone_services and log_services,
                \*  max |-> bound of statements received, dbids |-> their
                \*  database ids, bodies |-> what they contain: [heap, values]]

(* The packing of values into messages; serialize.c is in Serialize.tla.   *)
CONSTANTS
  Packed(_, _, _),  \* of values that live in a heap, with objects or without
  Unpacked(_, _)    \* the first so many values of a message

VARIABLES
  load,      \* the one of Loads that holds
  main,      \* where the script is: a place and an index of it
  received,  \* [dbid, body, zone, data] of each statement received: what was
             \*  sent, and the zone and the message made of it; its number is
             \*  its name
  pc,        \* where the thread of a service is
  hand,      \* the message with the parameters that a thread was given
  executed   \* the messages executed, in order

vars == <<load, services, main, received, pc, hand, executed>>

Zones == Loads[load].zones
Logs  == Loads[load].logs

Threads == ToSet(Zones) \cup ToSet(Logs)

At(place, i) == main = <<place, i>>
Goto(place, i) == main' = <<place, i>>

(* The messages of a list are known by the number of the statement, the    *)
(* parameters by 0.                                                        *)
Node(n, data) == [number |-> n, data |-> data]
Message == [number : Nat, data : Seq(Int)]
Integer(v) == Value("int", v)

(* The parameters of run; a service is packed as an object.                *)
ZoneParams == <<Value("userdata", 1), Value("table", 1), Integer(1)>>
LogParams == <<Integer(1)>>
ParamValues(s) == IF s \in ToSet(Zones) THEN ZoneParams ELSE LogParams
ParamHeap == <<<<<<Value("string", 1), Value("string", 1)>>>>>>
Params(s) == Node(0, Packed(ParamHeap, TRUE, ParamValues(s)))

(* What the logic server sends: a type, the dbid and the rest.             *)
Values(dbid, body) == <<Integer(1), Integer(dbid)>> \o body.values

Sent(dbid, body) == Packed(body.heap, FALSE, Values(dbid, body))

Fd == Integer(2)

(* There is a zone, every service is created once, and a database id       *)
(* arrives as it was sent.                                                 *)
ASSUME DbServerAssumption ==
  /\ Shared \in Services
  /\ NULL \notin Message /\ NULL \notin Service(Message)
  /\ \A l \in DOMAIN Loads :
       LET zones == Loads[l].zones
           logs == Loads[l].logs
       IN  /\ zones \in Seq(Services \ {Shared}) /\ zones # <<>>
           /\ logs \in Seq(Services \ {Shared})
           /\ \A i, j \in DOMAIN (zones \o logs) :
                (zones \o logs)[i] = (zones \o logs)[j] => i = j
           /\ \A dbid \in Loads[l].dbids, body \in Loads[l].bodies :
                /\ dbid \in Int
                /\ Sent(dbid, body) \in Seq(Int)
                /\ Unpacked(Sent(dbid, body), 2).values[2].v = dbid
  /\ Packed(<<>>, FALSE, <<Fd>>) \in Seq(Int)
  /\ \A values \in {ZoneParams, LogParams} : Packed(ParamHeap, TRUE, values) \in Seq(Int)

(***************************************************************************)
(* The script.                                                             *)
(***************************************************************************)
Starts == Zones \o Logs

StartCreate(i) == /\ At("start", i) /\ i <= Len(Starts)
                  /\ Create(Starts[i])
                  /\ Goto("params", i)
                  /\ UNCHANGED <<load, received, pc, hand, executed>>

StartParams(i) == /\ At("params", i)
                  /\ RunParams(Starts[i], Params(Starts[i]))
                  /\ Goto("thread", i)
                  /\ UNCHANGED <<load, received, pc, hand, executed>>

StartThread(i) == /\ At("thread", i)
                  /\ RunThread(Starts[i])
                  /\ pc' = [pc EXCEPT ![Starts[i]] = "boot"]
                  /\ Goto("flag", i)
                  /\ UNCHANGED <<load, received, hand, executed>>

StartFlag(i) == /\ At("flag", i)
                /\ RunFlag(Starts[i])
                /\ IF i < Len(Starts) THEN Goto("start", i + 1) ELSE Goto("loop", 0)
                /\ UNCHANGED <<load, received, pc, hand, executed>>

Zone_slip(n, data) == (n % Len(Zones)) + 1

(* handle_msg: the zone is chosen by the dbid, the second value of the     *)
(* message; pushed is the socket it came from and behind it, unchanged,    *)
(* what came.                                                              *)
Zone(n, data) == (Unpacked(data, 2).values[2].v % Len(Zones)) + 1

Receive ==
  LET n == Len(received) + 1
  IN  /\ At("loop", 0) /\ n <= Loads[load].max
      /\ \E dbid \in Loads[load].dbids, body \in Loads[load].bodies :
           LET data == Sent(dbid, body)
           IN  received' = Append(received, [dbid |-> dbid, body |-> body, zone |-> Zone(n, data),
                                             data |-> Packed(<<>>, FALSE, <<Fd>>) \o data])
      /\ Goto("push", n)
      /\ UNCHANGED <<load, services, pc, hand, executed>>

Push == /\ main[1] = "push"
        /\ LET msg == received[main[2]]
           IN  PushData(Zones[msg.zone], Node(main[2], msg.data))
        /\ Goto("loop", 0)
        /\ UNCHANGED <<load, received, pc, hand, executed>>

(* Somebody stops the server: service:is_run() is false.                   *)
LoopEnds == /\ At("loop", 0)
            /\ Goto("stop", 1)
            /\ UNCHANGED <<load, services, received, pc, hand, executed>>

StopOrder_slip == Zones \o <<Shared>>

StopOrder == Zones \o Logs \o <<Shared>>

StopNext(i) == /\ At("stop", i)
               /\ IF i <= Len(StopOrder)
                  THEN Stop(StopOrder[i]) /\ Goto("stop", i + 1)
                  ELSE Goto("join", 1) /\ UNCHANGED services
               /\ UNCHANGED <<load, received, pc, hand, executed>>

JoinOrder_slip == <<Shared>> \o Zones \o Logs

JoinOrder == Zones \o Logs \o <<Shared>>

JoinNext(i) == /\ At("join", i)
               /\ Join(JoinOrder[i])
               /\ IF i < Len(JoinOrder) THEN Goto("join", i + 1) ELSE Goto("done", 0)
               /\ UNCHANGED <<load, received, pc, hand, executed>>

Script == \/ \E i \in 1..Len(Starts) :
               StartCreate(i) \/ StartParams(i) \/ StartThread(i) \/ StartFlag(i)
          \/ Push
          \/ \E i \in 1..Len(StopOrder) + 1 : StopNext(i)
          \/ \E i \in 1..Len(JoinOrder) : JoinNext(i)

(***************************************************************************)
(* The thread of a service.                                                *)
(***************************************************************************)
Step(s, from, to) == pc[s] = from /\ pc' = [pc EXCEPT ![s] = to]

(* The parameters; a service that was stopped meanwhile gets none and,     *)
(* for a zone, does not know the shared service.                           *)
Boot(s) == /\ Step(s, "boot", "check")
           /\ \/ PopMsg(s) /\ hand' = [hand EXCEPT ![s] = <<Head(services[s].list)>>]
              \/ PopNothing(s) /\ hand' = hand
           /\ UNCHANGED <<load, main, received, executed>>

Check(s) == /\ \/ Step(s, "check", "own") /\ IsRun(s) /\ UNCHANGED services
               \/ Step(s, "check", "ended") /\ ~IsRun(s) /\ ThreadEnd(s)
            /\ UNCHANGED <<load, main, received, hand, executed>>

KnowsShared(s) == s \in ToSet(Zones) /\ hand[s] # <<>>

(* service:pop_msg() in the loop over the own messages.  What the message  *)
(* is unpacked to is Args.                                                 *)
Own(s) ==
  /\ \/ /\ Step(s, "own", "work")
        /\ PopMsg(s)
        /\ executed' = Append(executed, Head(services[s].list))
     \/ /\ Step(s, "own", IF KnowsShared(s) THEN "shared" ELSE "check")
        /\ PopNothing(s)
        /\ UNCHANGED executed
  /\ UNCHANGED <<load, main, received, hand>>

(* A statement that fails, or that nobody handles, ends the loop.          *)
Worked(s) == /\ Step(s, "work", "own") \/ Step(s, "work", IF KnowsShared(s) THEN "shared" ELSE "check")
             /\ UNCHANGED <<load, services, main, received, hand, executed>>

(* main_service:pop_msg(): no script pushes to that service, so that its   *)
(* list is always empty.                                                   *)
PopShared(s) == /\ Step(s, "shared", "check")
                /\ PopNothing(Shared)
                /\ UNCHANGED <<load, main, received, hand, executed>>

Thread(s) == Boot(s) \/ Check(s) \/ Own(s) \/ Worked(s) \/ PopShared(s)

Init == /\ load \in DOMAIN Loads
        /\ services = [s \in Services |-> IF s = Shared THEN Blank ELSE NULL]
        /\ main = <<"start", 1>>
        /\ received = <<>>
        /\ pc = [s \in Services |-> "none"]
        /\ hand = [s \in Services |-> <<>>]
        /\ executed = <<>>

Next == Script \/ Receive \/ LoopEnds \/ \E s \in Threads : Thread(s)

Spec == Init /\ [][Next]_vars

(* The script and the threads are scheduled; that statements arrive or     *)
(* that somebody stops the server is not assumed.                          *)
FairSpec == /\ Spec
            /\ WF_vars(Script)
            /\ \A s \in Services : WF_vars(Thread(s))

-----------------------------------------------------------------------------
(* Statements of one database id are executed in the order in which they   *)
(* were received, although the threads of the zones run independently.     *)
ExecutedInOrder ==
  \A i, j \in DOMAIN executed :
    LET n == executed[i].number
        k == executed[j].number
    IN  i < j /\ received[n].dbid = received[k].dbid => n < k

Waiting == UNION {ToSet(services[s].list) : s \in {t \in Threads : services[t] # NULL}}
Numbers(nodes) == {node.number : node \in nodes} \ {0}

(* Until the server stops, every statement handed to a service waits in    *)
(* its list or was executed, once, whoever drained the list in between.    *)
NothingLost ==
  main[1] \in {"start", "params", "thread", "flag", "loop", "push"} =>
    /\ Numbers(Waiting) \cup Numbers(ToSet(executed)) = {n \in DOMAIN received : main # <<"push", n>>}
    /\ Numbers(Waiting) \cap Numbers(ToSet(executed)) = {}
    /\ Cardinality(Numbers(ToSet(executed))) = Len(executed)

Uses(s) == IF pc[s] = "shared" THEN {s, Shared}
           ELSE IF pc[s] \in {"boot", "check", "own"} THEN {s} ELSE {}

(* A service that was joined, and freed, is used by no thread any more.    *)
NoUseAfterFree == \A s \in Threads : \A t \in Uses(s) : ~services[t].freed

(* A server that begins to stop gets to its end: no thread waits in a      *)
(* service that is not stopped, and lua_service_join returns.              *)
ShutdownEnds == main[1] = "stop" ~> main[1] = "done"
=============================================================================
