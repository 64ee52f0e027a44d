----------------------------- MODULE LuaService -----------------------------
(***************************************************************************)
(* Lua services (engine/lualib/lua_server.c): a Lua state, a list of       *)
(* messages and a flag that says it runs, with a thread of its own or      *)
(* without one.  A script holds pointers to services and calls them from   *)
(* its own thread; what happens between net_lock and net_unlock is a step. *)
(* The list is kept the way the code keeps it, with a tail pointer of its  *)
(* own; a message stands for its node.                                     *)
(***************************************************************************)
EXTENDS Integers, Sequences

CONSTANTS
  Services,    \* the services a program ever creates
  NULL

VARIABLE services  \* NULL before it is created, and the fields used below

Blank == [state |-> TRUE, list |-> <<>>, tail |-> NULL, thread |-> "none", freed |-> FALSE]

Service(Message) == [state : BOOLEAN, list : Seq(Message), tail : Message \cup {NULL},
                     thread : {"none", "running", "ended"}, freed : BOOLEAN]

Becomes(s, fields) == services' = [services EXCEPT ![s] = fields]

(* lua_service_create                                                      *)
Create(s) == Becomes(s, Blank)

(* create_and_push_msg_node: behind the tail, whatever the head is.        *)
Linked(f, msg) ==
  [f EXCEPT !.list = IF f.tail = NULL THEN <<msg>>
                     ELSE IF f.list # <<>> /\ f.list[Len(f.list)] = f.tail THEN Append(@, msg)
                     ELSE @,
            !.tail = msg]

(* lua_service_run: the parameters are the first message; the thread runs  *)
(* as soon as it is created, and the flag is set after that.               *)
RunParams(s, params) == Becomes(s, Linked(services[s], params))
RunThread(s) == Becomes(s, [services[s] EXCEPT !.thread = "running"])
RunFlag(s) == Becomes(s, [services[s] EXCEPT !.state = TRUE])

(* lua_service_push_data: a service that does not run takes no message.    *)
PushData(s, msg) ==
  Becomes(s, IF services[s].state THEN Linked(services[s], msg) ELSE services[s])

(* lua_service_pop_msg: nothing when the service was stopped, even if      *)
(* messages are left.                                                      *)
CanPop(s) == services[s].state /\ services[s].list # <<>>

Unlinked_slip(f) == [f EXCEPT !.list = Tail(@)]

Unlinked(f) == [f EXCEPT !.list = Tail(@), !.tail = IF @ = Head(f.list) THEN NULL ELSE @]

PopMsg(s) == CanPop(s) /\ Becomes(s, Unlinked(services[s]))

PopNothing(s) == ~CanPop(s) /\ UNCHANGED services

(* lua_service_stop and lua_service_is_run                                 *)
Stop(s) == Becomes(s, [services[s] EXCEPT !.state = FALSE])
IsRun(s) == services[s].state

(* thread_run returns.                                                     *)
ThreadEnd(s) == Becomes(s, [services[s] EXCEPT !.thread = "ended"])

(* lua_service_join waits for the thread, if there is one, drops the       *)
(* messages that are left and frees the service.                           *)
Join(s) == /\ services[s].thread # "running"
           /\ Becomes(s, [services[s] EXCEPT !.list = <<>>, !.tail = NULL, !.freed = TRUE])
=============================================================================
