---------------------------- MODULE EpollSession ----------------------------
(***************************************************************************)
(* One socket of the network service on Linux: struct net_session, what    *)
(* engine/net/epoll_service.c does to it while it holds the lock of the    *)
(* session's slot, and the kernel's side of the descriptor.  Everything    *)
(* here is an operator on a session record; NetService.tla holds the state *)
(* and says who calls what and when.                                       *)
(*                                                                         *)
(* A record has the fields of the code                                     *)
(*   stage    which sub-sessions exist and connect_flag:                   *)
(*            "new" (not published yet), "listen" (lsession), "connect"    *)
(*            (connect_flag), "plain" (none of them), "ready" (rsession    *)
(*            and wsession exist), "closing" (in close_root), "none"       *)
(*   rop,wop  op of the read and write sub-session is not OP_NET_NONE      *)
(*   retry    etflag of the read sub-session: the last read stopped        *)
(*            because the receive buffer was full                          *)
(*   unsent   messages in the send buffer, rbuf in the receive buffer      *)
(*   events, inQueue, inDelay   what is to be reported, and the flags      *)
(*            in_queue and in_delay_queue                                  *)
(* of the kernel (external)                                                *)
(*   link     state of the connection                                      *)
(*   inbox    messages, or connections to accept, that have arrived        *)
(*   room     free space for output, nospace: a send found none            *)
(*   reg      interest set registered with epoll, {} when not registered   *)
(*   pend     an edge waits for epoll_wait                                 *)
(* and two auxiliary ones                                                  *)
(*   owed     the application was told to read and has not yet read until  *)
(*            nothing was left                                             *)
(*   told     the application was told of an error                         *)
(*                                                                         *)
(* Data is counted in messages.  All sockets are non-blocking, all         *)
(* registrations edge triggered.                                           *)
(***************************************************************************)
EXTENDS Integers, FiniteSets

CONSTANTS
  MaxUnsent,  \* messages a send buffer holds
  RecvCap,    \* messages a receive buffer holds
  SockRoom    \* messages the kernel's output buffer holds

ASSUME EpollSessionAssumption ==
  MaxUnsent \in Nat /\ RecvCap \in Nat \ {0} /\ SockRoom \in Nat \ {0}

Blank == [stage |-> "none", rop |-> FALSE, wop |-> FALSE, retry |-> FALSE,
          unsent |-> 0, rbuf |-> 0, events |-> {}, inQueue |-> FALSE,
          inDelay |-> FALSE, link |-> "none", inbox |-> 0, room |-> 0,
          nospace |-> FALSE, reg |-> {}, pend |-> FALSE, owed |-> FALSE,
          told |-> FALSE]

Lesser(a, b) == IF a < b THEN a ELSE b

-----------------------------------------------------------------------------
(* The kernel. *)

(* What a socket is ready for. *)
ReadyFor(s) ==
  CASE s.link = "broken" -> {"in", "out", "err"}
    [] s.link \in {"up", "fin"} ->
         {e \in {"in", "out"} : \/ e = "in" /\ (s.inbox > 0 \/ s.link = "fin")
                                \/ e = "out" /\ s.room > 0}
    [] s.link = "listening" -> IF s.inbox > 0 THEN {"in"} ELSE {}
    [] OTHER -> {}

(* Errors are always delivered. *)
Deliverable(s) == IF s.reg = {} THEN {} ELSE ReadyFor(s) \cap (s.reg \cup {"err"})

(* epoll_ctl ADD or MOD: the new interest set is checked at once, and a    *)
(* check that finds no room asks to be told when there is some.            *)
Registered(s, interest) ==
  LET n == [s EXCEPT !.reg = interest]
  IN  [n EXCEPT !.pend = Deliverable(n) # {}, !.nospace = @ \/ n.room = 0]

(* Something happened to a socket: it becomes pending when the interest    *)
(* set contains it.                                                        *)
Notified(s, event) ==
  [s EXCEPT !.pend = @ \/ (s.reg # {} /\ event \in s.reg \cup {"err"})]

-----------------------------------------------------------------------------
(* Bookkeeping. *)

\* forgets to reset the flags
Clean_slip(s) == [s EXCEPT !.reg = {}, !.pend = FALSE]

(* clean_epoll_op *)
Clean(s) == [s EXCEPT !.reg = {}, !.pend = FALSE, !.rop = FALSE, !.wop = FALSE]

\* queues the id only for the first kind of event
Push_slip(s, events) ==
  [s EXCEPT !.events = @ \cup events,
            !.inQueue = @ \/ s.events = {},
            !.stage = IF @ = "connect" THEN "plain" ELSE @]

(* push_queue.  The id goes to the event queue when in_queue was not set   *)
(* (NetService does that); connect_flag is cleared then.                   *)
Push(s, events) ==
  [s EXCEPT !.events = @ \cup events,
            !.inQueue = TRUE,
            !.stage = IF @ = "connect" /\ ~s.inQueue THEN "plain" ELSE @]

(* What epoll_ctl_op believes to be registered, and whether the call it    *)
(* chooses from that, ADD or MOD, can succeed.                             *)
Believed(s) == {e \in {"in", "out"} : \/ e = "in" /\ s.rop
                                      \/ e = "out" /\ s.wop}
CtlPossible(s) == (Believed(s) = {}) = (s.reg = {})

\* registers the new event alone
CtlOp_slip(s, op) == Registered(s, {op})

(* epoll_ctl_op when it succeeds. *)
CtlOp(s, op) == Registered(s, Believed(s) \cup {op})

-----------------------------------------------------------------------------
(* Output. *)

(* post_rest_write: send until the buffer is empty or the kernel refuses.  *)
(* Its value is negative on an error, positive when the kernel refused.    *)
Sent(s) == Lesser(s.unsent, s.room)
RestWrittenValue(s) ==
  CASE s.stage \notin {"ready", "closing"} -> -1
    [] s.stage \in {"ready", "closing"} /\ s.unsent > 0 /\ s.link = "broken" -> -1
    [] s.stage \in {"ready", "closing"} /\ s.unsent > s.room /\ s.link # "broken" -> 1
    [] OTHER -> 0
RestWritten(s) ==
  IF RestWrittenValue(s) = -1 THEN s
  ELSE [s EXCEPT !.unsent = @ - Sent(s), !.room = @ - Sent(s),
                 !.nospace = @ \/ s.unsent > s.room]

\* an open registration is taken to mean that the edge will come
PostWrite_slip(s, ok) ==
  CASE s.wop -> s
    [] ~s.wop /\ s.unsent = 0 -> s
    [] ~s.wop /\ s.unsent > 0 /\ (~ok \/ ~CtlPossible(s)) ->
         Clean(Push(s, {"Error"}))
    [] OTHER -> [CtlOp(s, "out") EXCEPT !.wop = TRUE]

(* post_write for a session that has a write sub-session. *)
PostWrite(s, ok) ==
  CASE s.wop -> RestWritten(s)
    [] ~s.wop /\ s.unsent = 0 -> s
    [] ~s.wop /\ s.unsent > 0 /\ (~ok \/ ~CtlPossible(s)) ->
         Clean(Push(s, {"Error"}))
    [] OTHER -> [CtlOp(s, "out") EXCEPT !.wop = TRUE]

-----------------------------------------------------------------------------
(* Input. *)

Received(s) == Lesser(s.inbox, RecvCap - s.rbuf)

\* a full buffer is not remembered
RestRead_slip(s) ==
  LET r == [s EXCEPT !.rbuf = @ + Received(s), !.inbox = @ - Received(s),
                     !.retry = FALSE]
      p == IF Received(s) > 0 THEN Push(r, {"Read"}) ELSE r
  IN  IF r.rbuf < RecvCap /\ s.link \in {"fin", "broken"}
      THEN Push(Clean(p), {"Error"}) ELSE p

(* post_rest_read: receive until the receive buffer is full, which sets    *)
(* etflag, or the kernel has no more; the end of the stream and an error   *)
(* are reported and the registration is dropped.                           *)
RestRead(s) ==
  LET r == [s EXCEPT !.rbuf = @ + Received(s), !.inbox = @ - Received(s),
                     !.retry = s.rbuf + Received(s) = RecvCap]
      p == IF Received(s) > 0 THEN Push(r, {"Read"}) ELSE r
  IN  IF r.rbuf < RecvCap /\ s.link \in {"fin", "broken"}
      THEN Push(Clean(p), {"Error"}) ELSE p

(* post_read for a session that has a read sub-session. *)
PostRead(s, ok) ==
  CASE s.rop /\ s.retry -> RestRead(s)
    [] s.rop /\ ~s.retry -> s
    [] ~s.rop /\ (~ok \/ ~CtlPossible(s)) -> Clean(Push(s, {"Read", "Error"}))
    [] OTHER -> [CtlOp(s, "in") EXCEPT !.rop = TRUE]

-----------------------------------------------------------------------------
(* handle_session: the events delivered for a session in the table. *)

(* the last part, for a session that neither listens nor connects *)
Written(s, ev) ==
  CASE "out" \notin ev -> s
    [] "out" \in ev /\ RestWrittenValue(s) < 0 -> Push(Clean(s), {"Error"})
    [] OTHER -> RestWritten(s)
Transferred(s, ev) ==
  LET w == Written(s, ev)
  IN  IF "in" \in ev /\ w.stage = "ready" THEN RestRead(w) ELSE w

ConnectFlag(s) == IF s.stage = "connect" THEN {"Connect"} ELSE {}

\* leaves the connection registered
HandleSession_slip(s, ev) ==
  CASE s.stage = "listen" -> Push(s, {"Accept"})
    [] s.stage # "listen" /\ "err" \in ev ->
         Push(Clean(s), ConnectFlag(s) \cup {"Error"})
    [] s.stage = "connect" /\ "err" \notin ev ->
         IF "out" \notin ev THEN s
         ELSE Push(s, {"Connect"} \cup IF s.link = "broken" THEN {"Error"} ELSE {})
    [] OTHER -> Transferred(s, ev)

HandleSession(s, ev) ==
  CASE s.stage = "listen" -> Push(s, {"Accept"})
    [] s.stage # "listen" /\ "err" \in ev ->
         Push(Clean(s), ConnectFlag(s) \cup {"Error"})
    [] s.stage = "connect" /\ "err" \notin ev ->
         IF "out" \notin ev THEN s
         ELSE Push(Clean(s), {"Connect"} \cup IF s.link = "broken" THEN {"Error"} ELSE {})
    [] OTHER -> Transferred(s, ev)

(* handle_rest releases a closing session unless output is left that the   *)
(* kernel refuses for now.  (send_rest is set in every closing session.)   *)
MayRelease(s, ev) ==
  \/ "err" \in ev
  \/ "out" \in ev /\ RestWrittenValue(s) <= 0
  \/ ev \cap {"in", "out"} = {}
RestHandled(s, ev) == IF "out" \in ev THEN RestWritten(s) ELSE s
=============================================================================
