----------------------------- MODULE NetService -----------------------------
(***************************************************************************)
(* The network service: engine/net/net_service.c with its Linux backend    *)
(* epoll_service.c.  I/O threads (net_wait), delay threads (net_delay) and *)
(* application threads (everything else) share a table of sessions.        *)
(*                                                                         *)
(* A slot of the table has a spin lock; what a call does between taking    *)
(* and leaving it is one step here, and calls that are a single such       *)
(* section are single actions.  Steps in between are visible to the other  *)
(* threads: an id leaves the allocator before its session is published and *)
(* returns after it was removed; ids and events wait in queues and in the  *)
(* hands of threads, so that whoever comes to a slot must expect another   *)
(* session there, or none.                                                 *)
(*                                                                         *)
(* Ids are the tickets <<slot, generation>> of IdPool, which Ffid          *)
(* implements; the generations are not reused here, their number is the    *)
(* bound that MaxLimit sets.  The queues are BoundedFifo's, which MsgBuff  *)
(* implements.  EpollSession describes one session.                        *)
(*                                                                         *)
(* Operators whose name ends in _slip are wrong variants of the definition *)
(* after them, used only to show that the checks would notice the slip.    *)
(***************************************************************************)
EXTENDS EpollSession, Sequences

CONSTANTS
  MaxSize,       \* size of the service: number of slots
  MaxLimit,      \* bound: ids are numbered below it
  IoThreads, AppThreads, DelayThreads,
  Kinds,         \* what the application opens: "listen", "connect"
  PeerEnds,      \* how connections end: "fin", "reset"
  MaxInbox,      \* bound: arrivals the kernel holds for a socket
  MaxEvents,     \* events one epoll_wait returns at most (32 in the code)
  MaxRead,       \* ids one call of net_queue takes at most
  CtlResults,    \* may epoll_ctl fail for want of memory?
  NULL, Freed    \* no id; the contents of freed memory

ASSUME NetServiceAssumption ==
  /\ MaxSize \in Nat \ {0} /\ MaxLimit \in Nat /\ MaxSize < MaxLimit
  /\ MaxInbox \in Nat /\ MaxEvents \in Nat \ {0} /\ MaxRead \in Nat \ {0}
  /\ TRUE \in CtlResults /\ CtlResults \subseteq BOOLEAN
  /\ Kinds \subseteq {"listen", "connect"} /\ PeerEnds \subseteq {"fin", "reset"}

VARIABLES
  free, held,  \* socket_ids: free tickets in order, and those in use
  table,       \* sessions[]: the id of the session in each slot, or NULL
  sess,        \* the session that has each id, Blank when there is none
  closeRoot,   \* close_root: ids of closed sessions with output left
  queue,       \* the event queue
  delayQueue,  \* the delay queue
  app,         \* application threads: where they are in their call
  io,          \* I/O threads: events fetched and not yet handled
  delayer      \* delay threads: the id just taken from the queue

vars == <<free, held, table, sess, closeRoot, queue, delayQueue, app, io, delayer>>

Ids == INSTANCE IdPool WITH isLoop <- FALSE

Slot == 0..(MaxSize - 1)
Ticket == {t \in Slot \X (0..(MaxLimit \div MaxSize)) : Ids!HasGeneration(t[1], t[2])}
QueueCap == 4 * MaxSize       \* msg_buff_create(..., size, 4, ...)

AtRest == [at |-> "idle", id |-> NULL, kind |-> NULL, batch |-> <<>>]
Waiting == [todo |-> {}, current |-> NULL, node |-> NULL]

Init ==
  /\ Ids!Init
  /\ table = [i \in Slot |-> NULL]
  /\ sess = [t \in Ticket |-> Blank]
  /\ closeRoot = {}
  /\ queue = <<>> /\ delayQueue = <<>>
  /\ app = [a \in AppThreads |-> AtRest]
  /\ io = [t \in IoThreads |-> Waiting]
  /\ delayer = [d \in DelayThreads |-> NULL]

\* any session will do
Current_slip(id) == table[id[1]] # NULL

(* session && session->id == id *)
Current(id) == table[id[1]] = id

(* An I/O thread keeps a slot locked between finding a closed session and  *)
(* handling it; all other sections are single steps.                       *)
Unlocked(slot) == \A t \in IoThreads : io[t].current # NULL => io[t].current.id[1] # slot

(* The application does not know an id before the call that makes it       *)
(* returns.                                                                *)
Known(id) == \A a \in AppThreads :
               app[a].at \in {"publish", "register", "giveup"} => app[a].id # id

(* Queues an id for a session whose flag was just set.  The queue may be   *)
(* full; nobody looks at the result.                                       *)
Offered(q, id) == IF Len(q) < QueueCap THEN Append(q, id) ELSE q

(* A section that turns the session of an id into s. *)
QueuesFor(id, s) ==
  /\ queue' = IF s.inQueue /\ ~sess[id].inQueue THEN Offered(queue, id) ELSE queue
  /\ delayQueue' = IF s.inDelay /\ ~sess[id].inDelay THEN Offered(delayQueue, id)
                                                      ELSE delayQueue
Becomes(id, s) == sess' = [sess EXCEPT ![id] = s] /\ QueuesFor(id, s)

-----------------------------------------------------------------------------
(* Opening a socket: net_listen, net_connect, and net_accept below.        *)

(* add_net_session, under id_lock; the socket exists already. *)
TakeId(a, kind) ==
  /\ Ids!Take
  /\ app' = [app EXCEPT ![a] = [AtRest EXCEPT !.at = "publish", !.id = Head(free),
                                              !.kind = kind]]
  /\ sess' = [sess EXCEPT ![Head(free)] =
                [Blank EXCEPT !.stage = "new",
                   !.link = CASE kind = "listen" -> "listening"
                              [] kind = "connect" -> "unconnected"
                              [] OTHER -> "up",
                   !.room = SockRoom]]
  /\ UNCHANGED <<table, closeRoot, queue, delayQueue, io, delayer>>

Open(a, kind) == app[a].at = "idle" /\ TakeId(a, kind)

(* add_net_session, under the lock of the slot. *)
Publish(a) ==
  LET id == app[a].id
  IN  /\ app[a].at = "publish" /\ Unlocked(id[1])
      /\ table' = [table EXCEPT ![id[1]] = id]
      /\ sess' = [sess EXCEPT ![id].stage = app[a].kind]
      /\ app' = IF app[a].kind = "plain" THEN [app EXCEPT ![a] = AtRest]
                                         ELSE [app EXCEPT ![a].at = "register"]
      /\ UNCHANGED <<free, held, closeRoot, queue, delayQueue, io, delayer>>

(* The end of net_listen and net_connect: connect() starts, the socket is  *)
(* registered for everything.  The connection may be complete, or refused, *)
(* when it is registered.                                                  *)
Register(a) ==
  LET id == app[a].id
      links == IF app[a].kind = "connect" THEN {"connecting", "up", "broken"}
                                          ELSE {sess[id].link}
  IN  /\ app[a].at = "register"
      /\ \E link \in links :
           sess' = [sess EXCEPT ![id] = Registered([@ EXCEPT !.link = link], {"in", "out"})]
      /\ app' = [app EXCEPT ![a] = AtRest]
      /\ UNCHANGED <<free, held, table, closeRoot, queue, delayQueue, io, delayer>>

(* connect() or epoll_ctl fails: the call closes what it opened. *)
RegisterFails(a) ==
  /\ app[a].at = "register"
  /\ app[a].kind = "connect" \/ FALSE \in CtlResults
  /\ app' = [app EXCEPT ![a].at = "giveup"]
  /\ UNCHANGED <<free, held, table, sess, closeRoot, queue, delayQueue, io, delayer>>

(* net_accept, under the lock of the listening socket's slot. *)
Accept(a, l) ==
  /\ app[a].at = "idle" /\ Current(l) /\ Known(l) /\ Unlocked(l[1])
  /\ sess[l].stage = "listen" /\ sess[l].inbox > 0
  /\ sess' = [sess EXCEPT ![l].inbox = @ - 1]
  /\ app' = [app EXCEPT ![a] = [AtRest EXCEPT !.at = "accepted"]]
  /\ UNCHANGED <<free, held, table, closeRoot, queue, delayQueue, io, delayer>>

(* net_accept: after the unlock the connection gets its id ...             *)
Accepted(a) == app[a].at = "accepted" /\ TakeId(a, "plain")

(* ... or there is none left and it is closed. *)
NotAccepted(a) ==
  /\ app[a].at = "accepted" /\ free = <<>>
  /\ app' = [app EXCEPT ![a] = AtRest]
  /\ UNCHANGED <<free, held, table, sess, closeRoot, queue, delayQueue, io, delayer>>

-----------------------------------------------------------------------------
(* Calls that are one section under the lock of the slot.                  *)

Section(id) == /\ Current(id) /\ Known(id) /\ Unlocked(id[1])
               /\ UNCHANGED <<free, held, table, closeRoot, app, io, delayer>>

(* net_socket_cfg creates the buffers and starts to read.  It takes any    *)
(* session it finds in the slot of the id it is given, which may be stale. *)
Cfg(slot) ==
  LET id == table[slot]
  IN  /\ id # NULL /\ Section(id)
      /\ sess[id].stage = "plain"
      /\ \E ok \in CtlResults : Becomes(id, PostRead([sess[id] EXCEPT !.stage = "ready"], ok))

(* net_socket_read first receives what it can, then takes one message.     *)
Read(id) ==
  /\ Section(id) /\ sess[id].stage = "ready"
  /\ \E ok \in CtlResults :
       LET r == PostRead(sess[id], ok)
       IN  Becomes(id, [r EXCEPT !.rbuf = IF @ > 0 THEN @ - 1 ELSE 0,
                                 !.owed = @ /\ r.rbuf > 0])

\* counts a message that a full buffer refused
WriteNow_slip(id) ==
  /\ Section(id) /\ sess[id].stage = "ready"
  /\ \E ok \in CtlResults :
       Becomes(id, PostWrite([sess[id] EXCEPT !.unsent = @ + 1], ok))

(* net_socket_write at once: the buffer may be full, the send is tried     *)
(* anyway.                                                                 *)
WriteNow(id) ==
  /\ Section(id) /\ sess[id].stage = "ready"
  /\ \E ok \in CtlResults :
       Becomes(id, PostWrite([sess[id] EXCEPT !.unsent = Lesser(@ + 1, MaxUnsent)], ok))

(* net_socket_write with delay: push_delay_queue. *)
WriteLater(id) ==
  /\ Section(id) /\ sess[id].stage = "ready"
  /\ Becomes(id, [sess[id] EXCEPT !.unsent = Lesser(@ + 1, MaxUnsent), !.inDelay = TRUE])

-----------------------------------------------------------------------------
(* net_socket_close.  The session leaves the table; with output left that  *)
(* it is asked to send, and could register for, it goes to close_root,     *)
(* otherwise it is gone.                                                   *)

\* does not start to send what is left
Rest_slip(s, ok) == [s EXCEPT !.wop = s.unsent > 0]

Rest(s, ok) == IF s.stage = "ready" THEN PostWrite(s, ok) ELSE s

Closing(s) == [s EXCEPT !.stage = "closing", !.rbuf = 0, !.retry = FALSE,
                        !.events = {}, !.inQueue = FALSE, !.inDelay = FALSE,
                        !.inbox = 0, !.owed = FALSE, !.told = FALSE]

CloseBegin(a, id) ==
  /\ \/ app[a].at = "idle" /\ Known(id)
     \/ app[a].at = "giveup" /\ app[a].id = id
  /\ Current(id) /\ Unlocked(id[1])
  /\ \E ok \in CtlResults, sendRest \in BOOLEAN :
       LET c == Clean(sess[id])
           s == IF sendRest THEN Rest(c, ok) ELSE c
       IN  /\ app[a].at = "giveup" => ~sendRest
           /\ QueuesFor(id, s)
           /\ sess' = [sess EXCEPT ![id] = IF s.wop THEN Closing(s) ELSE Blank]
           /\ closeRoot' = IF s.wop THEN closeRoot \cup {id} ELSE closeRoot
  /\ table' = [table EXCEPT ![id[1]] = NULL]
  /\ app' = [app EXCEPT ![a] = [AtRest EXCEPT !.at = "release", !.id = id]]
  /\ UNCHANGED <<free, held, io, delayer>>

(* ffid_del_id, under id_lock: it does not look whether the id is in use. *)
CloseEnd(a) ==
  LET id == app[a].id
      next == <<id[1], id[2] + 1>>
  IN  /\ app[a].at = "release"
      /\ held' = held \ {id}
      /\ free' = IF Ids!HasGeneration(next[1], next[2]) THEN Append(free, next) ELSE free
      /\ app' = [app EXCEPT ![a] = AtRest]
      /\ UNCHANGED <<table, sess, closeRoot, queue, delayQueue, io, delayer>>

-----------------------------------------------------------------------------
(* net_queue: a batch of ids is taken from the event queue ... *)
QueueRead(a, n) ==
  /\ app[a].at = "idle" /\ queue # <<>>
  /\ LET k == Lesser(n, Len(queue))
     IN  /\ app' = [app EXCEPT ![a] = [AtRest EXCEPT !.at = "queue",
                                                     !.batch = SubSeq(queue, 1, k)]]
         /\ queue' = SubSeq(queue, k + 1, Len(queue))
  /\ UNCHANGED <<free, held, table, sess, closeRoot, delayQueue, io, delayer>>

\* leaves in_queue set
Reported_slip(s) == [s EXCEPT !.events = {},
                              !.owed = @ \/ "Read" \in s.events,
                              !.told = @ \/ "Error" \in s.events]

Reported(s) == [s EXCEPT !.events = {}, !.inQueue = FALSE,
                         !.owed = @ \/ "Read" \in s.events,
                         !.told = @ \/ "Error" \in s.events]

(* ... and each is looked up under the lock of its slot. *)
QueueItem(a) ==
  LET id == Head(app[a].batch)
      rest == Tail(app[a].batch)
  IN  /\ app[a].at = "queue" /\ Unlocked(id[1])
      /\ sess' = IF Current(id) THEN [sess EXCEPT ![id] = Reported(@)] ELSE sess
      /\ app' = [app EXCEPT ![a] = IF rest = <<>> THEN AtRest
                                   ELSE [@ EXCEPT !.batch = rest]]
      /\ UNCHANGED <<free, held, table, closeRoot, queue, delayQueue, io, delayer>>

-----------------------------------------------------------------------------
(* net_delay takes one id ... *)
DelayTake(d) ==
  /\ delayer[d] = NULL /\ delayQueue # <<>>
  /\ delayer' = [delayer EXCEPT ![d] = Head(delayQueue)]
  /\ delayQueue' = Tail(delayQueue)
  /\ UNCHANGED <<free, held, table, sess, closeRoot, queue, app, io>>

Undelayed(s) == [s EXCEPT !.inDelay = FALSE]

(* ... and sends under the lock of its slot. *)
DelayItem(d) ==
  LET id == delayer[d]
  IN  /\ id # NULL /\ Unlocked(id[1])
      /\ IF Current(id)
         THEN \E ok \in CtlResults : Becomes(id, PostWrite(Undelayed(sess[id]), ok))
         ELSE UNCHANGED <<sess, queue, delayQueue>>
      /\ delayer' = [delayer EXCEPT ![d] = NULL]
      /\ UNCHANGED <<free, held, table, closeRoot, app, io>>

-----------------------------------------------------------------------------
(* net_wait: events are fetched ... *)
Wait(t) ==
  /\ io[t] = Waiting
  /\ \E S \in SUBSET {id \in Ticket : sess[id].pend /\ Deliverable(sess[id]) # {}} :
       /\ S # {} /\ Cardinality(S) <= MaxEvents
       /\ sess' = [id \in Ticket |-> IF id \in S THEN [sess[id] EXCEPT !.pend = FALSE]
                                                  ELSE sess[id]]
       /\ io' = [io EXCEPT ![t].todo =
                   {[id |-> id, ev |-> Deliverable(sess[id])] : id \in S}]
  /\ UNCHANGED <<free, held, table, closeRoot, queue, delayQueue, app, delayer>>

(* ... and handled one by one, under the lock of the slot, if the session  *)
(* is still in the table ...                                               *)
Handle(t, e) ==
  /\ e \in io[t].todo /\ io[t].current = NULL /\ Unlocked(e.id[1])
  /\ Current(e.id)
  /\ Becomes(e.id, HandleSession(sess[e.id], e.ev))
  /\ io' = [io EXCEPT ![t].todo = @ \ {e}]
  /\ UNCHANGED <<free, held, table, closeRoot, app, delayer>>

(* ... or, when it is closing, its node is looked up in close_root ... *)
FindClosed(t, e) ==
  /\ e \in io[t].todo /\ io[t].current = NULL /\ Unlocked(e.id[1])
  /\ ~Current(e.id) /\ e.id \in closeRoot
  /\ io' = [io EXCEPT ![t] = [todo |-> @.todo \ {e}, current |-> e, node |-> e.id]]
  /\ UNCHANGED <<free, held, table, sess, closeRoot, queue, delayQueue, app, delayer>>

(* ... or nothing is left to do. *)
Ignore(t, e) ==
  /\ e \in io[t].todo /\ io[t].current = NULL /\ Unlocked(e.id[1])
  /\ ~Current(e.id) /\ e.id \notin closeRoot
  /\ io' = [io EXCEPT ![t].todo = @ \ {e}]
  /\ UNCHANGED <<free, held, table, sess, closeRoot, queue, delayQueue, app, delayer>>

(* handle_rest for the session the node found holds.  sb_tree_delete may   *)
(* move the contents of another node into the one it keeps and frees that  *)
(* other node: a thread that found it holds freed memory, in which the     *)
(* next insertion may have put any closing session.  (Which node moves     *)
(* depends on the shape of the tree and is left open.)                     *)
HandleRest(t) ==
  /\ io[t].current # NULL
  /\ \E id \in IF io[t].node = Freed THEN closeRoot ELSE {io[t].node},
        moved \in {{}} \cup {{u} : u \in {v \in IoThreads \ {t} : io[v].current # NULL}} :
       IF MayRelease(sess[id], io[t].current.ev)
       THEN /\ closeRoot' = closeRoot \ {id}
            /\ sess' = [sess EXCEPT ![id] = Blank]
            /\ io' = [u \in IoThreads |->
                        CASE u = t -> [io[t] EXCEPT !.current = NULL, !.node = NULL]
                          [] u \in moved -> [io[u] EXCEPT !.node = Freed]
                          [] OTHER -> io[u]]
       ELSE /\ moved = {}
            /\ sess' = [sess EXCEPT ![id] = RestHandled(@, io[t].current.ev)]
            /\ io' = [io EXCEPT ![t].current = NULL, ![t].node = NULL]
            /\ UNCHANGED closeRoot
  /\ UNCHANGED <<free, held, table, queue, delayQueue, app, delayer>>

-----------------------------------------------------------------------------
(* The kernel and the peers. *)

Happens(id, s) == /\ sess' = [sess EXCEPT ![id] = s]
                  /\ UNCHANGED <<free, held, table, closeRoot, queue, delayQueue, app,
                                 io, delayer>>

Connected(id) == /\ sess[id].link = "connecting"
                 /\ Happens(id, Notified([sess[id] EXCEPT !.link = "up"], "out"))

Arrives(id) ==
  /\ sess[id].link \in {"up", "listening"} /\ sess[id].stage # "closing"
  /\ sess[id].inbox < MaxInbox
  /\ Happens(id, Notified([sess[id] EXCEPT !.inbox = @ + 1], "in"))

(* the peer has sent its last message *)
Ends(id) == /\ "fin" \in PeerEnds
            /\ sess[id].link = "up" /\ sess[id].stage # "closing"
            /\ Happens(id, Notified([sess[id] EXCEPT !.link = "fin"], "in"))

(* a refused connect, a reset, a timeout *)
Breaks(id) ==
  /\ "reset" \in PeerEnds
  /\ sess[id].link \in {"connecting", "up", "fin"}
  /\ Happens(id, Notified([sess[id] EXCEPT !.link = "broken", !.inbox = 0], "err"))

(* the kernel gets output across; it tells so after a refused send *)
Drains(id) ==
  /\ sess[id].link \in {"up", "fin"} /\ sess[id].room < SockRoom
  /\ LET s == [sess[id] EXCEPT !.room = @ + 1, !.nospace = FALSE]
     IN  Happens(id, IF sess[id].nospace THEN Notified(s, "out") ELSE s)

-----------------------------------------------------------------------------
CallStep(a) == \/ Publish(a) \/ Register(a) \/ RegisterFails(a)
               \/ Accepted(a) \/ NotAccepted(a) \/ CloseEnd(a) \/ QueueItem(a)
               \/ \E id \in Ticket : app[a].at = "giveup" /\ CloseBegin(a, id)
App(a) == \/ \E kind \in Kinds : Open(a, kind)
          \/ \E id \in Ticket : Accept(a, id) \/ CloseBegin(a, id)
          \/ \E n \in 1..MaxRead : QueueRead(a, n)
          \/ CallStep(a)
Io(t) == \/ Wait(t) \/ HandleRest(t)
         \/ \E e \in io[t].todo : Handle(t, e) \/ FindClosed(t, e) \/ Ignore(t, e)
Delay(d) == DelayTake(d) \/ DelayItem(d)
Kernel(id) == Connected(id) \/ Arrives(id) \/ Ends(id) \/ Breaks(id) \/ Drains(id)

Next == \/ \E a \in AppThreads : App(a)
        \/ \E t \in IoThreads : Io(t)
        \/ \E d \in DelayThreads : Delay(d)
        \/ \E slot \in Slot : Cfg(slot)
        \/ \E id \in Ticket : Read(id) \/ WriteNow(id) \/ WriteLater(id)
        \/ \E id \in Ticket : Kernel(id)

Spec == Init /\ [][Next]_vars

(* Threads that have something to do keep doing it; the application keeps  *)
(* calling net_queue; epoll hands out ready sockets in the order in which  *)
(* they became ready, so none waits for ever; and the kernel gets output   *)
(* across in the end, or gives the connection up.                          *)
Fetches(t, id) == Wait(t) /\ sess[id].pend /\ ~sess'[id].pend

Fairness ==
  /\ \A t \in IoThreads : WF_vars(Io(t))
  /\ \A d \in DelayThreads : WF_vars(Delay(d))
  /\ \A a \in AppThreads : /\ WF_vars(CallStep(a))
                           /\ WF_vars(\E n \in 1..MaxRead : QueueRead(a, n))
  /\ \A id \in Ticket : /\ SF_vars(\E t \in IoThreads : Fetches(t, id))
                        /\ WF_vars(Drains(id) \/ Breaks(id))

FairSpec == Spec /\ Fairness

-----------------------------------------------------------------------------
InTable(id) == table[id[1]] = id

Session == [stage : {"none", "new", "listen", "connect", "plain", "ready", "closing"},
            rop : BOOLEAN, wop : BOOLEAN, retry : BOOLEAN,
            unsent : 0..MaxUnsent, rbuf : 0..RecvCap,
            events : SUBSET {"Accept", "Connect", "Read", "Error"},
            inQueue : BOOLEAN, inDelay : BOOLEAN,
            link : {"none", "listening", "unconnected", "connecting", "up", "fin", "broken"},
            inbox : 0..MaxInbox, room : 0..SockRoom, nospace : BOOLEAN,
            reg : SUBSET {"in", "out"}, pend : BOOLEAN,
            owed : BOOLEAN, told : BOOLEAN]
Event == [id : Ticket, ev : SUBSET {"in", "out", "err"}]

(* No id, and what freed memory contains, are not taken for ids.           *)
ASSUME NullAssumption ==
  NULL \notin Ticket /\ Freed \notin Ticket /\ NULL \notin Event /\ NULL # Freed

TypeOK ==
  /\ table \in [Slot -> Ticket \cup {NULL}]
  /\ \A id \in Ticket : sess[id] \in Session
  /\ closeRoot \subseteq Ticket
  /\ queue \in Seq(Ticket) /\ Len(queue) <= QueueCap
  /\ delayQueue \in Seq(Ticket) /\ Len(delayQueue) <= QueueCap
  /\ delayer \in [DelayThreads -> Ticket \cup {NULL}]
  /\ \A t \in IoThreads : io[t].todo \subseteq Event
  /\ \A a \in AppThreads : app[a].at \in {"idle", "publish", "register", "accepted",
                                          "giveup", "release", "queue"}

(* Every id returns to the allocator once, and only while it is in use:    *)
(* what ffid_del_id relies on and does not test.                           *)
OwnsIds == Ids!Spec

(* A session that exists is either the one in the table under its own id,  *)
(* which is then in use, or closing and in close_root, or not published.   *)
(* Nothing is both; nothing is in neither, where it would never be freed.  *)
OnePlace ==
  \A id \in Ticket :
    /\ InTable(id) <=> sess[id].stage \in {"listen", "connect", "plain", "ready"}
    /\ id \in closeRoot <=> sess[id].stage = "closing"
    /\ InTable(id) => id \in held

(* What epoll_ctl_op believes to be registered is what is registered, so   *)
(* that its choice of ADD or MOD is right: for every session that does not *)
(* listen or connect.                                                      *)
RegistrationExact ==
  \A id \in Ticket : sess[id].stage \in {"plain", "ready", "closing"} =>
                       sess[id].reg = Believed(sess[id])

(* An edge of one of these kinds is pending or in the hands of a thread.   *)
Coming(id, kinds) ==
  \/ sess[id].pend
  \/ \E t \in IoThreads : \E e \in io[t].todo \cup ({io[t].current} \ {NULL}) :
       e.id = id /\ e.ev \cap kinds # {}

(* The kernel will tell when there is room. *)
AwaitsRoom(s) == s.wop /\ s.unsent > 0 /\ s.room = 0 /\ s.nospace

Failed(s) == s.told \/ "Error" \in s.events

(* Output left in the send buffer of an open session will be sent by       *)
(* somebody: a delay thread, an I/O thread that has or gets the edge, or   *)
(* it waits for room; or else the application knows of an error.  No edge  *)
(* is lost between the threads that arm, consume and reset registrations.  *)
(* (That the delay thread gets the id once in_delay_queue is set depends   *)
(* on the room in the delay queue.)                                        *)
NoStuckOutput ==
  \A id \in Ticket :
    LET s == sess[id]
    IN  s.stage = "ready" /\ s.unsent > 0 =>
          Failed(s) \/ s.inDelay \/ AwaitsRoom(s) \/ (s.wop /\ Coming(id, {"out", "err"}))

(* Input that has arrived will be read: messages in the receive buffer     *)
(* were announced to the application, which reads until none is left; what *)
(* is still in the kernel has its edge, or waits until the application has *)
(* made room in the receive buffer.                                        *)
NoLostInput ==
  \A id \in Ticket :
    LET s == sess[id]
        announced == s.owed \/ "Read" \in s.events
    IN  s.stage = "ready" /\ ~Failed(s) =>
          /\ s.rbuf > 0 => announced
          /\ ReadyFor(s) \cap {"in", "err"} # {} =>
               announced \/ Coming(id, {"in", "err"})

(* A closed session with output left is released in the end: an edge is    *)
(* coming that lets handle_rest do it, or it waits for room.               *)
NoStuckClosing ==
  \A id \in closeRoot : AwaitsRoom(sess[id]) \/ Coming(id, {"out", "err"})

(* An error is reported only for a connection that has failed or ended, as *)
(* long as epoll_ctl does not run out of memory.                           *)
NoFalseError ==
  \A id \in Ticket : Failed(sess[id]) => sess[id].link \in {"fin", "broken"}

(* A thread that handles a closing session has the node it found: no other *)
(* thread has freed it.                                                    *)
NodeIntact == \A t \in IoThreads : io[t].current # NULL => io[t].node = io[t].current.id

(* A session closed with output left is released in the end: the output is *)
(* across or the connection is broken.                                     *)
ClosedReleased == \A id \in Ticket : id \in closeRoot ~> id \notin closeRoot

(* An event is reported in the end, unless the socket is closed first, as  *)
(* long as the event queue is never full: push_queue sets in_queue all the *)
(* same, nobody clears the flag, and the socket is silent for ever.        *)
EventsReported ==
  \A id \in Ticket : InTable(id) /\ sess[id].events # {} ~>
                       ~InTable(id) \/ sess[id].events = {}
=============================================================================
