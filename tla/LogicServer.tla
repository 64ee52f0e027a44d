----------------------------- MODULE LogicServer -----------------------------
(***************************************************************************)
(* The main loop of a logic server (logic/logic_server.lua): the table of  *)
(* sessions in common/network.lua, the sessions of clients                 *)
(* (logic/session/role_session.lua, logic/game/role/RoleLogin.lua), the    *)
(* session to the database server, which reconnects by itself              *)
(* (logic/session/db_session.lua), and the callbacks of SecTick.           *)
(*                                                                         *)
(* One Lua thread runs it all, a step per call of network.net_round and of *)
(* a callback; the network service works beside it and is what NetService  *)
(* models: here it is a set of open sockets with the events that wait to   *)
(* be reported.  A Lua table that is a session is known by the number of   *)
(* its socket, and the session of the database, which outlives its         *)
(* sockets, by main_db.                                                    *)
(***************************************************************************)
EXTENDS SecTick, Sequences

CONSTANTS
  Roles,        \* roles that clients log in
  NoRole,       \* a login that names no role
  MsgTypes,     \* types of the messages of clients, besides the login
  MaxWait,      \* longest wait before the next connection, 30 in the code
  Afters,       \* delays of the callbacks of other modules
  Pauses,       \* bound: milliseconds between two updates of the driver
  Loads,        \* bounds of a behaviour, see load
  MaxBacklog    \* bound: connections that wait to be accepted

(* net_round as a type, a round of the network inside a round, is left out. *)
ASSUME LogicServerAssumption ==
  /\ NoRole \notin Roles /\ "net_round" \notin MsgTypes
  /\ {MaxWait, MaxBacklog} \subseteq Nat
  /\ Afters \subseteq Nat /\ Pauses \subseteq Nat
  /\ \A l \in Loads : {l.ticks, l.seconds, l.sockets, l.inbox, l.cfg} \subseteq Nat
                      /\ l.sockets > 0

VARIABLES
  load,      \* [ticks |-> bound of waiting callbacks, seconds |-> bound of the
             \*  clock, sockets |-> bound of sockets ever opened, inbox |->
             \*  bound of messages that wait to be read, cfg |-> what
             \*  net_socket_cfg returns when it succeeds: 1 with the Linux
             \*  backend, 0 with the other one]
  net,       \* the open sockets: [up, events, inbox, backlog] of each
  opened,    \* sockets opened so far
  sessions,  \* network.sessions: [kind, fd, role] of each
  count,     \* network.count
  all_roles, \* role_session.all_roles
  main_db    \* the session of the database: [fd, tick_id, wait_sec]

serverVars == <<net, opened, sessions, count, all_roles, main_db>>
vars == <<load, serverVars, tickVars>>

NoTick == -1
Listener == 1

(* A login (the type I_am_client), a message whose size is wrong, and those *)
(* of other types; of their arguments only the one of handle_accept counts. *)
Msg == [type : {"login"}, role : Roles \cup {NoRole}]
         \cup [type : {"garbled"} \cup (MsgTypes \ {"handle_accept"}), role : {NoRole}]
         \cup [type : MsgTypes \cap {"handle_accept"}, role : {NoRole},
                fd : UNION {1..l.sockets : l \in Loads}]

Socket(up) == [up |-> up, events |-> {}, inbox |-> <<>>, backlog |-> 0]

(* The tables that a handler works on.                                     *)
Table == [net |-> net, sessions |-> sessions, count |-> count, roles |-> all_roles]

Becomes(tb) == /\ net' = tb.net /\ sessions' = tb.sessions
               /\ count' = tb.count /\ all_roles' = tb.roles

(* reg_session, of a new socket or of each of several.                     *)
RegAll(tb, fds, kind) ==
  [tb EXCEPT !.count = @ + Cardinality(fds \ DOMAIN tb.sessions),
             !.sessions = [fd \in DOMAIN @ \cup fds |->
                             IF fd \in fds THEN [kind |-> kind, fd |-> fd, role |-> NoRole] ELSE @[fd]]]

RegSession(tb, fd, kind) == RegAll(tb, {fd}, kind)

DelSession_slip(tb, fd) ==
  [tb EXCEPT !.net = Without(@, fd), !.count = @ - 1, !.sessions = Without(@, fd)]

DelSession(tb, fd) ==
  [tb EXCEPT !.net = Without(@, fd),
             !.count = IF fd \in DOMAIN tb.sessions THEN @ - 1 ELSE @,
             !.sessions = Without(@, fd)]

(* handle_error of the sessions of clients.  A session whose login failed  *)
(* has lost its metatable and with it every handler: the call of nil is    *)
(* caught and the socket stays.                                            *)
Failed_slip(tb, s) ==
  CASE s.kind \in {"accept", "role"} -> DelSession(tb, s.fd)
    [] s.kind = "bare" -> tb

Failed(tb, s) ==
  CASE s.kind = "accept" -> DelSession(tb, s.fd)
    [] s.kind = "role"   -> [DelSession(tb, s.fd) EXCEPT !.roles = Without(@, s.role)]
    [] s.kind = "bare"   -> tb

(* ClientRequestLogin: the session of an earlier login of the role is      *)
(* closed and its fields go to the new one, all but the socket.            *)
LoggedIn(tb, s, role) ==
  IF role = NoRole THEN [tb EXCEPT !.sessions[s.fd].kind = "bare"]
  ELSE LET closed == IF role \in DOMAIN tb.roles THEN DelSession(tb, tb.roles[role]) ELSE tb
       IN  [closed EXCEPT !.sessions[s.fd] = [kind |-> "role", fd |-> s.fd, role |-> role],
                          !.roles = Put(@, role, s.fd)]

(* handle_msg of network.lua: the type of the message is looked up in the  *)
(* table of the module itself, in which reg_who puts what is registered.   *)
(* So the names of its functions and fields are found as well: the         *)
(* metatable is taken away and the value is called with the session and    *)
(* the arguments of the message.  Harmless are those that then raise an    *)
(* error or change nothing here.  The key that reg_session is called with  *)
(* is the session, which is no socket, and -s.fd stands for it.            *)
Harmless == {"name", "count", "sessions", "del_session", "reg_who", "handle_msg",
             "send_msg", "net_listen"}

Dispatched(tb, s, msg) ==
  LET bare == [tb EXCEPT !.sessions[s.fd].kind = "bare"]
  IN  CASE msg.type = "login"         -> LoggedIn(tb, s, msg.role)
        [] msg.type = "__index"       -> tb
        [] msg.type = "handle_error"  -> DelSession(tb, s.fd)
        [] msg.type = "handle_accept" -> RegSession(bare, msg.fd, "accept")
        [] msg.type = "reg_session"   -> RegSession(bare, -s.fd, "bare")
        [] msg.type \in Harmless      -> bare
        [] OTHER                      -> Failed(tb, s)

(* The loop of do_round over the messages of a socket, one message.  s is  *)
(* the session the loop found before it began; a message that cannot be    *)
(* read, or the socket of a session its own handler closed, ends in        *)
(* handle_error.  handle_msg of role_session.lua looks types up in its own *)
(* module too, where two of the functions close the session.               *)
Handled(tb, s, msg) ==
  LET now  == IF s.fd \in DOMAIN tb.sessions THEN tb.sessions[s.fd] ELSE s
      read == s.fd \in DOMAIN tb.net /\ msg.type # "garbled"
  IN  CASE ~read -> Failed(tb, now)
        [] read /\ now.kind = "accept" -> Dispatched(tb, now, msg)
        [] read /\ now.kind = "role" /\ msg.type \in {"close", "handle_error"} -> Failed(tb, now)
        [] OTHER -> tb

HandledAll(tb, s, msgs) ==
  LET after[n \in 0..Len(msgs)] == IF n = 0 THEN tb ELSE Handled(after[n - 1], s, msgs[n])
  IN  after[Len(msgs)]

(***************************************************************************)
(* The session of the database.                                            *)
(***************************************************************************)
(* A tick for the next connection, with the callbacks ts.                  *)
Retry_slip(ts, wait) == /\ Fits(ts, wait)
                        /\ ticks' = Reg(ts, wait, "connect_db")
                        /\ main_db' = [main_db EXCEPT !.wait_sec = wait]

Retry(ts, wait) == /\ Fits(ts, wait)
                   /\ ticks' = Reg(ts, wait, "connect_db")
                   /\ main_db' = [main_db EXCEPT !.tick_id = NewTick(ts.tree, seconds + wait),
                                                 !.wait_sec = wait]

(* connect_db                                                              *)
ConnectDb(rest) ==
  LET wait == IF main_db.wait_sec < MaxWait THEN main_db.wait_sec + 1 ELSE main_db.wait_sec
  IN  \/ /\ main_db.tick_id = NoTick
         /\ ticks' = rest
         /\ UNCHANGED serverVars
      \/ /\ main_db.tick_id # NoTick /\ opened < load.sockets
         /\ opened' = opened + 1
         /\ main_db' = [fd |-> opened', tick_id |-> NoTick, wait_sec |-> wait]
         /\ Becomes(RegSession([Table EXCEPT !.net = Put(@, opened', Socket(FALSE))], opened', "db"))
         /\ ticks' = rest
      \/ /\ main_db.tick_id # NoTick
         /\ Retry(rest, wait)
         /\ UNCHANGED <<net, opened, sessions, count, all_roles>>

(* handle_connect: with the Linux backend net_socket_cfg does not return 0 *)
(* when it succeeds, and the connection is given up.                       *)
ConnectHandled(tb, error) ==
  IF ~error /\ load.cfg = 0
  THEN /\ Becomes(tb)
       /\ main_db' = [main_db EXCEPT !.wait_sec = 1]
       /\ ticks' = ticks
  ELSE /\ Becomes(DelSession(tb, main_db.fd))
       /\ Retry(ticks, main_db.wait_sec)

(***************************************************************************)
(* network.net_round: one event of one socket.                             *)
(***************************************************************************)
Taken(fd) == [Table EXCEPT !.net[fd].events = {}]

(* The session an event is for; no round of callbacks is running.          *)
Reported(fd, events) == /\ left = 0
                        /\ fd \in DOMAIN sessions
                        /\ net[fd].events = events

OnAccept(fd) ==
  LET room     == load.sockets - opened
      taken    == IF net[fd].backlog <= room THEN net[fd].backlog ELSE room
      accepted == opened + 1..opened + taken
      remains  == net[fd].backlog - taken
      socket   == [net[fd] EXCEPT !.events = {}, !.backlog = IF remains = 0 THEN 0 ELSE remains - 1]
      tb       == [Table EXCEPT !.net = [n \in DOMAIN net \cup accepted |->
                     IF n \in accepted THEN Socket(TRUE) ELSE IF n = fd THEN socket ELSE net[n]]]
  IN  /\ Reported(fd, {"accept"})
      /\ opened' = opened + taken
      /\ Becomes(RegAll(tb, accepted, "accept"))
      /\ UNCHANGED <<load, main_db, tickVars>>

OnConnect(fd) ==
  /\ \E error \in BOOLEAN :
       /\ Reported(fd, {"connect"} \cup (IF error THEN {"error"} ELSE {}))
       /\ IF sessions[fd].kind = "db" THEN ConnectHandled(Taken(fd), error)
          ELSE Becomes(Taken(fd)) /\ UNCHANGED <<main_db, ticks>>
  /\ UNCHANGED <<load, opened, seconds, msec, left>>

(* handle_error; an input event that comes with it is not looked at.       *)
OnError(fd) ==
  /\ Reported(fd, {"error"}) \/ Reported(fd, {"error", "read"})
  /\ \/ /\ sessions[fd].kind = "db"
        /\ Becomes(DelSession(Taken(fd), fd))
        /\ Retry(ticks, 1)
     \/ /\ sessions[fd].kind # "db"
        /\ Becomes(Failed(Taken(fd), sessions[fd]))
        /\ UNCHANGED <<main_db, ticks>>
  /\ UNCHANGED <<load, opened, seconds, msec, left>>

OnRead(fd) ==
  /\ Reported(fd, {"read"})
  /\ Becomes(HandledAll([Taken(fd) EXCEPT !.net[fd].inbox = <<>>], sessions[fd], net[fd].inbox))
  /\ UNCHANGED <<load, opened, main_db, tickVars>>

(***************************************************************************)
(* The clock, and the callbacks of other modules, which may register       *)
(* themselves again or raise an error (which is caught).                   *)
(***************************************************************************)
Advance == /\ \E passed \in Pauses : Update(passed) /\ seconds' <= load.seconds
           /\ UNCHANGED <<load, serverVars>>

(* Bound: the driver reaches the second of the tick.                       *)
Bounded(ts, after) ==
  /\ seconds + after <= load.seconds - (IF after = 0 THEN 1 ELSE 0)
  /\ Fits(ts, after)

Callback(fun, rest) ==
  \/ /\ fun = "connect_db"
     /\ ConnectDb(rest)
  \/ /\ fun = "other"
     /\ \/ ticks' = rest
        \/ \E after \in Afters : Bounded(rest, after) /\ ticks' = Reg(rest, after, "other")
     /\ UNCHANGED serverVars

RunTick == Turn /\ Callback(FirstFun, Remaining) /\ UNCHANGED load

RegOther == /\ left = 0
            /\ Cardinality(DOMAIN ticks.funs) < load.ticks
            /\ \E after \in Afters : Bounded(ticks, after) /\ ticks' = Reg(ticks, after, "other")
            /\ UNCHANGED <<load, serverVars, seconds, msec, left>>

UnregOther == /\ left = 0
              /\ \E tick \in DOMAIN ticks.funs :
                   ticks.funs[tick] = "other" /\ ticks' = Unreg(ticks, tick)
              /\ UNCHANGED <<load, serverVars, seconds, msec, left>>

(***************************************************************************)
(* What the network does.                                                  *)
(***************************************************************************)
Happens(fd, event) == /\ net' = [net EXCEPT ![fd].events = @ \cup event]
                      /\ UNCHANGED <<load, opened, sessions, count, all_roles, main_db, tickVars>>

(* A client connects.                                                      *)
Knock == /\ net[Listener].backlog < MaxBacklog
         /\ opened + net[Listener].backlog < load.sockets
         /\ net' = [net EXCEPT ![Listener].backlog = @ + 1, ![Listener].events = {"accept"}]
         /\ UNCHANGED <<load, opened, sessions, count, all_roles, main_db, tickVars>>

IsDb(fd) == fd = main_db.fd

(* The connection to the database is established, or it is not.            *)
Established(fd) == /\ IsDb(fd) /\ ~net[fd].up /\ net[fd].events = {}
                   /\ net' = [net EXCEPT ![fd].up = TRUE, ![fd].events = {"connect"}]
                   /\ UNCHANGED <<load, opened, sessions, count, all_roles, main_db, tickVars>>

Refused(fd) == /\ IsDb(fd) /\ ~net[fd].up /\ net[fd].events = {}
               /\ Happens(fd, {"connect", "error"})

(* A client sends a message.                                               *)
Arrives(fd, msg) == /\ fd # Listener /\ ~IsDb(fd)
                    /\ net[fd].up /\ Len(net[fd].inbox) < load.inbox
                    /\ net' = [net EXCEPT ![fd].inbox = Append(@, msg), ![fd].events = @ \cup {"read"}]
                    /\ UNCHANGED <<load, opened, sessions, count, all_roles, main_db, tickVars>>

(* A connection breaks.                                                    *)
Breaks(fd) == /\ fd # Listener /\ net[fd].up /\ "connect" \notin net[fd].events
              /\ net' = [net EXCEPT ![fd].up = FALSE, ![fd].events = @ \cup {"error"}]
              /\ UNCHANGED <<load, opened, sessions, count, all_roles, main_db, tickVars>>

Init ==
  /\ load \in Loads
  /\ net = [fd \in {Listener} |-> Socket(TRUE)]
  /\ opened = Listener
  /\ sessions = [fd \in {Listener} |-> [kind |-> "listen", fd |-> fd, role |-> NoRole]]
  /\ count = 1
  /\ all_roles = <<>>
  /\ seconds = 0 /\ msec = 0 /\ left = 0
  /\ ticks = [tree |-> TreeInsert(TreeEmpty, Span), funs |-> Put(<<>>, Span, "connect_db")]
  /\ main_db = [fd |-> 0, tick_id |-> Span, wait_sec |-> 1]

Next ==
  \/ Advance \/ RunTick \/ RegOther \/ UnregOther \/ Knock
  \/ \E fd \in DOMAIN net :
       \/ OnAccept(fd) \/ OnConnect(fd) \/ OnError(fd) \/ OnRead(fd)
       \/ Established(fd) \/ Refused(fd) \/ Breaks(fd)
       \/ \E msg \in Msg : Arrives(fd, msg)

Spec == Init /\ [][Next]_vars
(***************************************************************************)
(* Properties.                                                             *)
(***************************************************************************)
(* A tick in the tree has its callback and a callback its tick: none is    *)
(* forgotten and none runs twice (sec_tick.reg, unreg, trigger).           *)
TicksMatch == DOMAIN ticks.funs = TreeKeys(ticks.tree)

(* Callbacks run in the order of their seconds, within a second in that of *)
(* their registration, and none before its second, although a round only   *)
(* counts the ticks that are due and callbacks register others meanwhile.  *)
Promise == INSTANCE Agenda WITH pending <- DOMAIN ticks.funs
ImplementsAgenda == Promise!Spec

(* The sockets in the table are the open ones, and count is their number,  *)
(* although handlers close sessions while a loop goes on with them.        *)
TableExact == /\ DOMAIN sessions = DOMAIN net
              /\ count = Cardinality(DOMAIN sessions)

(* A role is online in one session, which all_roles names, through second  *)
(* logins, errors and sessions closed in their own handler.                *)
OneSessionPerRole ==
  /\ \A role \in DOMAIN all_roles :
       /\ all_roles[role] \in DOMAIN sessions
       /\ sessions[all_roles[role]] = [kind |-> "role", fd |-> all_roles[role], role |-> role]
  /\ \A fd \in DOMAIN sessions :
       sessions[fd].kind = "role" => /\ sessions[fd].role \in DOMAIN all_roles
                                     /\ all_roles[sessions[fd].role] = fd

(* The session to the database has a socket or waits for its next attempt, *)
(* never both and never neither: it does not stop to reconnect and does    *)
(* not connect twice (handle_connect, handle_error, connect_db).           *)
OneAttempt ==
  LET waiting == {t \in DOMAIN ticks.funs : ticks.funs[t] = "connect_db"}
  IN  IF main_db.fd \in DOMAIN net
      THEN waiting = {} /\ main_db.tick_id = NoTick
      ELSE waiting = {main_db.tick_id}

(* A first message of a type that was not registered ends its session, and *)
(* nothing else happens: "have no handle to command msg type", says the    *)
(* warning of network.handle_msg, and calls handle_error.                  *)
UnknownRefused ==
  [][\A fd \in DOMAIN sessions :
       OnRead(fd) /\ sessions[fd].kind = "accept" /\ Head(net[fd].inbox).type \in MsgTypes
         => sessions' = Without(sessions, fd)]_vars

(* A round leaves no callback of a second that is over: each runs in the   *)
(* first round of its second or of a later one, whatever other callbacks   *)
(* the round ran before it and however long the loop paused.               *)
NothingOverdue == left = 0 => \A t \in DOMAIN ticks.funs : Second(t) >= seconds
==============================================================================
