# Formal verification of randserver

randserver is a game-server framework: a C network engine (`engine/net`), a set
of C utilities (`engine/tool`), Lua bindings (`engine/lualib`) that run Lua
services on operating-system threads, and a Lua application on top
(`luacode`).  This directory holds TLA+ models of its parts, the TLC instances
that check them, and proofs checked by TLAPS.

## 1. Inventory

### 1.1 Engine, network (`engine/net`)

| component | state | operations | who calls it |
|---|---|---|---|
| id allocator `tool/ffid.c` | free list threaded through `ts[]`, `first`, `end`, `cur_size` | new, del, has, id, index, size | net service, under `id_lock` or a slot lock |
| message queue `msg_buff` (`buff.c` 985-1175) | `pool_cnt` lazily allocated parts, `read`/`write` positions, `freeH`, a writer lock and a reader lock | write, read, size | net service: event queue and delay queue; writers are I/O and application threads, readers one or more threads |
| receive buffers `recv_buff` vA, vB | parts or a list of whole messages, header parser | prepare, consume, read, check | net service, under the slot lock |
| send buffer `send_buff` | parts, positions | write, prepare, consume | net service, under the slot lock |
| buffer pool `buff_pool.c` | stack of free buffers under a lock | new, del, revive | all buffers |
| net service `net_service.c` | slot array of sessions, one spin lock per slot, `id_lock`, `close_lock`, event queue, delay queue, tree of closing sockets | listen, connect, accept, cfg, read, write, close, queue, wait, delay | application thread, I/O threads, delay thread |
| Linux backend `epoll_service.c` | per-socket registrations of the read and the write half, closing sockets | epoll_ctl bookkeeping, post_read, post_write, handle, rest sessions | net service |
| Windows backend `iocp_service.c` | overlapped operations in flight | the same interface | net service |

Interactions: an I/O thread that finds work for a socket sets a bit in the
session and puts the id in the event queue; the application thread takes ids
out of the queue and works on them; written data is sent either at once or by
the delay thread, through the delay queue.  Ids name slots modulo the number of
slots, so everything depends on stale ids being recognised.

### 1.2 Engine, tools (`engine/tool`) and Lua bindings (`engine/lualib`)

| component | state | operations |
|---|---|---|
| Lua services `lua_server.c` | a thread, a Lua state, a locked linked list of messages, run flag | run, push, pop, stop, join, pack, unpack |
| serializer `serialize.c` | growing buffer, reference tables | pack, unpack, clean |
| network binding `lua_net.c` | one delay thread, N I/O threads, the service | create, close, the calls of the net service |
| ticks `lua_tick.c`, `tdriver.c` | ordered tree of (time, id); last update | register, unregister, index; update |
| size-balanced tree `sbtree.c` | balanced tree with sizes | insert, delete, find, index, lt |
| heap `heap.c` | array heap that shrinks | push, pop, top |
| `cpack.c`, `bit.c` | cursors over byte arrays | pack, unpack |
| record-file lock `lua_rio.c` | a mutex per file | lock, unlock, rename |
| MySQL binding, file system binding | handles | thin wrappers |

### 1.3 Lua application (`luacode`)

| component | state | operations |
|---|---|---|
| session table `common/network.lua` | fd -> session, count | reg, del, accept, message, error, send |
| second ticks `common/sec_tick.lua` | callbacks by id, environment of the clock | reg, unreg, trigger, round |
| logic side: `db_session.lua`, `role_session.lua`, `RoleLogin.lua` | reconnect state, roles by id | connect, handshake, close, login |
| database side: `db_server.lua`, `zone_service.lua`, `db_session.lua` | services per zone, statements by id | route, execute, reply |
| logging: `log.lua`, `log_service.lua`, `dblog.lua` | open files, a log service | write, rotate |

### 1.4 What is hard here, and what makes each part correct

* **Ids.** A slot is reused under new ids; a stale id must never be taken for
  the new socket, two live ids must not share a slot, the numbers wrap at
  2^32.  Correct: `ffid_has_id` is exact, ids come back as late as possible.
* **Message queue.** Readers and writers hold different locks and work from
  snapshots of each other's position.  Correct: every message accepted is
  delivered once, in order; memory of an unread message is never released.
* **Net service.** Any number of I/O threads, a delay thread and an application
  thread meet at a slot; ids travel through bounded queues and may be stale on
  arrival; registrations are one-shot.  Correct: an event is reported or still
  queued, a socket is closed exactly once and its id freed once, data written
  is eventually handed to the kernel, nobody touches a slot's next socket.
* **Buffers.** Positions wrap at twice the capacity, headers arrive in pieces.
  Correct: the byte stream is cut into exactly the messages that were sent.
* **Lua services.** Threads are stopped and joined while others push messages.
  Correct: no message is lost before the stop, join terminates, memory handed
  to another thread is not reused too early.
* **Ticks, tree, heap, serializer.** Sequential code whose difficulty is the
  long sequence of legal calls and values at the edge of their range.
* **Lua sessions.** Errors raised in callbacks leave tables half updated; a
  reconnect races with answers; a second login displaces the first.

## 2. Plan

The most important behaviour is that of the network service and what it stands
on; the Lua application and the tools it uses follow.

| module | models | composes or implements | properties and theorems |
|---|---|---|---|
| `Ffid`, `IdPool` | `tool/ffid.c` | `Ffid` implements `IdPool` | exact lookups, late reuse; proved in `FfidProofs` |
| `MsgBuff`, `BoundedFifo` | `msg_buff` of `net/buff.c` | `MsgBuff` implements `BoundedFifo` under a bound on the load | no part is freed under a thread, none is lost, and the refinement: proved in `MsgBuffProofs` |
| `EpollSession`, `NetService` | `net/net_service.c`, `net/epoll_service.c` | uses `IdPool`, and queues as in `BoundedFifo` | `OnePlace`, `OwnsIds`, `RegistrationExact` and no lost edge (`NoStuckOutput`, `NoLostInput`) proved in `NetServiceProofs` |
| `ByteRing`, `SendBuff`, `RecvBuff`, `Stream` | the rest of `net/buff.c` | `Stream` composes a send buffer, a connection and a receive buffer | positions in bounds, what is read is what was written: proved in `StreamProofs`, over `RingProofs`; every message arrives |
| `SbTree`, `SortedTree`, `TreeShapes`, `SecTick`, `Agenda` | `tool/sbtree.c`, `lualib/lua_tick.c`, `tool/tdriver.c`, `common/sec_tick.lua` | `SecTick` over any tree that sorts (`SortedTree`), which implements `Agenda`; `TreeShapes` explores the trees of `SbTree` | callbacks run in order, once, in time: proved in `LogicProofs` for a tree that sorts; how far `SbTree` does is checked |
| `LogicServer` | `logic/`, `common/network.lua` | extends `SecTick`; over what `NetService` promises | the tables agree, one session per role, one attempt to connect: proved in `LogicProofs` |
| `LuaService`, `LuaValue`, `DbServer`, `Serialize`, `DbMessages` | `lualib/lua_server.c`, `lualib/serialize.c`, `db/` | `DbServer` composes services, `DbMessages` adds the packing of messages | statements in order, none lost, services freed when nobody uses them: proved in `DbProofs`; messages intact; the server ends |
| still to come | `net_close` with `lua_net.c`; `buff_pool.c`; `net/iocp_service.c` in place of `EpollSession` | extend `NetService` | everything is released once; operations in flight keep the session alive |

Parameters are constants with named assumptions, each operation is an action,
invariants are conjunctions of named parts, and recursion is avoided in modules
that proofs extend, so that every module can be both checked and proved about.

## 3. The modules

### 3.1 `Ffid`, `IdPool`

`ts`, `first`, `end` and `curSize` are the fields of `struct ffid`.  `held`
(the ids clients have), `fifo` (the free ids in order) and `issued` are
auxiliary: no action reads them except that a client gives back only what it
holds.  `NewId` is `ffid_new_id`; `DelId` is `ffid_del_id`, with its two
branches `Recycle` and `Retire`; `HasId` and `IdAt` are the queries
`ffid_has_id` and `ffid_id`, including the 32-bit wrap of `--id` for id 0.
`IdPool` keeps of all this a queue of tickets (slot, generation).

### 3.2 `MsgBuff`, `BoundedFifo`

A position is one number instead of a packed pair; `parts` is `buffers[]`,
`wflag` and `rflag` are the holders of the two locks.  A write is four steps
(`WriteBegin`, `WriteAlloc` or `WriteNoMemory`, `WriteCopy`, `WritePublish`), a
read is `ReadBegin`, `ReadCopy`, one `ReadGc` per part passed and
`ReadPublish`.  These are the points between which the other side's stores can
fall: each side reads the other's position once, and both touch `buffers[]`.
Memory order is taken to be as the fences demand.

`Load` is an assumption about the clients, not code: at most so many messages
wait.  `buff_gc_help` spares the part the writer was in when the read began.
When the writer has moved on since then, the reader may release the part that
the writer has wrapped into.  With at most `(PoolCnt - 1) * BufferSize + 1`
messages waiting this cannot happen; with a full queue it does
(`msg_buff_full`).  In the network service the bound is three quarters of the
queue.

### 3.3 `EpollSession`, `NetService`

`NetService` holds the shared state: `free` and `held` (the allocator),
`table` (`sessions[]`), `sess` (the session object of every id: a session has
one id in its life), `closeRoot`, the two queues, and for each thread where it
is in its call.  `EpollSession` has one operator for each function of
`epoll_service.c` that works on a session under its slot's lock, from the
record before to the record after, and the kernel's side of a descriptor.

| code | model |
|---|---|
| a section under a slot lock | one action, enabled only while no I/O thread keeps the slot locked (`Unlocked`) |
| `add_net_session` | `TakeId` (under `id_lock`) then `Publish` |
| `net_listen`, `net_connect` | `Open`, `Publish`, then `Register` or `RegisterFails` and a close |
| `net_accept` | `Accept`, then `Accepted` or `NotAccepted`, `Publish` |
| `net_socket_cfg`, `_read`, `_write` | `Cfg`, `Read`, `WriteNow`, `WriteLater`: one section each |
| `net_socket_close` | `CloseBegin` (under the slot lock), `CloseEnd` (under `id_lock`) |
| `net_queue` | `QueueRead` takes a batch, `QueueItem` handles each id |
| `net_delay` | `DelayTake`, `DelayItem` |
| `net_wait` | `Wait` takes a batch of events; for each one `Handle`, or `FindClosed` and `HandleRest`, or `Ignore` |
| `push_queue`, `push_delay_queue` | `Push` and `inDelay` in the record; `QueuesFor` appends the id when a flag was newly set, and drops it when the queue is full |
| `epoll_ctl_op`, `clean_epoll_op` | `CtlOp` (it chooses ADD or MOD by what it believes registered, `CtlPossible` says whether that works), `Clean` |
| `post_read`, `post_write`, `post_rest_*` | `PostRead`, `PostWrite`, `RestRead`, `RestWritten` |
| `handle_session`, `handle_rest` | `HandleSession`, `RestHandled` with `MayRelease` |

The kernel and the peers (`Connected`, `Arrives`, `Ends`, `Breaks`, `Drains`)
are modelled from the interface the code relies on: edge-triggered
notification, a check when an interest set is registered, and a wakeup for
output only after a send was refused.  Data is counted in messages.  Two
abstractions are over-approximations: which tree node `sb_tree_delete` moves is
left open, and `connect` may already have finished, or failed, when the socket
is registered.  A message that `recv_buff_consume` rejects is not
distinguished from the end of the stream, after which the code does the same.

Auxiliary fields: `owed` (the application was told to read and has not read
until nothing was left) and `told` (it was told of an error).  They say what
the application must do in return for not losing wakeups, and appear only in
properties.

### 3.4 `ByteRing`, `SendBuff`, `RecvBuff`, `Stream`

`EpollSession` counts messages; here they are bytes.  `ByteRing` is the array of
parts that `send_buff` and version A of `recv_buff` use: positions (one number
for the packed pair), allocation, copying, `buff_gc_help`.  `SendBuff` and
`RecvBuff` have an operator for each function of `buff.c`; version B of
`recv_buff` is the second half of `RecvBuff`.  Each call is made under the lock
of a slot (or by the one thread of a test), so it is one step of `Stream`, which
sends and receives in pieces of any size:

| code | model |
|---|---|
| `send_buff_write` (called by `net_socket_write`) | `Write`, `WriteFails` |
| `send_buff_prepare`, `send()`, `send_buff_consume` (`post_rest_write`) | `Send` |
| `recv_buff_prepare`, `recv()`, `recv_buff_consume` (`post_rest_read`), version A | `ReceiveA`, `ReceiveNothing` |
| the same, version B | `ReceiveHead`, `ReceiveHeadFails`, `ReceiveBody` |
| `recv_buff_read` (`net_socket_read`) | `Read`, `ReadNothing` |

A byte that has been read is forgotten, and so is what an allocation contains:
such a cell is `Junk`, and reading it would show.  The bytes of a message
differ with its length and from one to the next.  `Sendable` leaves out what
the buffers do not survive and do not test: an empty message (version B waits
for ever), a message whose size has room in the header but not with the size of
the header added (the size is cut off), and for version A one larger than the
peer's buffer.  The caller's buffer is large enough for what is read, and the
sign test on sizes of 4-byte headers is left out.  An error of the receiving
side is final (`broken`): the code takes the registration away and reports
`Eve_Error`, on which `engine/test/server.c` and the scripts close the socket.
An application that reads on instead has `post_read` register the socket again;
`EpollSession` has that, `Stream` does not.

### 3.5 `SbTree`, `SortedTree`, `TreeShapes`, `SecTick`, `Agenda`

`SbTree` is `sbtree.c` as an algorithm: a node is a record with its key, the size
of its subtree and two subtrees, and what the C code writes once per side is one
operator with a side.  `Inserted`, `Deleted` (with `DeletedNode`, which moves the
content of a neighbour into the node that stays), `Index` and `Lt` are the
functions the ticks use; `Rotate` and `Maintain` are what keeps the sizes.
`sb_tree_main_tain` goes on below the node that went down where the usual
algorithm maintains the two sides of the node that went up; the model does what
the code does.  The tree may then be out of balance (the insertions 1, 3, 2, 5,
6, 4, 7, 8, 12, 11, 13, 9, 14, 10 do it), which matters beyond the time it costs:
a found node of size 3 or more is deleted by way of its left subtree, and when
that is empty nothing is deleted, while the size of the node drops.

`SortedTree` says what the callers of a tree rely on (`Sorted`): `lt` counts the
keys below, `index` finds the key with so many below it, an insertion or a
deletion changes that key alone.  `TreeShapes` explores the trees that insertions
of absent keys and deletions of present ones can make, which is how the ticks
call them; since the code only compares keys, one tree stands for its shape.  Up
to 18 keys at a time every tree is sound and sorts (`TreeSound`, run `logic`); with
23 keys a deletion can fail (`DeletionsWork`, run `tree_deletion`, one sequence of
29 calls).  Between the two there are too many trees to explore.

`SecTick` is the tick library with the table of callbacks of
`common/sec_tick.lua`, over a tree of which it knows only what it calls: the
constants of `SortedTree`, to which the configuration of the run gives the
operators of `SbTree`.  `NewTick` is `lua_tick_reg`, `Reg` and `Unreg` the functions
of the Lua module, `Update` is `tdriver.update` together with the beginning of a
round, `Turn` one iteration of `do_round`.  A round counts the ticks that are due
and then takes the first one that often.  `Agenda` is what that should amount to:
a set of callbacks that run in the order of their seconds and of their
registration, none early.  The low part of a tick has 2^32 values in the code and
`Span` here; `Fits` bounds the ticks of a second by that, and those that wait at a
time by `MaxTicks`.

### 3.6 `LogicServer`

The one Lua thread of a logic server, a step per `net_round` and per callback.
The network service is reduced to open sockets with events to report; `Knock`,
`Established`, `Refused`, `Arrives` and `Breaks` are what it may do meanwhile.

| code | model |
|---|---|
| `network.reg_session`, `del_session` | `RegAll` of new sockets, `RegSession` of one; `DelSession` |
| `network.do_round`: accept, connect, error, read | `OnAccept`, `OnConnect`, `OnError`, `OnRead` |
| `network.handle_msg`, `role_session.handle_msg`, `ClientRequestLogin` | `Handled` for a message, `HandledAll` for those of a socket; `Dispatched` for the first message of a socket, `LoggedIn` |
| `role_session.handle_error`, `close` | `Failed` |
| `db_session.connect_db`, `handle_connect`, `handle_error` | `ConnectDb`, `ConnectHandled`, the first branch of `OnError`; a new attempt is `Retry` |
| `tdriver.update`, `sec_tick.do_round` in the main loop | `Advance`, `RunTick` |
| callbacks of other modules | `RegOther`, `UnregOther`, `Callback` |

A Lua table that is a session is known by its socket.  Callbacks may raise an
error, may register another one, also for the same second, and may connect.  A
login without a role takes the metatable of the session away before it calls a
method of it: such a session is `bare`, and every later call on it fails and is
caught.

`network.handle_msg` looks the type of a first message up in the table of the
module, where the registered handlers are, but also its own functions and
fields.  `Dispatched` has a case for each: `__index` makes the session what it
was, `handle_error` closes it, `handle_accept` and `reg_session` put entries into
the table of sessions, and the others (`Harmless`) leave a bare session.  A type
that names nothing ends in `handle_error`.  The constant `MsgTypes` says which
types clients send besides the login; `net_round`, a round inside a round, may
not be among them.  After the login `role_session.handle_msg` looks types up in
its own module in the same way, where only `close` and `handle_error` change
anything here.

`load` chooses which bounds hold in a behaviour; it is a variable only
so that one run can have several instances.

### 3.7 `LuaService`, `LuaValue`, `DbServer`

`LuaService` is `lua_server.c`: a service has a list with a tail pointer, a run
flag and a thread.  Each section between `net_lock` and `net_unlock` is a step,
and so are the creation of the thread and the setting of the run flag behind it
in `lua_service_run`, between which the new thread already runs.  `DbServer` is
the program that uses it: the script starts the services of zones and logs
(`StartCreate`, `StartParams`, `StartThread`, `StartFlag`), receives statements
(`Receive` unpacks the database id and packs what is pushed, `Push` pushes it),
stops all services and joins and frees them (`StopNext`, `JoinNext`); the thread
of a service takes its parameters (`Boot`), tests its flag (`Check`), works off
its messages (`Own`, `Worked`) and polls the service the zones share
(`PopShared`).  A statement that fails ends the inner loop, as in the script.
Statements that are in a list when the server stops are dropped; `NothingLost`
therefore speaks of a server that is not yet stopping.

How a message is packed is a pair of constants here, `Packed` and `Unpacked`, of
which `DbServerAssumption` asks that the database id comes back as it was sent.
`DbMessages` is the server with the serializer of 3.8 in their place (the
configuration gives `Packed` and `Unpacked` the values `Pack` and `Unpack`, and
TLC evaluates the assumption for them), and `LuaValue` has the values both
speak of.

### 3.8 `Serialize`, `DbMessages`

Packing and unpacking as operators.  A message is a sequence of cells, one for
an operation code, a number or a character; the width of a number is implied by
the code before it, and `Cast` cuts a number to it.  `PackObj` writes a table it
has met before as the number it was given then; `UnpackObj` and `UnpackPairs`
count tables as they begin.  Values live in a heap from table ids to entries, so
that tables may be shared and contain themselves.  What has no code of its own
becomes nil (functions always; objects unless the packer is `lua_service_run`,
which hands the shared service to the zones), and an entry with nil is none.
`Intact` says that the unpacked values equal the packed ones under some
correspondence of the tables, and `ArrivesIntact` of `DbMessages` says so of every
statement executed and of the parameters of every thread.

The widths are constants.  The module follows the code on two kinds of values
that do not survive the way, and the instances leave them out: a string of
32768 bytes or more is packed behind a size of eight bytes and unpacked behind
one of four, and the smallest integer is packed as a byte, because its absolute
value overflows.  A key that becomes nil raises an error inside
`lua_service_pop_msg`, which leaves the service locked; no script sends one, and
neither do the instances.

## 4. What the runs check

| run | instance | shows |
|---|---|---|
| `ffid` | 3 slots, limit 8: slots with two and with three generations, looping or not | exact lookups (`LookupsExact`), the free list is a queue (`ChainIsFifo`), `cur_size`, late reuse; refinement of `IdPool` |
| `msg_buff` | 1 writer, 1 reader, 3 parts of 2, load 5 (the bound), fair | FIFO (refinement of `BoundedFifo`), no stray copy, no lost part; calls end |
| `net_parts` | 2 slots and 4 ids in five parts, see below; `epoll_ctl` may fail in any call | a socket closed twice at once gives its id back once; sessions are in one place; registrations and flags agree; no lost edge for input and output, of open and of closing sockets |
| `net_live` | 1 slot, one I/O and one application thread, fair: one connection in all its states, or two in turn without input | closed sockets are released, events reported; no error of a healthy connection |
| `stream` | send buffer of 2 parts of 3, receive buffer of 3 parts of 2 (or 3 messages), headers of 1 and 2 bytes, messages of 1 and 4, fair | the receive buffer, the wire and the send buffer together hold exactly what was written and not read; messages are read whole and in order, never rejected, and arrive |
| `logic` | one of five loads: every tree of `sbtree.c` with up to 18 keys at a time; 5 callbacks in 3 seconds; clients on 4 sockets; the database connection with either backend; `MsgTypes` without `handle_accept` and `reg_session` | the tree is sound, callbacks are an agenda and never overdue, the tables agree, a role has one session, the database session one attempt or one socket |
| `services` | 2 zones, a log, 3 statements of 2 database ids; or one zone and one statement of any kind of values; fair | statements of a database id are executed in order, none is lost, every value arrives intact, no service is used after it was freed, a server that stops gets to its end |
| `msg_buff_full`, `net_false_error`, `net_freed_node`, `tree_deletion`, `logic_unknown_type` | see 4.1 | violations |

Bounds.  The allocator needs a slot with one generation more than another and a
list that runs empty: 3 slots and limit 8 give both.  The message queue's
positions wrap after two laps, which five messages in flight and unbounded
calls reach; parts of two messages give reads that stay within, end at and
cross a part, and reads of three cross one entirely.  In the service every
hazard concerns one slot and its next socket, or two slots sharing a queue or
the tree: one slot with two ids and two slots with three are the least
instances with both.  One message in each buffer and one of kernel space
already give full, empty and partly sent.  Ids are finite, so the service ends
when they are used up: deadlock is not checked in its runs, nor in `ffid`,
where a pool that does not loop really runs dry.  `QueueCap` is `4 * size` as
in the code; the ids of these instances do not fill it, and no property speaks of
a full queue (see the end of 4.1).

The behaviours of one service of that size are too many, and `net_parts` has five
parts of them, each a restriction of `Next` in `MCNetParts`:

* `accepting`: two application threads, one I/O thread; sockets listen, are
  accepted, configured, read and closed; three ids on two slots.  Connections
  arrive and no data: a read finds nothing (data is in the parts below).
* `single`: one connection, with input, output at once and delayed, the end of the
  stream, resets and closing with output left.
* `receiving`, `delaying`: two connections in turn in one slot, with input, or with
  output that is also delayed; one I/O thread.
* `sending`: the same with output at once and two I/O threads.

In the last four the other slot has a socket that listens and that nobody
connects to.  `NoFalseError` needs one I/O thread and an `epoll_ctl` that does not
fail, as in `net_live`, which has two such parts.

In `stream` a message of four bytes with its header is longer than a part and
as long as the arrays nearly are, one of one byte leaves the positions at every
offset; a byte has six values, so that a size of six takes two of them.  The
receiver may give up for want of memory: deadlock is not checked.

`msg_buff` has one thread on either side: the locks let no second
one in, and what a lock holder does depends on the positions alone.

In `logic` 18 keys are what can be explored of the tree in full: the number of
shapes grows fast with the keys; 12 451 of them are reached, by insertions and
deletions in every order.  In the other loads at most seven ticks wait at a time
(`MaxTicks`).  The types of messages are one of each kind that `Dispatched` and
`Handled` tell apart: `close` (nothing in `network.lua`, but something after the
login), `handle_error`, `__index`, and `name` for the harmless ones.  A pause of
several seconds lets a round begin late; four sockets are the listener and three
clients, enough for a second login and for one that breaks in between; waits grow
to two seconds instead of thirty.  The loads are separate because callbacks and
clients touch each other only through the main loop, which the load of the
database session has.  Sockets are numbered and used up, so deadlock is not
checked.

In `services` two zones, a log and the shared service are the least program with
every kind of service (the code starts two logs; they differ in nothing).  Three
statements make a list run empty and fill again.  The widths are 1, 2, 4 and 8
instead of 2^7, 2^15, 2^31 and 2^63, and 2 and 4 for the strings.  One statement
has the integers on both sides of each of the first three widths, another
strings of every size below the longest, a third the remaining types; the others
are every pair of tables with no or two entries that refer to either table or
are a function, and a table as a key.  The server ends: deadlock is not checked.

Fairness.  `services`: the script and the threads are scheduled; nothing says that
statements arrive or that somebody stops the server, so that `ShutdownEnds`
begins with the stop.  `stream`: what the socket takes is sent, what there is room for is
received (that the epoll backend loses no edge is what `NoStuckOutput` and
`NoLostInput` say), and an application that was told to read reads until
nothing is left, as `engine/test/server.c` does.  `msg_buff`: a thread inside a
call keeps running (spin locks held by running threads).  `net_live`: I/O threads loop on their calls, the application
keeps calling `net_queue` (its main loop does), epoll serves ready sockets in
order, so each is fetched in the end (strong fairness, since being ready may
come and go), and the kernel gets output across or gives the connection up.
Nothing is assumed of peers.

### 4.1 Disagreements between the code and what is said of it

* `msg_buff_full`: `engine/README` calls the buffer thread safe; a full one is
  not (section 3.2).
* `net_false_error`: with two I/O threads an established connection can be
  reported as failed.  An event of the connection that was fetched before
  `connect_flag` was cleared is handled after it, and finds no write buffer.
* `net_freed_node`: `net_wait` reads a tree node after leaving the lock of the
  tree; a deletion for another slot may have freed it.
* `tree_deletion`: after 23 insertions and 6 deletions a node of size 3 has no left
  child, and `sb_tree_delete` of its key deletes nothing, although the comment at
  `sbtree.c:176` takes the largest key of the left subtree.  For the ticks it means
  that one given up or run stays in the tree without its callback, and that a size,
  on which `lt` and `index` rely, is wrong from then on.
* `logic_unknown_type`: a warning says that there is no handler for a type of
  message that nobody registered, and the session is closed; but the names of the
  module's own functions are taken for handlers.  `handle_accept` with a number puts
  a new session in the place of that socket's, of a role (`OneSessionPerRole` fails),
  of the listener or of the database, which then never connects again (`OneAttempt`
  fails); `reg_session` adds an entry without a socket (`TableExact` fails).

Seen while reading, and listed as hazards, but not runs: `net_accept` reads
`ai_family` from the listening session after leaving its lock;
`net_socket_cfg` alone does not compare ids, so with the id of a closed socket
it configures the next socket of the slot and reports success (the model takes
that step); `net_socket_cfg` releases the read session after leaving the lock
when the write session cannot be created; and the event queue may fill up with
the ids of closed sockets, as a comment in `push_queue` says: then `in_queue` is
set although the id was not queued, and no event of that socket is reported any
more (the same for the delay queue and `in_delay_queue`).  `Offered` drops the id
as the code does, and the statement that each flag has its id in a queue fails
with `MaxSize` 1 and `MaxLimit` 6; no run makes it.

On Linux `net_socket_cfg` returns 1 on success (the result of `post_read`), and
`db_session.lua:37` takes everything but 0 for a failure: the session to the
database gives up each connection as soon as it is established and tries again.
The model does so too (`cfg` in the loads of `LogicServer`); `OneAttempt` holds on
both backends, since the session still has exactly one attempt to come.  A bare
session (3.6) is never closed, not even when its connection breaks.

## 5. What is proved

All proofs are for every value of the constants under the named assumptions of
the modules; a theorem that needs more says so.

### 5.1 Id allocator (`FfidProofs`)

`FfidProofs` proves everything that the runs check of the allocator, for every `MaxSize`, `MaxLimit > MaxSize` and both kinds of
pool (assumption `FfidAssumption`; sizes are 16 bits and the limit 32 bits
in the code).

The properties are not inductive: that `ffid_has_id` is exact depends on the
links in the free slots not looking like ids in use.  `IInv` says what the
array is: `Threaded` (`first`, the links and `end` spell the queue of free ids,
and no slot is twice in it), `InUse` (a slot in use holds its id and is not in
the queue), `Covered` (any other slot holds the terminator) and `Typed`.
`InitIInv` and `StepIInv`, with one lemma per action, make it invariant
(`Structure`).  A link in a free slot is an id of a *different* slot, or the
terminator, because slots occur once in the queue and generations of a slot are
congruent modulo `MaxSize`; so `HasIdCorrect`, `SlotsUnshared` and
`IdAtCorrect` follow, together `LookupsCorrect`.  `SizeCorrect` adds the invariant `Counted` (cardinality
of held and retired slots), `ReissueLate` the invariant `History` (all earlier
generations of a slot have been issued), and `Refinement` maps each step to a
step of `IdPool` through the tickets.  The arithmetic of quotients and
remainders is in `ModLemmas`.

`ChainIsFifo` follows the links by a recursive function.  The library's induction
theorems are of no use to the provers here, so `UpTo` (in `ModLemmas`) derives
induction up to a bound from the existence of a least counterexample.  By
`Threaded` the queue itself satisfies the equation of the function
(`QueueFollows`), and by `UpTo` only one function does (`IInvChain`); that the
queue is no longer than the array is the pigeonhole principle (`FreeFits`).

### 5.2 Message queue (`MsgBuffProofs`)

`CopiesSafe`, `PartsKept` and `BufferIsFifo` prove `NoStrayCopy`, `NoLostPart`
and the refinement `ImplementsFifo`, for any number of threads, parts and
messages.  Their hypothesis `LoadBound`, `Load <= (PoolCnt - 1) * BufferSize + 1`,
is an assumption about the clients that the code does not enforce.  It cannot
be dropped: `msg_buff_full` violates `NoStrayCopy` with one message more (two
parts of two, load 4).  The network service makes its two queues with four parts
of `size` messages for at most `size` sockets, so the bound there is
`3 * size + 1` ids, counting those of sockets already closed.

The code's positions run in circles and say little by themselves.  The
invariant (`IInv`, that is `Control` and `Numbers`) unrolls them: there are
natural numbers `R <= Q <= S <= W`, of the first message whose reading is not
published, the next one to copy, the end the reader saw and the next one to
write, of which the positions are the remainders, and a number `F` of a part of
which `freeH` is the remainder (`Numbered`).  The messages `Q..W-1` are where
those numbers say (`InPlace`), and every allocated part has a number in
`F..PartNo(W)` (`Reachable`).  `LoadBound` makes all parts in reach less than
`PoolCnt` apart, so that no two of them share a slot of the array and the part
the reader releases is not one the writer is in.  The refinement takes the
messages `Q..W-1` for the contents of the FIFO.

### 5.3 Network service (`NetServiceProofs`)

The first part has a lemma for each operator of `EpollSession`: what it leaves
of the type, of the stage and of the registration of a session (`Sound`).

The second part proves `TypeOK`, `OnePlace`, `RegistrationExact` and
`OwnsIds`.  None is inductive.  A call that publishes its session relies on
nobody else having touched it, and a close relies on the id being returned once;
so the invariant is `Typed`, `Pool` (the allocator and the clients together have
one ticket of each slot), `Places` (`OnePlace`; an id not yet handed out has a
blank session), `Calls` (a call before it publishes, registers or releases has an
id in use to itself, at a stage that fits), `Nodes` (the tree node an I/O thread
holds is of a session that was closed, or freed), `Sounds` and `Silence` (a
session nobody can have seen is not registered and no event in hand is for it).
`StepIInv` goes through every action; it also shows that each step is one of the
allocator's `IdPool` or leaves it alone, which gives `IdsOwned`.  Two facts had to
be written down for this: the identities of `NULL` and `Freed`
(`NullAssumption`), and that the application does not use an id before the call
that opens it returns (`Known`).

The third part proves `NoStuckOutput` and `NoLostInput`, the absence of lost
wakeups, for any number of I/O, delay and application threads and with failures
of `epoll_ctl`.  An edge moves from the kernel (`pend`) into the list of an I/O
thread (`InHand`), and is used up when that thread gets the slot's lock, perhaps
after others have armed, reset or used the same registration.  The invariant
`Served` says of a session with buffers that was not told of an error: what is in
the receive buffer was announced (`Announces`), a broken connection has an edge
(`Warned`), input in the kernel has one or the last read stopped at a full buffer
(`Rings`), and output nobody has to send has one, or a refused send behind it
(`Sends`).  `Linked` says that connections are established before any of this,
which `Served` needs where `net_socket_cfg` first arms a registration.  Each
operator of `EpollSession` keeps it with the edges it was not given
(`HandleServed`, `PostWriteServed`, ...); each action moves at most one edge
(`FlowOn`).

### 5.4 Buffers and stream (`RingProofs`, `StreamProofs`)

`TypeCorrect`, `NothingIsLost`, `NeverRejects` and `OldestFirst` prove `TypeOK`,
`NothingLost`, `NeverRejected` and `ReadsInOrder`, for any number and size of
parts on either side, any header size, any messages that `Sendable` admits, both
receive buffers and every way the stream may be cut.  `StreamAssumption` has the
signs of the constants, at least two values of a byte, and that `NULL` is none of
the things it is compared with.

`RingProofs` is about the array alone.  `Sound` says that read and write positions
are at most `Capacity` apart and that every part between them is allocated and
holds bytes, not `Junk`.  Under it, storing bytes appends them to `Contents`
(`StoredSound`) although they pass over part ends and wrap, releasing the parts
that were passed takes bytes off the front and no byte that is still wanted
(`PassedBehind`, `SkippedSound`), and what is prepared for `send()` or `recv()`
is contiguous and free (`PreparedThere`, `PreparedRoom`).  `DecodedHeader` says that
a header read back is the size written, as long as it fits, `Power` being the
recursion that both use.  `StreamProofs` instantiates the module once for each
side.

`NothingLost` is not inductive: it says nothing of where one message ends and
the next begins.  The invariant `IInv` does.  In version A (`FlowA`, `Recognises`)
the check position is a boundary between messages, all before it have arrived
and the next has not.  In version B (`FlowB`, `IsQueue`) the places of the
queue hold the first messages, and what has begun of the next one, header or
body, is the beginning of its bytes with the place reserved for it still free.
In both, receive buffer and wire and send buffer together are the bytes of the
messages on their way, all of which can be sent (`Accepted`).  Reading a header at
a boundary then gives the size of the message there (`AtBoundary`, `SizeThere`),
so that neither a size that cannot be nor a false boundary is ever found; that the
loop of `recv_buff_check_new_msg` stops at the last complete message within
`Capacity` rounds is `RecognisedStops` and `Recognising`.  Each step keeps the
invariant by a lemma about the flow of its version (`ReceiveFlowA`, `HeadFlowB`,
`BodyFlowB`, `ReadFlowB`, ...).  When memory for a body is missing, version B has
lost its place and only the messages it already holds are still read, in order:
that is why `FlowB` has a case for it.

### 5.5 Database server (`DbProofs`)

`InOrder`, `NoneLost` and `FreedLast` prove `ExecutedInOrder`, `NothingLost` and
`NoUseAfterFree` for any number of zones, logs and statements, and any packing
that satisfies `DbServerAssumption`: there is a zone, no service is started
twice, and the database id comes back.  That assumption is checked, not proved,
for `Pack` and `Unpack`, which are recursive.

`ExecutedInOrder` speaks of threads that run independently, and follows from two
facts: a database id always gets the same zone (`Routed`), and what was executed
of a zone is older than all that waits for it (`Order`).  The second one needs
lists whose numbers rise and whose tail pointer is the last node (`Linear`), or a
push would cut off what waits.  `Lines` says of each service whether it exists
(`Made`), whether it has a thread (`Up`), that what waits in it was handed to it
and nobody else, and where its parameters are: first in the list until the
thread has taken them, so that a thread never executes them as a statement,
although the script may push, or stop the service, before the thread has begun.
`Complete` and `Order` give `NothingLost`; that the executed numbers are
distinct is a bijection.  `Joined` says that threads have ended in the order in
which the script frees services, the shared one last, which is all
`NoUseAfterFree` needs with the stage of each thread.

### 5.6 Logic server (`LogicProofs`)

`CallbacksKept`, `NoneOverdue`, `AgendaKept`, `TablesAgree`, `RolesOnce` and
`AttemptOnce` prove `TicksMatch`, `NothingOverdue`, the refinement
`ImplementsAgenda`, `TableExact`, `OneSessionPerRole` and `OneAttempt`, for any
number of roles, connections, messages and callbacks and any delays and pauses.
There are two hypotheses.  `TreesSorted`: there is a set of trees that sort
(`Sorted`) and is closed under the deletion of a key that is present and, below
`MaxTicks` keys, under the insertion of one that is absent, as the ticks do it.
With `MaxTicks` up to 18 this is what `TreeSound` checks of `SbTree` on every tree
and for every place a key can have; with 23 `sbtree.c` does not satisfy it (4.1).
`TypesKeepOut`: clients send no message of the types `handle_accept` and
`reg_session`.  The last three theorems are false without it (4.1), and it covers
every other name a message may have.

The invariant `IInv` has three parts.  `TickInv` says of the callbacks that tree
and table have the same ticks and that the round is as long as it should be
(`Rounded`): the turns it still has are enough for all callbacks of an earlier
second, and no more than there are callbacks of this one or an earlier.  Neither
`NothingOverdue` nor the agenda is inductive without it, since a round counts
once, when it begins, and callbacks come and go before it ends.  `Good` says of
the tables, which handlers change several times within a step, that they have the
same sockets and count them, that roles and sessions name each other (`Online`),
that there is one listener and at most one session to the database, and which
events the network can report of which socket (`Kept`): the last one keeps a
failed login or a close away from the database session.  `OneAttempt` is its own
invariant with `Database`, once the ticks of `connect_db` are followed through
every step (`WaitingIs`).

Each handler of a message keeps `Good`; that the loop of `do_round` over all of
them does is an induction over their number (`Reading` is its hypothesis: the
session the loop holds may be closed, or bare, but never one whose role somebody
else has).  It is by `UpTo` again (5.1), and `HandledAllIs` gives the recursion
as an equation.  `TickStepAgenda` maps each step of the callbacks to one of
`Agenda`; the other steps leave them alone (`NextStep`).

### 5.7 What stays with TLC

* Liveness: `CallsEnd`, `ClosedReleased`, `EventsReported`, `MessagesArrive`,
  `ShutdownEnds`.
* `NoFalseError`, `NoStuckClosing`, `ClosedReleased` and `EventsReported` hold in the
  instances and not for all constants: two I/O threads can report a false error,
  through a freed node an edge may be spent on another closing session, and an
  event is not reported when the queue is full (4.1).
* `SbTree` and `Serialize` use recursive operators on trees and nested tables, so
  that `TreeSound` and `ArrivesIntact` are out of the provers' reach; the modules
  over them take what they do as hypotheses (5.5, 5.6).

## 6. What is not modelled

* In the network service: `net_close` and the destruction of a service,
  allocation failures other than those of the buffers' parts, failures other than
  those of `epoll_ctl`, reading on after an error (in `Stream`), address lookup,
  per-socket user data, and memory-model effects below the granularity of the
  fences.  `net_socket_ctl`,
  `net_socket_ip_port` and `net_socket_error` change nothing the properties see.
* In the Lua services: failures of `malloc` and `pthread_create` in `lua_server.c`
  and `serialize.c`, a stop by another thread than the one that ran the service,
  and scripts that pack in a service into which another one pushes.
* In the Lua application: a message of the type `net_round` (3.6).
* The Windows backend, an alternative to the Linux backend behind the same
  interface, and the buffer pool, a stack under one lock whose only effect on the
  others, that it may have no memory, is in their modules.
* `heap.c`, `cpack.c` and `bit.c`: no script of the repository uses them.
* `sec_tick.lua` has functions for every hour, minute and second; nothing
  registers one.  Local time and the counter of 100 ms in `tdriver.c`.
* `lua_net.c`, `lua_rio.c` with `log.lua`, `reload.lua`, `read_config.lua`: thread
  start and stop, output, files, and Lua's own semantics.
* What statements do with the database: the functions are empty in the
  repository, and no type of log statement is defined.
* Vendored code (Lua 5.3, the MySQL client, the pthread headers for Windows) and
  the bindings to MySQL and the file system.  By lines this is the larger part of
  the repository, and none of it is the logic of this program.
