------------------------------ MODULE MsgBuff ------------------------------
(***************************************************************************)
(* The message queue of engine/net/buff.c (msg_buff), which carries socket *)
(* ids from the I/O threads to the threads that serve them.                *)
(*                                                                         *)
(* The queue is an array of pool_cnt parts of buffer_size messages.  Parts *)
(* are allocated when a message is first written to them and released when *)
(* the reader has left them.  Writers exclude each other by wflag, readers *)
(* by rflag, but a reader and a writer run concurrently: each takes a      *)
(* snapshot of the other's position and works from it.                     *)
(*                                                                         *)
(* A position is a pair of part number and offset, packed in one word; the *)
(* part number runs modulo 2 * pool_cnt so that full and empty differ.     *)
(* Here a position is the number part * BufferSize + offset.  The read     *)
(* position starts one lap ahead of the write position: they are equal     *)
(* when the queue is full and a lap apart when it is empty.                *)
(*                                                                         *)
(* The steps of a call are those between which the other side can change   *)
(* something the call uses: the snapshot under the lock, the allocation,   *)
(* the copy, each part released, the publication of the new position.      *)
(*                                                                         *)
(* Operators whose name ends in _slip are wrong variants of the definition *)
(* after them, used only to show that the checks would notice the slip.    *)
(***************************************************************************)
EXTENDS Integers, Sequences, FiniteSets

CONSTANTS
  Writers,     \* threads that call msg_buff_write
  Readers,     \* threads that call msg_buff_read
  Msg,         \* messages
  PoolCnt,     \* pool_cnt
  BufferSize,  \* buffer_size: messages per part
  MaxRead,     \* the largest n of msg_buff_read
  Load,        \* how many messages the clients let wait at most
  NULL,        \* no part, no thread, no message
  Junk         \* the contents of memory not written yet

ASSUME MsgBuffAssumption ==
  /\ PoolCnt \in Nat \ {0}
  /\ BufferSize \in Nat \ {0}
  /\ MaxRead \in Nat \ {0}
  /\ Load \in Nat
  /\ Readers \cap Writers = {}
  /\ NULL \notin Msg \cup Readers \cup Writers \cup {Junk} /\ Junk \notin Msg
  /\ NULL \notin [0..(BufferSize - 1) -> Msg \cup {Junk}]

Capacity == PoolCnt * BufferSize
Lap == 2 * Capacity
Position == 0..(Lap - 1)
PartOf(pos) == pos \div BufferSize         \* the high half, 0..2*PoolCnt-1
Forward(pos, k) == (pos + k) % Lap

VARIABLES
  parts,      \* buffers[]: the allocated parts
  write,      \* published write position
  read,       \* published read position
  freeH,      \* freeH: the part the next release starts at
  wflag,      \* holder of the writers' lock
  rflag,      \* holder of the readers' lock
  pc,         \* where each thread is in its call
  msg,        \* argument of the write in progress
  seen,       \* the reader's snapshot of write (uWrite)
  cursor,     \* how far the reader has copied (uRead)
  want,       \* argument n of the read in progress
  got         \* what the reader has copied

vars == <<parts, write, read, freeH, wflag, rflag, pc, msg, seen, cursor, want,
          got>>
writerVars == <<write, wflag, msg>>
readerVars == <<read, freeH, rflag, seen, cursor, want, got>>

Goto(t, label) == pc' = [pc EXCEPT ![t] = label]

(* buff_get_space: free cells between a write and a read position. *)
Space(r, w) == (r - w) % Lap
(* messages between a read and a write position *)
Used(r, w) == Capacity - Space(r, w)

(* buffers[part % pool_cnt][offset] *)
Allocated(pos) == parts[PartOf(pos) % PoolCnt] # NULL
Cell(pos) == IF Allocated(pos) THEN parts[PartOf(pos) % PoolCnt][pos % BufferSize]
                               ELSE Junk
CellsFrom(pos, k) == [i \in 1..k |-> Cell(Forward(pos, i - 1))]

Init ==
  /\ parts = [i \in 0..(PoolCnt - 1) |-> NULL]
  /\ write = 0
  /\ read = Capacity
  /\ freeH = PoolCnt
  /\ wflag = NULL /\ rflag = NULL
  /\ pc = [t \in Writers \cup Readers |-> "idle"]
  /\ msg = NULL
  /\ seen = 0 /\ cursor = Capacity /\ want = 0 /\ got = <<>>

-----------------------------------------------------------------------------
\* no test for a full queue
WriteBegin_slip(w, m) ==
  /\ pc[w] = "idle" /\ wflag = NULL
  /\ Used(read, write) < Load
  /\ wflag' = w /\ msg' = m
  /\ Goto(w, "alloc")
  /\ UNCHANGED <<parts, write, readerVars>>

(* msg_buff_write.  The lock is taken and both positions are read; a full  *)
(* queue refuses.  Load is what the clients guarantee, not a test here.    *)
WriteBegin(w, m) ==
  /\ pc[w] = "idle" /\ wflag = NULL
  /\ Used(read, write) < Load
  /\ write # read
  /\ wflag' = w /\ msg' = m
  /\ Goto(w, "alloc")
  /\ UNCHANGED <<parts, write, readerVars>>

(* The part is allocated when missing ... *)
WriteAlloc(w) ==
  /\ pc[w] = "alloc"
  /\ parts' = IF Allocated(write) THEN parts
              ELSE [parts EXCEPT ![PartOf(write) % PoolCnt] =
                                    [i \in 0..(BufferSize - 1) |-> Junk]]
  /\ Goto(w, "copy")
  /\ UNCHANGED <<writerVars, readerVars>>

(* ... or the pool has no memory and the call fails. *)
WriteNoMemory(w) ==
  /\ pc[w] = "alloc" /\ ~Allocated(write)
  /\ wflag' = NULL /\ msg' = NULL
  /\ Goto(w, "idle")
  /\ UNCHANGED <<parts, write, readerVars>>

WriteCopy(w) ==
  /\ pc[w] = "copy" /\ Allocated(write)
  /\ parts' = [parts EXCEPT ![PartOf(write) % PoolCnt][write % BufferSize] = msg]
  /\ Goto(w, "publish")
  /\ UNCHANGED <<writerVars, readerVars>>

WritePublish(w) ==
  /\ pc[w] = "publish"
  /\ write' = Forward(write, 1)
  /\ wflag' = NULL /\ msg' = NULL
  /\ Goto(w, "idle")
  /\ UNCHANGED <<parts, readerVars>>

-----------------------------------------------------------------------------
(* msg_buff_read: the lock, the snapshot of write, then of read. *)
ReadBegin(r, n) ==
  /\ pc[r] = "idle" /\ rflag = NULL
  /\ rflag' = r
  /\ seen' = write /\ cursor' = read /\ want' = n
  /\ Goto(r, "read")
  /\ UNCHANGED <<parts, writerVars, read, freeH, got>>

CommandCnt_slip == want                    \* not bounded by what is there
CommandCnt == IF Used(read, seen) < want THEN Used(read, seen) ELSE want

ReadCopy(r) ==
  /\ pc[r] = "read"
  /\ got' = CellsFrom(read, CommandCnt)
  /\ cursor' = Forward(read, CommandCnt)
  /\ Goto(r, "gc")
  /\ UNCHANGED <<parts, writerVars, read, freeH, rflag, seen, want>>

\* moves on before it releases
ReadGc_slip(r) ==
  /\ pc[r] = "gc" /\ freeH # PartOf(cursor)
  /\ freeH' = (freeH + 1) % (2 * PoolCnt)
  /\ parts' = IF freeH' % PoolCnt = PartOf(seen) % PoolCnt THEN parts
              ELSE [parts EXCEPT ![freeH' % PoolCnt] = NULL]
  /\ UNCHANGED <<writerVars, read, rflag, pc, seen, cursor, want, got>>

\* moves to the reader's part at once
ReadGc_leap_slip(r) ==
  /\ pc[r] = "gc" /\ freeH # PartOf(cursor)
  /\ parts' = [parts EXCEPT ![freeH % PoolCnt] = NULL]
  /\ freeH' = PartOf(cursor)
  /\ UNCHANGED <<writerVars, read, rflag, pc, seen, cursor, want, got>>

\* counts parts modulo pool_cnt
ReadGc_wrap_slip(r) ==
  /\ pc[r] = "gc" /\ freeH # PartOf(cursor)
  /\ parts' = IF freeH % PoolCnt = PartOf(seen) % PoolCnt THEN parts
              ELSE [parts EXCEPT ![freeH % PoolCnt] = NULL]
  /\ freeH' = (freeH + 1) % PoolCnt
  /\ UNCHANGED <<writerVars, read, rflag, pc, seen, cursor, want, got>>

(* One turn of the loop of buff_gc_help: release the part behind the       *)
(* reader unless it is the one the writer was in when the call began.      *)
ReadGc(r) ==
  /\ pc[r] = "gc" /\ freeH # PartOf(cursor)
  /\ parts' = IF freeH % PoolCnt = PartOf(seen) % PoolCnt THEN parts
              ELSE [parts EXCEPT ![freeH % PoolCnt] = NULL]
  /\ freeH' = (freeH + 1) % (2 * PoolCnt)
  /\ UNCHANGED <<writerVars, read, rflag, pc, seen, cursor, want, got>>

ReadPublish(r) ==
  /\ pc[r] = "gc" /\ freeH = PartOf(cursor)
  /\ read' = cursor
  /\ rflag' = NULL
  /\ seen' = 0 /\ want' = 0 /\ got' = <<>>
  /\ Goto(r, "idle")
  /\ UNCHANGED <<parts, writerVars, freeH, cursor>>

Write(w) == \/ \E m \in Msg : WriteBegin(w, m)
            \/ WriteAlloc(w) \/ WriteNoMemory(w) \/ WriteCopy(w) \/ WritePublish(w)
Read(r) == \/ \E n \in 1..MaxRead : ReadBegin(r, n)
           \/ ReadCopy(r) \/ ReadGc(r) \/ ReadPublish(r)

Next == (\E w \in Writers : Write(w)) \/ (\E r \in Readers : Read(r))

Spec == Init /\ [][Next]_vars

(* A thread inside a call keeps running. *)
Fairness == /\ \A w \in Writers : WF_vars(Write(w) /\ pc[w] # "idle")
            /\ \A r \in Readers : WF_vars(Read(r) /\ pc[r] # "idle")
FairSpec == Spec /\ Fairness

-----------------------------------------------------------------------------
(* No thread copies to or from a part that is not there. *)
NoStrayCopy ==
  /\ \A w \in Writers : pc[w] = "copy" => Allocated(write)
  /\ \A r \in Readers : pc[r] = "read" =>
       \A i \in 1..CommandCnt : Allocated(Forward(read, i - 1))

(* No part is lost: an allocated part lies between the part where the next *)
(* release starts and the part being written.  In particular a queue that  *)
(* has been drained keeps at most one part.                                *)
NoLostPart ==
  \A i \in 0..(PoolCnt - 1) :
    parts[i] # NULL =>
      \E k \in 0..((PartOf(write) - freeH + PoolCnt) % (2 * PoolCnt)) :
        (freeH + k) % PoolCnt = i

(* A call that has its lock ends: the release loop of a reader, which      *)
(* counts part numbers modulo 2 * pool_cnt until it meets the reader's     *)
(* part, meets it, while writers keep writing.                             *)
CallsEnd == /\ \A w \in Writers : wflag = w ~> wflag # w
            /\ \A r \in Readers : rflag = r ~> rflag # r

(* The buffer is the queue that engine/README line 14 calls a thread-safe  *)
(* FIFO: accepted messages come out once, in order, intact.  A read takes  *)
(* effect when its messages have been copied.                              *)
Fifo == INSTANCE BoundedFifo WITH
          waiting <- CellsFrom(cursor, Used(cursor, write)),
          taken <- [r \in Readers |-> IF pc[r] = "gc" THEN got ELSE <<>>]
ImplementsFifo == Fifo!Spec
=============================================================================
