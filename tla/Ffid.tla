-------------------------------- MODULE Ffid --------------------------------
(***************************************************************************)
(* The id allocator of engine/tool/ffid.c.  The network service names      *)
(* every socket by an id of this allocator and finds the socket's slot as  *)
(* id modulo the number of slots, so an id must be live in at most one     *)
(* slot and a stale id must never be taken for the socket that reuses the  *)
(* slot.                                                                   *)
(*                                                                         *)
(* One array ts[] serves two purposes.  For a slot in use ts[i] is the id  *)
(* in use.  For a free slot ts[i] is the id AFTER it in the list of free   *)
(* ids, so that the free list is threaded through the array: `first' is    *)
(* the next id to hand out, `end' the slot of the last free one, and       *)
(* max_limit (2^32 - 1 in the code) ends the list.  Inside the module ids  *)
(* count from 0; clients see id + 1 and 0 means "no id".                   *)
(*                                                                         *)
(* The calls are serialized by their callers (id_lock in net_service.c),   *)
(* hence one action per call.  A client gives back an id it holds, once.   *)
(*                                                                         *)
(* Operators whose name ends in _slip are wrong variants of the definition *)
(* after them, used only to show that the checks would notice the slip.    *)
(***************************************************************************)
EXTENDS Integers, Sequences, FiniteSets

CONSTANTS
  MaxSize,    \* max_size: number of slots
  MaxLimit    \* max_limit: the list terminator, above every id

ASSUME FfidAssumption ==
  /\ MaxSize \in Nat \ {0}
  /\ MaxLimit \in Nat
  /\ MaxSize < MaxLimit      \* max_size is 16 bits wide, max_limit 32

VARIABLES
  ts,         \* the array, indexed by slot
  first,      \* the next id to hand out, or MaxLimit
  end,        \* slot of the last free id; stale while nothing is free
  curSize,    \* cur_size
  isLoop,     \* is_loop: may a slot restart its ids? fixed at creation
  held,       \* auxiliary: the ids (as clients see them) now in use
  fifo,       \* auxiliary: the free ids in the order they will be used
  issued      \* auxiliary: every id ever handed out

vars == <<ts, first, end, curSize, isLoop, held, fifo, issued>>

Slot == 0..(MaxSize - 1)
Id == 1..MaxLimit            \* ids as clients see them

Index(id) == (id - 1) % MaxSize

\* without the test for 0, which --id turns into max_limit
HasId_slip(id) == LET i == (id + MaxLimit) % (MaxLimit + 1)
                  IN  ts[i % MaxSize] = i

(* ffid_has_id: is this id in use? *)
HasId(id) == id # 0 /\ ts[Index(id)] = id - 1

\* without the test that tells an id from a link of the free list
IdAt_slip(slot) == (ts[slot] + 1) % (MaxLimit + 1)

(* ffid_id: the id in use in a slot, 0 if none.  The sum is 32 bits wide. *)
IdAt(slot) == IF ts[slot] % MaxSize = slot THEN (ts[slot] + 1) % (MaxLimit + 1)
                                           ELSE 0

(* The last id a slot can have: adding MaxSize would reach the limit. *)
NearLimit(id) == MaxLimit - (id - 1) <= MaxSize

Init ==
  /\ ts = [i \in Slot |-> IF i = MaxSize - 1 THEN MaxLimit ELSE i + 1]
  /\ first = 0
  /\ end = MaxSize - 1
  /\ curSize = 0
  /\ isLoop \in BOOLEAN
  /\ held = {}
  /\ fifo = [k \in 1..MaxSize |-> k - 1]
  /\ issued = {}

\* first advanced after the slot was overwritten
NewId_slip ==
  /\ first < MaxLimit
  /\ first' = first
  /\ ts' = [ts EXCEPT ![first % MaxSize] = first]
  /\ curSize' = curSize + 1
  /\ held' = held \cup {first + 1}
  /\ issued' = issued \cup {first + 1}
  /\ fifo' = Tail(fifo)
  /\ UNCHANGED <<end, isLoop>>

(* ffid_new_id; it returns 0 and changes nothing when first >= max_limit. *)
NewId ==
  /\ first < MaxLimit
  /\ first' = ts[first % MaxSize]
  /\ ts' = [ts EXCEPT ![first % MaxSize] = first]
  /\ curSize' = curSize + 1
  /\ held' = held \cup {first + 1}
  /\ issued' = issued \cup {first + 1}
  /\ fifo' = Tail(fifo)
  /\ UNCHANGED <<end, isLoop>>

\* the slot keeps the id that just left it
Retire_slip(id) ==
  /\ NearLimit(id) /\ ~isLoop
  /\ held' = held \ {id}
  /\ UNCHANGED <<ts, first, end, curSize, fifo, issued, isLoop>>

\* the retired slot no longer counts, as if it could be used again
Retire_size_slip(id) ==
  /\ NearLimit(id) /\ ~isLoop
  /\ ts' = [ts EXCEPT ![Index(id)] = MaxLimit]
  /\ held' = held \ {id}
  /\ curSize' = curSize - 1
  /\ UNCHANGED <<first, end, fifo, issued, isLoop>>

(* ffid_del_id of the last id of a slot when ids may not restart: the slot *)
(* leaves the pool and still counts in cur_size.                           *)
Retire(id) ==
  /\ NearLimit(id) /\ ~isLoop
  /\ ts' = [ts EXCEPT ![Index(id)] = MaxLimit]
  /\ held' = held \ {id}
  /\ UNCHANGED <<first, end, curSize, fifo, issued, isLoop>>

\* no restart below the limit
NextIdOf_limit_slip(id) == id - 1 + MaxSize

\* the id as clients see it instead of the internal one
NextIdOf_slot_slip(id) == IF NearLimit(id) THEN Index(id) ELSE (id + MaxSize) % MaxLimit

\* the same id again
NextIdOf_same_slip(id) == id - 1

NextIdOf(id) == IF NearLimit(id) THEN Index(id) ELSE id - 1 + MaxSize

\* is_loop not consulted
Recycle_loop_slip(id) ==
  /\ first' = IF first >= MaxLimit THEN NextIdOf(id) ELSE first
  /\ ts' = IF first >= MaxLimit
           THEN [ts EXCEPT ![Index(id)] = MaxLimit]
           ELSE [ts EXCEPT ![end] = NextIdOf(id), ![Index(id)] = MaxLimit]
  /\ end' = Index(id)
  /\ curSize' = curSize - 1
  /\ held' = held \ {id}
  /\ fifo' = Append(fifo, NextIdOf(id))
  /\ UNCHANGED <<issued, isLoop>>

\* end left behind
Recycle_end_slip(id) ==
  /\ ~NearLimit(id) \/ isLoop
  /\ first' = IF first >= MaxLimit THEN NextIdOf(id) ELSE first
  /\ ts' = IF first >= MaxLimit
           THEN [ts EXCEPT ![Index(id)] = MaxLimit]
           ELSE [ts EXCEPT ![end] = NextIdOf(id), ![Index(id)] = MaxLimit]
  /\ curSize' = curSize - 1
  /\ held' = held \ {id}
  /\ fifo' = Append(fifo, NextIdOf(id))
  /\ UNCHANGED <<end, issued, isLoop>>

\* put at the front: last in, first out
Recycle_front_slip(id) ==
  /\ ~NearLimit(id) \/ isLoop
  /\ first' = NextIdOf(id)
  /\ ts' = [ts EXCEPT ![Index(id)] = first]
  /\ end' = IF first >= MaxLimit THEN Index(id) ELSE end
  /\ curSize' = curSize - 1
  /\ held' = held \ {id}
  /\ fifo' = <<NextIdOf(id)>> \o fifo
  /\ UNCHANGED <<issued, isLoop>>

\* cur_size not decremented
Recycle_size_slip(id) ==
  /\ ~NearLimit(id) \/ isLoop
  /\ first' = IF first >= MaxLimit THEN NextIdOf(id) ELSE first
  /\ ts' = IF first >= MaxLimit
           THEN [ts EXCEPT ![Index(id)] = MaxLimit]
           ELSE [ts EXCEPT ![end] = NextIdOf(id), ![Index(id)] = MaxLimit]
  /\ end' = Index(id)
  /\ held' = held \ {id}
  /\ fifo' = Append(fifo, NextIdOf(id))
  /\ UNCHANGED <<curSize, issued, isLoop>>

(* ffid_del_id otherwise: the slot's next id goes to the end of the list. *)
Recycle(id) ==
  /\ ~NearLimit(id) \/ isLoop
  /\ first' = IF first >= MaxLimit THEN NextIdOf(id) ELSE first
  /\ ts' = IF first >= MaxLimit
           THEN [ts EXCEPT ![Index(id)] = MaxLimit]
           ELSE [ts EXCEPT ![end] = NextIdOf(id), ![Index(id)] = MaxLimit]
  /\ end' = Index(id)
  /\ curSize' = curSize - 1
  /\ held' = held \ {id}
  /\ fifo' = Append(fifo, NextIdOf(id))
  /\ UNCHANGED <<issued, isLoop>>

DelId(id) == id \in held /\ (Retire(id) \/ Recycle(id))

Next == NewId \/ \E id \in held : DelId(id)

Spec == Init /\ [][Next]_vars

-----------------------------------------------------------------------------
(* The free list as the array encodes it: start at first, follow ts.  Its  *)
(* k-th link, from 0; MaxLimit from the end of the list on.                *)
Chain ==
  LET link[k \in 0..MaxSize] ==
        IF k = 0 THEN first
        ELSE IF link[k - 1] < MaxLimit THEN ts[link[k - 1] % MaxSize] ELSE MaxLimit
  IN  link

TypeOK ==
  /\ ts \in [Slot -> 0..MaxLimit]
  /\ first \in 0..MaxLimit
  /\ end \in Slot
  /\ curSize \in 0..MaxSize
  /\ isLoop \in BOOLEAN
  /\ held \subseteq Id
  /\ fifo \in Seq(0..(MaxLimit - 1))
  /\ issued \subseteq Id

(* The list threaded through ts[] is exactly the queue of free ids: no id  *)
(* is lost or repeated and the order is that in which slots were freed,    *)
(* whatever sequence of ffid_new_id and ffid_del_id led here.              *)
ChainIsFifo ==
  /\ Len(fifo) <= MaxSize
  /\ Chain = [k \in 0..MaxSize |-> IF k < Len(fifo) THEN fifo[k + 1] ELSE MaxLimit]

(* ffid_has_id answers TRUE for the ids in use and for nothing else: a     *)
(* stale id, a future id and the links stored in free slots all answer     *)
(* FALSE.  Everything net_service.c does with an id rests on this.         *)
HasIdExact == \A id \in 0..MaxLimit : HasId(id) <=> id \in held

(* Two ids in use never share a slot: the caller indexes its own array of  *)
(* sockets by the slot.                                                    *)
OneIdPerSlot == \A a, b \in held : Index(a) = Index(b) => a = b

(* ffid_id returns the id in use in a slot and 0 for a slot without one,   *)
(* although a free slot holds a link that is a number of the same kind.    *)
IdAtExact ==
  \A s \in Slot : \/ IdAt(s) \in held /\ Index(IdAt(s)) = s
                  \/ IdAt(s) = 0 /\ \A id \in held : Index(id) # s

(* What the callers look up by an id or by a slot is exact, whatever was   *)
(* done before and however stale the id is.                                *)
LookupsExact == HasIdExact /\ OneIdPerSlot /\ IdAtExact

(* cur_size counts the slots that are not free; ffid_new_id fails exactly  *)
(* when that is all of them.                                               *)
SizeExact ==
  /\ curSize = MaxSize - Len(fifo)
  /\ curSize = Cardinality(held) + Cardinality({s \in Slot :
       /\ \A id \in held : Index(id) # s
       /\ \A k \in 1..Len(fifo) : fifo[k] % MaxSize # s})
  /\ first >= MaxLimit <=> curSize = MaxSize

(* An id is handed out a second time only by a looping allocator, and only *)
(* after every id of its slot has been used: a client that kept a stale id *)
(* is safe until the slot has been through all its generations.            *)
LateReissue ==
  \A id \in held' \ held :
    id \in issued =>
      /\ isLoop
      /\ \A other \in Id : Index(other) = Index(id) => other \in issued
NoEarlyReissue == [][LateReissue]_vars

(* The allocator implements the queue of tickets. *)
Ticket(id) == <<id % MaxSize, id \div MaxSize>>
Pool == INSTANCE IdPool WITH
          free <- [k \in 1..Len(fifo) |-> Ticket(fifo[k])],
          held <- {Ticket(id - 1) : id \in held}
ImplementsPool == Pool!Spec
=============================================================================
